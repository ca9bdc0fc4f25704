----------------------------- MODULE MCToolCalls -----------------------------
EXTENDS ToolCalls

Mix(tools, n) == [tools |-> tools, left |-> n]

\* Every tool alone, and the few that change what comes after them.
MCMixes ==
    {Mix({tool}, 1) : tool \in Tools} \cup
    {Mix({"TodoWrite"}, 3), Mix({"CreatePlan", "TodoWrite"}, 2), Mix({"WebFetch"}, 2),
     Mix({"SwitchMode", "Write"}, 2), Mix({"Read", "Glob"}, 2)}

Todo(id, content, status) == [id |-> id, content |-> content, status |-> status]

\* New items, finished ones, updates without a content, an item without an id,
\* the same id twice, and lists that leave out one of another's items.
MCLists ==
    {<<>>, <<Todo(1, TRUE, "")>>, <<Todo(1, TRUE, "completed")>>, <<Todo(2, TRUE, "pending")>>,
     <<Todo(1, TRUE, "pending"), Todo(2, TRUE, "")>>,
     <<Todo(1, TRUE, "completed"), Todo(2, TRUE, "")>>,
     <<Todo(1, FALSE, "completed")>>, <<Todo(1, FALSE, "pending"), Todo(3, TRUE, "")>>,
     <<Todo(2, FALSE, "")>>, <<Todo(0, TRUE, "pending")>>,
     <<Todo(1, TRUE, "completed"), Todo(1, TRUE, "pending")>>}

MCKeeps == [what \in {"read", "stream", "grep", "mcp", "search", "fetch"} |-> 4]

MCReplays == [tool \in {"Read", "Grep", "WebFetch", "WebSearch", "CallMcpTool", "FetchMcpResource",
                        "Shell", "PatchEdit", "Write"} |->
              CASE tool = "Shell" -> 9 [] tool = "PatchEdit" -> 2 [] OTHER -> 4]
=============================================================================
