------------------------------ MODULE ToolCalls ------------------------------
(***************************************************************************)
(* The tool calls of a conversation from the provider to the next prompt:  *)
(* a call is refused, handled on the spot, or sent to the client, whose    *)
(* answer may come after those to later calls; its outcome is stored in    *)
(* the history, and every later prompt is projected from there.            *)
(*                                                                         *)
(* Passes, timers and the end of a turn are StreamActor's, the chain of    *)
(* requests behind an edit is FileEdits', and Shell output ShellSessions'. *)
(***************************************************************************)
EXTENDS ToolReplay, TodoList

CONSTANTS
    Mixes,      \* sets of tools a provider may use in one run, with a bound on its calls
    Lengths,    \* lengths of an answer's content
    Lists,      \* lists of things to do the provider may write
    MaxTurns,   \* bound on the turns
    StartModes  \* the modes a conversation may start in

ASSUME BoundsAssumption == Lengths \subseteq Nat /\ Lists \subseteq Seq(Items(Nat)) /\ MaxTurns \in Nat
ASSUME ModesAssumption  == StartModes \subseteq {"agent", "ask", "plan", "debug", "multitask"}

VARIABLES
    mode,       \* the mode of the conversation
    child,      \* whether it is the conversation of a subagent
    open,       \* the calls the client works on
    history,    \* the stored results, in the order they came
    turn,       \* the turn being worked on
    cancelled,  \* the turns the user stopped
    cached,     \* the page that was fetched before, if any
    calls       \* the tools the provider uses, and how many calls are left

vars == <<mode, child, open, history, turn, cancelled, cached, calls>>

LocalTools == {"TodoWrite"}
NativeTools == {"GenerateImage"}
Tools == ExecTools \cup InteractionTools \cup LocalTools \cup NativeTools \cup EditTools \cup {"Unknown"}

Init ==
    /\ mode \in StartModes /\ child \in BOOLEAN
    /\ child => mode \in {"agent", "plan"}
    /\ open = {} /\ history = <<>> /\ turn = 1 /\ cancelled = {}
    /\ cached = NoText /\ calls \in Mixes

-----------------------------------------------------------------------------
(* Which tools a mode has *)

Changing == {"Write", "PatchEdit", "Delete"}

modeToolNames(m) ==
    Tools \ ({"Unknown"} \cup
        CASE m \in {"agent", "multitask"} -> {"CreatePlan"}
          [] m = "plan"                   -> Changing \cup {"SwitchMode", "GenerateImage"}
          [] OTHER                        -> {"CreatePlan", "SwitchMode", "GenerateImage"})

readonlySubagentToolNames ==
    {"AskQuestion", "CallMcpTool", "FetchMcpResource", "Glob", "Grep", "Ls", "Read",
     "ReadLints", "SwitchMode", "TodoWrite", "WebFetch", "WebSearch"}

isToolAllowedInMode(tool) ==
    CASE child /\ mode = "plan" -> tool \in readonlySubagentToolNames
      [] child /\ mode # "plan" -> tool \in modeToolNames("agent") \ {"AskQuestion"}
      [] ~child                 -> tool \in modeToolNames(mode)

-----------------------------------------------------------------------------
(* Calls *)

\* No started message, and so no entry of the call, is built for these.
buildStartedToolCall(tool) == tool \notin {"ReadLints", "ForceBackgroundShell", "Unknown"}

\* What is stored of a finished call; heard is what really came of it.
Result(call, outcome, heard) ==
    [tool |-> call.tool, turn |-> turn, started |-> buildStartedToolCall(call.tool),
     reasoning |-> call.reasoning, text |-> outcome.text, stored |-> outcome.stored,
     todos |-> <<>>, merged |-> FALSE, heard |-> heard]

Nothing(case) == [case |-> case, len |-> 0]

appendToolResult(result) == history' = Append(history, result)

todos == projectConversationStructuredState(history, cancelled)

\* The provider makes one more call.
Makes(call) ==
    /\ calls.left > 0 /\ turn \notin cancelled
    /\ calls' = [calls EXCEPT !.left = @ - 1]

\* The provider's reasoning counts only where a call may be left without an entry.
NewCalls(tool) ==
    [tool : {tool}, args : Args, n : {calls.left},
     reasoning : IF buildStartedToolCall(tool) THEN {FALSE} ELSE BOOLEAN]

completePreDispatchToolError(call) ==
    /\ appendToolResult(Result(call, [text |-> Line("refused"), stored |-> NoCall], Nothing("refused")))
    /\ UNCHANGED <<mode, child, open, turn, cancelled, cached>>

\* Outside the workspace nothing is deleted or downloaded to.
Fenced(call, outside) == call.tool \in {"Delete", "FetchMcpResource", "Write", "PatchEdit"} /\ outside

Sendable(call, outside, overrides) ==
    /\ isToolAllowedInMode(call.tool)
    /\ ~Fenced(call, outside)
    /\ CASE call.tool \in ExecTools        -> OpenExec(call, overrides)
         [] call.tool \in InteractionTools -> OpenQuery(call)
         [] call.tool \in EditTools        -> call.args = "complete"
         [] OTHER                          -> FALSE

\* A call that is not sent is over at once.
RefuseCall(call, outside, overrides) ==
    /\ Makes(call)
    /\ call.tool \in LocalTools \cup NativeTools => ~isToolAllowedInMode(call.tool)
    /\ ~Sendable(call, outside, overrides)
    /\ completePreDispatchToolError(call)

\* The request is registered before it is published.
SendCall(call, outside, overrides, plan) ==
    /\ Makes(call)
    /\ Sendable(call, outside, overrides)
    /\ plan # <<>> => call.tool = "CreatePlan"
    /\ open' = open \cup {[tool |-> call.tool, reasoning |-> call.reasoning, n |-> call.n, plan |-> plan]}
    /\ UNCHANGED <<mode, child, history, turn, cancelled, cached>>

\* The list is kept by the server: the call is over when it is handled.
WriteTodos(call, merge, items) ==
    /\ Makes(call)
    /\ isToolAllowedInMode(call.tool)
    /\ LET write == IF call.args = "complete" THEN handleTodoWrite(merge, todos, items) ELSE Failure
       IN appendToolResult(
            [Result(call, [text |-> Line(write.case), stored |-> Encoded(Line(write.case))], Nothing(write.case))
             EXCEPT !.todos = write.todos, !.merged = write.merged])
    /\ UNCHANGED <<mode, child, open, turn, cancelled, cached>>

\* Without what it takes the call is over; else the provider is asked, away
\* from the actor, and the call is pending.
GenerateImage(call, references, ofModel, ofImages) ==
    /\ Makes(call)
    /\ isToolAllowedInMode(call.tool)
    /\ IF ImageReady(call, references, ofModel, ofImages)
       THEN /\ open' = open \cup {[tool |-> call.tool, reasoning |-> call.reasoning, n |-> call.n, plan |-> <<>>]}
            /\ UNCHANGED history
       ELSE /\ appendToolResult(Result(call, buildGenerateImageResult("error"), Nothing("error")))
            /\ UNCHANGED open
    /\ UNCHANGED <<mode, child, turn, cancelled, cached>>

-----------------------------------------------------------------------------
(* Answers *)

WithContent == (ExecTools \ {"Delete", "WriteShellStdin", "ForceBackgroundShell"})
               \cup (InteractionTools \ {"SwitchMode"}) \cup EditTools

AnswersTo(tool) ==
    LET cases == IF tool \in EditTools THEN {"success", "error"} ELSE CasesOf(tool)
        sized == IF tool \in WithContent THEN Lengths \ (IF tool = "WebFetch" THEN {0} ELSE {}) ELSE {0}
    IN [case : cases \ {"success", "failure", "background"}, len : {0}, finds : {{}}]
       \cup [case : cases \cap {"success", "failure", "background"}, len : sized,
             finds : IF tool = "WebSearch" THEN SUBSET {"duckduckgo", "bing", "baidu"} ELSE {{}}]

\* The end of the chain of requests behind an edit, with the file before and
\* after it and the diff.
editOutcome(a) ==
    [text   |-> Line(a.case),
     stored |-> IF HasContent(a) THEN [Body(a.len) EXCEPT !.len = 3 * a.len + 1] ELSE Encoded(Line(a.case))]

Outcome(tool, a) ==
    CASE tool \in ExecTools        -> ApplyExecClientMessage(tool, a)
      [] tool \in InteractionTools -> ApplyInteractionResponse(tool, a, cached)
      [] OTHER                     -> editOutcome(a)

\* What an answer comes to, before anything is made of it.
Heard(tool, a) ==
    CASE tool = "WebFetch" /\ cached # NoText /\ a.case \in {"success"} \cup FetchFailures ->
            [case |-> "success", len |-> cached.own]
      [] tool = "WebSearch" /\ a.case = "success" /\ KeyMissing   -> Nothing("key_missing")
      [] tool = "WebSearch" /\ a.case = "success" /\ ~KeyMissing /\ a.finds = {} -> Nothing("no_engine")
      [] tool = "CreatePlan" /\ a.case = "success" /\ a.len = 0   -> Nothing("no_uri")
      [] OTHER                                                    -> [case |-> a.case, len |-> a.len]

HandleExecResult(call, a) ==
    /\ call \in open /\ call.tool \in ExecTools \cup EditTools
    /\ ~Refuses(call.tool, a)
    /\ call.tool = "Shell" => IsShellEnd(a)
    /\ open' = open \ {call}
    /\ appendToolResult(Result(call, Outcome(call.tool, a), Heard(call.tool, a)))
    /\ UNCHANGED <<mode, child, turn, cancelled, cached, calls>>

\* The client reports that a request failed on its side.
HandleExecThrow(call) ==
    /\ call \in open /\ call.tool \in ExecTools
    /\ open' = open \ {call}
    /\ appendToolResult(Result(call, ApplyExecClientControl, Nothing("thrown")))
    /\ UNCHANGED <<mode, child, turn, cancelled, cached, calls>>

\* The plan's list of things to do is stored with its success.
HandleInteractionResult(call, a, target) ==
    LET outcome == Outcome(call.tool, a)
        heard   == Heard(call.tool, a)
    IN /\ call \in open /\ call.tool \in InteractionTools
       /\ open' = open \ {call}
       /\ appendToolResult([Result(call, outcome, heard) EXCEPT
                               !.todos = IF heard.case = "success" THEN call.plan ELSE <<>>])
       /\ mode' = IF call.tool = "SwitchMode" /\ a.case = "success" THEN target ELSE mode
       /\ cached' = IF call.tool = "WebFetch" THEN cachePut(cached, outcome.text) ELSE cached
       /\ UNCHANGED <<child, turn, cancelled, calls>>

\* An image comes back to the actor like an answer of the client.
HandleImageResult(call, case) ==
    /\ call \in open /\ call.tool = "GenerateImage"
    /\ open' = open \ {call}
    /\ appendToolResult(Result(call, buildGenerateImageResult(case), Nothing(case)))
    /\ UNCHANGED <<mode, child, turn, cancelled, cached, calls>>

-----------------------------------------------------------------------------
(* Turns *)

NextTurn ==
    /\ open = {} /\ turn < MaxTurns
    /\ turn' = turn + 1
    /\ UNCHANGED <<mode, child, open, history, cancelled, cached, calls>>

\* Everything of the turn but the user's message is left out from then on.
CancelTurn ==
    /\ turn \notin cancelled
    /\ cancelled' = cancelled \cup {turn}
    /\ open' = {}
    /\ UNCHANGED <<mode, child, history, turn, cached, calls>>

Requests == Tools \ (LocalTools \cup NativeTools)

Next ==
    \/ \E tool \in calls.tools : \E call \in NewCalls(tool), outside \in BOOLEAN, overrides \in {"none", "disabled"} :
            RefuseCall(call, outside, overrides)
    \/ \E tool \in calls.tools \cap Requests : \E call \in NewCalls(tool), plan \in (IF tool = "CreatePlan" THEN Lists ELSE {<<>>}) :
            SendCall(call, FALSE, "none", plan)
    \/ \E tool \in calls.tools \cap LocalTools : \E call \in NewCalls(tool), merge \in {"", "yes", "no"}, items \in Lists : WriteTodos(call, merge, items)
    \/ \E call \in open : \E a \in AnswersTo(call.tool) : HandleExecResult(call, a)
    \/ \E call \in open : HandleExecThrow(call)
    \/ \E call \in open : \E a \in AnswersTo(call.tool), target \in (IF call.tool = "SwitchMode" THEN {"agent", "ask", "plan"} ELSE {mode}) :
            HandleInteractionResult(call, a, target)
    \/ \E call \in UNION {NewCalls(tool) : tool \in calls.tools \cap NativeTools},
            references \in {"none", "kept", "dropped", "missing"}, ofModel \in BOOLEAN, ofImages \in BOOLEAN :
            GenerateImage(call, references, ofModel, ofImages)
    \/ \E call \in open, case \in ImageAnswers : HandleImageResult(call, case)
    \/ NextTurn
    \/ CancelTurn

Spec == Init /\ [][Next]_vars

-----------------------------------------------------------------------------
(* Properties *)

Message(i) ==
    projectToolResult([tool |-> history[i].tool, text |-> history[i].text, stored |-> history[i].stored,
                       started |-> history[i].started, reasoning |-> history[i].reasoning,
                       historical |-> history[i].turn < turn])

KeptResults == {i \in DOMAIN history : history[i].turn \notin cancelled}

\* The results that no prompt shows: of images, of a refused Write, and of a
\* call without an entry and a structured result that came without reasoning.
LeftOut(i) ==
    \/ history[i].tool = "GenerateImage"
    \/ /\ history[i].stored = NoCall
       /\ history[i].tool = "Write" \/ (~history[i].started /\ ~history[i].reasoning)

\* Every finished call of a turn that counts is in every later prompt, and one
\* that failed never reads as one that succeeded, found nothing or printed
\* something: projector.go:137, with what both bridges store.
AnswersAreTold ==
    \A i \in KeptResults : ~LeftOut(i) =>
        /\ Message(i) # NotTold
        /\ history[i].heard.case \notin {"success", "background"} =>
               Message(i).says \notin {"success", "output", "no_matches"}

\* A tool message is never longer than its tool allows, whatever was stored
\* and whichever of the two forms is replayed.
ReplayFits ==
    \A i \in KeptResults : Message(i) # NotTold /\ history[i].tool \in DOMAIN Replays =>
        Message(i).len <= Replays[history[i].tool]

\* However large an answer was, something of it reaches the model, at once and
\* in every later turn.  Not so for Grep and CallMcpTool: their text does not
\* repeat the content, so a result over the limit leaves a line without it.
ContentSurvives ==
    \A i \in KeptResults :
        history[i].heard.case = "success" /\ history[i].heard.len > 0
            /\ history[i].tool \notin {"Grep", "CallMcpTool"} =>
        Message(i) # NotTold /\ Message(i).own > 0

\* A replayed result is within its limit and still worth reading.
ReplayFitsAndTells == ReplayFits /\ ContentSurvives

\* A thing to do that is not done leaves the list only with a new plan or with
\* the turn that wrote it, whatever lists the provider writes: mergeTodoItems,
\* missingActiveTodoReplacementIDs and the projection of the stored results.
ActiveTodosKept ==
    [][ActiveIds(todos) \subseteq IdsOf(todos') \/ cancelled' # cancelled
       \/ (Len(history') > Len(history) /\ history'[Len(history')].tool = "CreatePlan")]_vars
=============================================================================
