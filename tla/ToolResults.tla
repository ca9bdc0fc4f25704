----------------------------- MODULE ToolResults -----------------------------
(***************************************************************************)
(* What becomes of one tool call between the provider and the client: what *)
(* the request needs to be sent at all, and how the client's answer is     *)
(* turned into two things that are stored in the history, a text and a     *)
(* structured result.  These are the two bridges, exec and interaction.    *)
(*                                                                         *)
(* A text is what it says (an outcome), how much of the answer's own       *)
(* content is left in it and how long it is.  Lengths count in units of    *)
(* which a limit is a few; a line that only names an outcome is one unit.  *)
(***************************************************************************)
EXTENDS Integers, Sequences, FiniteSets

CONSTANTS
    Keeps,      \* Keeps[what]: the limit the bridges truncate to
    MaxFiles,   \* the files of a Glob that are kept
    Provider,   \* the search provider of the configuration
    HasKey      \* whether it has the key of an account

ASSUME KeepsAssumption ==
    Keeps \in [{"read", "stream", "grep", "mcp", "search", "fetch"} -> Nat \ {0, 1}]
ASSUME MaxFilesAssumption == MaxFiles \in Nat \ {0}
ASSUME ProviderAssumption ==
    Provider \in {"duckduckgo", "bing", "baidu", "serper", "tavily"} /\ HasKey \in BOOLEAN

-----------------------------------------------------------------------------
(* Texts *)

Line(says) == [says |-> says, own |-> 0, len |-> 1]
Body(n)    == [says |-> "success", own |-> n, len |-> n]

\* The notice that tells of the truncation takes part of the limit.
truncateReplayText(text, limit) ==
    IF text.len <= limit THEN text
    ELSE [text EXCEPT !.own = IF @ < limit THEN @ ELSE limit - 1, !.len = limit]

\* The structured result of a call: none, one the client left out, or a text.
Absent(what) == [says |-> what, own |-> 0, len |-> 0]

NoCall   == Absent("no_call")
NoResult == Absent("no_result")
NoText   == Absent("")

-----------------------------------------------------------------------------
(* Requests *)

\* How the provider's arguments decode: all there, without one that the tool
\* requires, or not at all.
Args == {"complete", "incomplete", "undecodable"}

openFileRequest(call) ==
    IF call.tool \in {"Read", "Glob"} THEN call.args = "complete"
    ELSE call.args # "undecodable"                       \* Write, Delete

openShell(call) == call.args = "complete"

openShellInput(call) == call.args = "complete"   \* WriteShellStdin, ForceBackgroundShell

\* A subagent type is required, and one the user disabled is no type to run.
openTask(call, overrides) == call.args = "complete" /\ overrides # "disabled"

openLookup(call) ==
    IF call.tool = "Grep" THEN call.args = "complete"
    ELSE call.args # "undecodable"                       \* ReadLints, Ls

openMcpRequest(call) == call.args # "undecodable" \* CallMcpTool, FetchMcpResource

ExecTools == {"Read", "Delete", "Glob", "Grep", "ReadLints", "Ls", "Shell", "WriteShellStdin",
              "ForceBackgroundShell", "Task", "CallMcpTool", "FetchMcpResource"}

OpenExec(call, overrides) ==
    CASE call.tool \in {"Read", "Delete", "Glob"}                   -> openFileRequest(call)
      [] call.tool \in {"Grep", "ReadLints", "Ls"}                  -> openLookup(call)
      [] call.tool = "Shell"                                        -> openShell(call)
      [] call.tool \in {"WriteShellStdin", "ForceBackgroundShell"}  -> openShellInput(call)
      [] call.tool = "Task"                                         -> openTask(call, overrides)
      [] OTHER                                                      -> openMcpRequest(call)

InteractionTools == {"AskQuestion", "CreatePlan", "WebSearch", "WebFetch", "SwitchMode"}

\* A mode the user can be asked to switch to is one of agent, ask and plan.
OpenQuery(call) ==
    /\ call.args # "undecodable"
    /\ call.tool = "SwitchMode" => call.args = "complete"

-----------------------------------------------------------------------------
(* Answers of the client.  An answer names its case and the length of its  *)
(* content; "nil" is a message without the result, "unset" a result        *)
(* without a case.                                                         *)

\* The user approves and the server's own fetch fails.
FetchFailures  == {"invalid_url", "blocked_host", "unreachable", "bad_status",
                   "empty_body", "unsupported_type", "empty_text"}

CasesOf(tool) == {"nil", "unset", "success", "error"} \cup
    CASE tool = "Read"             -> {"rejected", "file_not_found", "permission_denied", "invalid_file"}
      [] tool = "Delete"           -> {"file_not_found", "not_file", "permission_denied", "file_busy", "rejected"}
      [] tool = "ReadLints"        -> {"rejected", "file_not_found", "permission_denied"}
      [] tool = "Ls"               -> {"rejected", "timeout"}
      [] tool = "CallMcpTool"      -> {"rejected", "permission_denied", "tool_not_found"}
      [] tool = "FetchMcpResource" -> {"rejected", "not_found"}
      [] tool = "AskQuestion"      -> {"rejected", "async"}
      [] tool = "SwitchMode"       -> {"rejected"}
      [] tool = "WebSearch"        -> {"rejected"}
      [] tool = "WebFetch"         -> {"rejected"} \cup FetchFailures
      [] tool = "Shell"            -> {"failure", "rejected", "permission_denied", "backgrounded"}
      [] tool = "Task"             -> {"background"}
      [] tool = "Glob"             -> {"no_list"}
      [] OTHER                     -> {}

\* A text that names the case of the answer.
Named(a) == Line(CASE a.case = "nil" -> "missing" [] a.case = "unset" -> "unknown" [] OTHER -> a.case)

HasContent(a) == a.case = "success" /\ a.len > 0

\* Slip: a file that was read is told by its path.
readByPath(tool, a) == Named(a)

summarizeWorkspaceResult(tool, a) ==
    CASE tool = "Read" /\ HasContent(a) -> truncateReplayText(Body(a.len), Keeps["read"])
      [] tool = "Task" /\ a.case \in {"success", "background"} /\ a.len > 0 -> Body(a.len)
      [] tool = "Task" /\ a.case = "success" /\ a.len = 0 -> Line("empty")
      [] OTHER -> Named(a)               \* ReadLints, Delete, Grep

\* A failed Glob and one that found nothing read the same here.
summarizeGlobContinuationPayload(a) == IF HasContent(a) THEN Body(a.len) ELSE Line("no_matches")

summarizeRemoteResult(a) == Named(a)     \* Ls, CallMcpTool

summarizeResourceResult(a) ==
    IF HasContent(a) THEN truncateReplayText(Body(a.len), Keeps["mcp"]) ELSE Named(a)

\* Output stands for itself: the exit code is told only when there is none.
summarizeShellTerminalPayload(a) ==
    IF a.len > 0 THEN [Body(a.len) EXCEPT !.says = "output"] ELSE Named(a)

\* A result without a case, or with another status than success, is told as
\* a call that completed.
summarizeShellInput(a) == IF a.case = "unset" THEN Line("completed") ELSE Named(a)

-----------------------------------------------------------------------------
(* Structured results *)

convertReadResultToReadToolResult(a) ==
    IF HasContent(a) THEN truncateReplayText(Body(a.len), Keeps["read"]) ELSE Named(a)

\* The files a client lists, of which the bridge keeps some.
truncateGlobResultForReplay(a) ==
    IF a.case = "success" /\ a.len > MaxFiles THEN [a EXCEPT !.len = MaxFiles] ELSE a

\* A success without a list of files is an error of its own, no_list.
convertGrepResultToGlobToolResult(a) == IF a.case = "success" THEN Body(a.len) ELSE Named(a)

\* Matches are kept up to the limit, and a notice is one match more.
truncateGrepResultForReplay(a) ==
    IF HasContent(a) /\ a.len > Keeps["grep"]
    THEN [Body(Keeps["grep"]) EXCEPT !.len = @ + 1]
    ELSE IF a.case = "success" THEN Body(a.len) ELSE Named(a)

\* A file the client did not find or may not read is an unknown result.
convertDiagnosticsResultToReadLintsToolResult(a) ==
    CASE HasContent(a) -> Body(a.len)
      [] a.case \in {"file_not_found", "permission_denied"} -> Line("unknown")
      [] OTHER -> Named(a)

\* A message written before going to the background reads as a finished run.
convertSubagentResultToTaskResult(a) ==
    CASE a.case \in {"success", "background"} /\ a.len > 0 -> Body(a.len)
      [] a.case = "success" /\ a.len = 0 -> Line("empty")
      [] OTHER -> Named(a)

convertMcpResult(a) == IF HasContent(a) THEN Body(a.len) ELSE Named(a)

truncateMcpToolResultForReplay(text) ==
    IF text.len > Keeps["mcp"] THEN [Body(Keeps["mcp"]) EXCEPT !.len = @ + 1] ELSE text

truncateMcpResourceForReplay(a) ==
    IF HasContent(a) THEN truncateReplayText(Body(a.len), Keeps["mcp"]) ELSE Named(a)

\* An exit with a code other than zero is a failure that carries the output.
buildShellCompletedToolCall(a) ==
    [says |-> a.case, own |-> truncateReplayText(Body(a.len), Keeps["stream"]).own,
     len |-> truncateReplayText(Body(a.len), Keeps["stream"]).len + 1]

buildShellEndedToolCall(a) == Named(a)   \* rejected, permission denied, backgrounded

\* The result the client sent, stored as it is: without one the call has no
\* result, and one without a case is an empty object.
AsSent(a) ==
    CASE a.case = "nil"   -> NoResult
      [] a.case = "unset" -> Line("blank")
      [] HasContent(a)    -> Body(a.len)
      [] OTHER            -> Line(a.case)

\* The call as stored, with the keys of its JSON.
Encoded(stored) == IF stored = NoResult THEN stored ELSE [stored EXCEPT !.len = @ + 1]

buildReadCompletedToolCall(a)    == Encoded(convertReadResultToReadToolResult(a))
buildGlobCompletedToolCall(a)    == Encoded(convertGrepResultToGlobToolResult(a))
buildTaskCompletedToolCall(a)    == Encoded(convertSubagentResultToTaskResult(a))
buildLintsCompletedToolCall(a)   == Encoded(convertDiagnosticsResultToReadLintsToolResult(a))
buildMcpCompletedToolCall(a)     == Encoded(truncateMcpToolResultForReplay(convertMcpResult(a)))

buildResourceCompletedToolCall(a) ==
    IF a.case \in {"nil", "unset"} THEN Encoded(AsSent(a)) ELSE Encoded(truncateMcpResourceForReplay(a))

buildGrepCompletedToolCall(a) ==
    IF a.case \in {"nil", "unset"} THEN Encoded(AsSent(a)) ELSE Encoded(truncateGrepResultForReplay(a))

-----------------------------------------------------------------------------
(* The exec bridge *)

\* Without a result the three shell requests are a handler error: the call
\* stays pending.
Refuses(tool, a) ==
    tool \in {"Shell", "WriteShellStdin", "ForceBackgroundShell"} /\ a.case = "nil"

IsShellEnd(a) == a.case \in {"success", "failure", "rejected", "permission_denied", "backgrounded"}

ApplyExecClientMessage(tool, a) ==
    CASE tool = "Read" ->
            [text |-> summarizeWorkspaceResult(tool, a), stored |-> buildReadCompletedToolCall(a)]
      [] tool = "Glob" ->
            [text   |-> summarizeGlobContinuationPayload(truncateGlobResultForReplay(a)),
             stored |-> buildGlobCompletedToolCall(truncateGlobResultForReplay(a))]
      [] tool = "Grep" ->
            [text |-> summarizeWorkspaceResult(tool, a), stored |-> buildGrepCompletedToolCall(a)]
      [] tool = "ReadLints" ->
            [text |-> summarizeWorkspaceResult(tool, a), stored |-> buildLintsCompletedToolCall(a)]
      [] tool = "Delete" ->
            [text |-> summarizeWorkspaceResult(tool, a), stored |-> Encoded(AsSent(a))]
      [] tool = "Ls" ->
            [text |-> summarizeRemoteResult(a), stored |-> Encoded(AsSent(a))]
      [] tool = "CallMcpTool" ->
            [text |-> summarizeRemoteResult(a), stored |-> buildMcpCompletedToolCall(a)]
      [] tool = "FetchMcpResource" ->
            [text |-> summarizeResourceResult(a), stored |-> buildResourceCompletedToolCall(a)]
      [] tool = "Task" ->
            [text |-> summarizeWorkspaceResult(tool, a), stored |-> buildTaskCompletedToolCall(a)]
      [] tool = "WriteShellStdin" ->
            [text |-> summarizeShellInput(a), stored |-> Encoded(AsSent(a))]
      [] tool = "ForceBackgroundShell" ->
            [text |-> summarizeShellInput(a), stored |-> NoCall]
      [] tool = "Shell" /\ a.case \in {"success", "failure"} ->
            [text |-> summarizeShellTerminalPayload(a), stored |-> buildShellCompletedToolCall(a)]
      [] OTHER ->
            [text |-> Named(a), stored |-> Encoded(buildShellEndedToolCall(a))]

\* A throw of the client ends the call with a text and no structured result.
ApplyExecClientControl == [text |-> Line("thrown"), stored |-> NoCall]

-----------------------------------------------------------------------------
(* The interaction bridge.  An approved search or fetch is done by the     *)
(* server itself, while it handles the answer.                             *)

summarizeAskQuestionResponse(a) == Named(a)

\* Slip: the success of a plan without an address is taken as it is.
planAsSent(a) == a

\* A plan is a success only with the address the client gave it.
normalizeCreatePlanResult(a) == IF a.case = "success" /\ a.len = 0 THEN [a EXCEPT !.case = "no_uri"] ELSE a

summarizeCreatePlanResult(a) == Named(a)

\* The engine of the configuration comes before the others.
freeWebSearchChain(head) ==
    CASE head = "bing"  -> <<"bing", "duckduckgo", "baidu">>
      [] head = "baidu" -> <<"baidu", "duckduckgo", "bing">>
      [] OTHER          -> <<"duckduckgo", "bing", "baidu">>

\* The first engine that finds something; "" when none does.
executeFreeSearchChain(head, finds) ==
    LET chain == freeWebSearchChain(head)
        hits  == {i \in 1..Len(chain) : chain[i] \in finds}
    IN IF hits = {} THEN "" ELSE chain[CHOOSE i \in hits : \A j \in hits : i <= j]

\* A provider with a key is asked alone; the free engines stand in for each other.
Keyed == Provider \in {"serper", "tavily"} \/ (Provider = "bing" /\ HasKey)

KeyMissing == Provider \in {"serper", "tavily"} /\ ~HasKey

dispatchWebSearch(a) ==
    CASE KeyMissing -> Line("key_missing")
      [] ~KeyMissing /\ Keyed -> IF a.finds # {} THEN Body(a.len) ELSE Line("no_engine")
      [] OTHER -> IF executeFreeSearchChain(Provider, a.finds) # "" THEN Body(a.len) ELSE Line("no_engine")

truncateWebSearchReplay(text) == truncateReplayText(text, Keeps["search"])

applyWebSearchResponse(a) ==
    IF a.case = "success" THEN truncateWebSearchReplay(dispatchWebSearch(a)) ELSE Named(a)

\* An address is checked before it is fetched, and a redirect as it was.
validateWebFetchURL(a) == a.case \notin {"invalid_url", "blocked_host"}

renderWebFetchMarkdown(a) == IF a.case = "success" THEN Body(a.len) ELSE Named(a)

truncateWebFetchMarkdown(text) == truncateReplayText(text, Keeps["fetch"])

\* A page fetched before is not fetched, nor its address checked, again.
executeWebFetch(a, cached) ==
    CASE cached # NoText                               -> cached
      [] cached = NoText /\ ~validateWebFetchURL(a)  -> Named(a)
      [] OTHER                                         -> truncateWebFetchMarkdown(renderWebFetchMarkdown(a))

applyWebFetchResponse(a, cached) ==
    IF a.case \in {"success"} \cup FetchFailures THEN executeWebFetch(a, cached) ELSE Named(a)

\* Failures are not cached: every call tries again.
cachePut(cached, text) == IF text.says = "success" THEN text ELSE cached

buildSwitchModeResult(a) == Named(a)

ApplyInteractionResponse(tool, a, cached) ==
    CASE tool = "AskQuestion" ->
            [text |-> summarizeAskQuestionResponse(a), stored |-> Encoded(AsSent(a))]
      [] tool = "CreatePlan" ->
            [text   |-> summarizeCreatePlanResult(normalizeCreatePlanResult(a)),
             stored |-> Encoded(AsSent(normalizeCreatePlanResult(a)))]
      [] tool = "WebSearch" ->
            [text |-> applyWebSearchResponse(a), stored |-> Encoded(applyWebSearchResponse(a))]
      [] tool = "WebFetch" ->
            [text   |-> applyWebFetchResponse(a, cached),
             stored |-> Encoded(applyWebFetchResponse(a, cached))]
      [] OTHER ->
            [text |-> buildSwitchModeResult(a), stored |-> Encoded(buildSwitchModeResult(a))]

-----------------------------------------------------------------------------
(* Images.  The server asks a provider for one while the turn waits.       *)

\* Reference images: one that is not in the workspace is an error, others are
\* dropped where they are too large, and it is one too if none is left.
loadReferenceImages(references) == references \notin {"missing", "dropped"}

\* The channel of the chat's own model, or any other that can do images.
resolveImageChannel(ofModel, ofImages) == ofModel \/ ofImages

ImageReady(call, references, ofModel, ofImages) ==
    /\ call.args = "complete"
    /\ resolveImageChannel(ofModel, ofImages)
    /\ loadReferenceImages(references)

\* What the provider's interface returns: an image, or one of its errors.
ImageAnswers == {"success", "unreachable", "bad_status", "undecodable", "no_data"}

buildGenerateImageResult(case) == [text |-> Line(case), stored |-> Encoded(Line(case))]
=============================================================================
