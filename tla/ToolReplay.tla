----------------------------- MODULE ToolReplay -----------------------------
(***************************************************************************)
(* What the model is told of a finished call: the projection of one stored *)
(* result to the tool message of the next prompt.  A stored result has the *)
(* text and the structured result of ToolResults; whether the call has an  *)
(* entry of its own decides, with the provider's reasoning, if there is a  *)
(* call message the result can follow.                                     *)
(***************************************************************************)
EXTENDS ToolResults

CONSTANT Replays    \* Replays[tool]: the longest tool message, for the tools that have one

EditTools == {"PatchEdit", "Write"}

LimitedTools == EditTools \cup {"Read", "Shell", "Grep", "WebFetch", "WebSearch", "CallMcpTool", "FetchMcpResource"}

\* Output of a shell that was kept once fits into a message.
ASSUME ReplaysAssumption ==
    /\ Replays \in [LimitedTools -> Nat \ {0, 1}]
    /\ Replays["Shell"] > Keeps["stream"]

NotTold == Absent("not_told")

-----------------------------------------------------------------------------
(* The stored call as a message *)

\* A call without a case has no name to be replayed under.
BuildToolResultReplayMessage(stored) == stored \notin {NoCall, NoResult}

\* Without an entry of the call, the result brings the call along.
BuildToolCallReplayMessages(stored) == BuildToolResultReplayMessage(stored)

isLegacyPlainWriteReplay(result) == result.stored = NoCall /\ result.tool = "Write"

-----------------------------------------------------------------------------
(* Limits *)

projectedToolReplayLimit(tool) == IF tool \in DOMAIN Replays THEN Replays[tool] ELSE 0

truncateProjectedReplayText(text, limit) ==
    IF limit = 0 THEN text ELSE truncateReplayText(text, limit)

\* Of a successful edit only the diff, or the file written, is replayed.
compactProjectedEditToolResultReplay(tool, text) ==
    [truncateReplayText(Body(text.own), Replays[tool]) EXCEPT !.len = @ + 1]

\* Of an edit that failed in an earlier turn only that it did.
compactHistoricalEditErrorReplay == Line("error")

\* The streams are truncated once more, each to its own limit.
compactProjectedShellToolResultReplay(text) ==
    [truncateReplayText(Body(text.own), Keeps["stream"]) EXCEPT !.says = text.says, !.len = @ + 1]

limitProjectedToolResultReplay(tool, text, fallback, fromStored, historical) ==
    LET dropsError == historical /\ tool \in EditTools /\ fromStored /\ text.says = "error"
        dropsFile  == tool \in EditTools /\ fromStored /\ text.says = "success"
        dropsLines == tool = "Shell" /\ fromStored /\ text.own > Keeps["stream"]
        compact    == CASE dropsError -> compactHistoricalEditErrorReplay
                        [] dropsFile  -> compactProjectedEditToolResultReplay(tool, text)
                        [] dropsLines -> compactProjectedShellToolResultReplay(text)
                        [] OTHER      -> text
        limit      == projectedToolReplayLimit(tool)
    IN IF limit = 0 \/ compact.len <= limit THEN compact
       ELSE IF fromStored /\ ~dropsError /\ ~dropsFile /\ ~dropsLines
            THEN truncateProjectedReplayText([fallback EXCEPT !.len = @ + 1], limit)
            ELSE truncateProjectedReplayText(compact, limit)

-----------------------------------------------------------------------------
(* The message of one result *)

AsText(result) ==
    limitProjectedToolResultReplay(result.tool, result.text, NoText, FALSE, result.historical)

AsResult(result) ==
    limitProjectedToolResultReplay(result.tool, result.stored, result.text, TRUE, result.historical)

\* No prompt has a call for an image in it, nor what became of it.
isProviderPromptReplaySuppressedToolName(tool) == tool = "GenerateImage"

projectToolResult(result) ==
    IF isProviderPromptReplaySuppressedToolName(result.tool)
            \/ (result.started /\ isLegacyPlainWriteReplay(result))
    THEN NotTold
    ELSE IF result.started
    THEN IF BuildToolResultReplayMessage(result.stored) THEN AsResult(result) ELSE AsText(result)
    ELSE IF BuildToolCallReplayMessages(result.stored) THEN AsResult(result)
    ELSE IF result.stored = NoCall /\ result.reasoning /\ ~isLegacyPlainWriteReplay(result)
    THEN AsText(result)
    ELSE NotTold
=============================================================================
