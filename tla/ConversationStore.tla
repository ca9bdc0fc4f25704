-------------------------- MODULE ConversationStore --------------------------
(***************************************************************************)
(* One conversation on disk and the turns that write it.  The history is   *)
(* kept in two files written one after the other, context.json with the    *)
(* entries and state.json with the sequence numbers, the version of the    *)
(* context it was derived from and the status of the last request; a crash *)
(* may fall between the two writes.                                        *)
(*                                                                         *)
(* One turn at a time writes (a new run first cancels the turn before it). *)
(* A turn appends its inputs, the texts, calls and results of its provider *)
(* passes and its end; before a pass it may compact the history, and a run *)
(* that repeats an earlier message rewinds it.  Token counts are left out: *)
(* whether a prompt exceeds its budget is a free choice.                   *)
(***************************************************************************)
EXTENDS ConversationHistory

CONSTANTS
    MaxTurn,         \* highest turn number
    MaxPasses,       \* provider passes over the whole run
    MaxCalls,        \* tool calls over the whole run
    MaxUpsets,       \* edits, cancellations, compactions and crashes together
    ImageCalls,      \* the calls that are calls of the image tool
    Quirks           \* inputs under which a documented promise fails

ASSUME ConversationStoreAssumption ==
    /\ {MaxTurn, MaxPasses, MaxCalls, MaxUpsets} \cup ImageCalls \subseteq Nat
    /\ Quirks \subseteq {"text_after_call", "abandon_compacted_turn"}

VARIABLES
    context,    \* the entries in context.json
    paired,     \* ghost: state.json was written with this context.json
    state,      \* state.json, NoState before the first write
    saving,     \* the state.json still to be written, or NoState
    actor,      \* the turn that writes
    accepted,   \* ghost: turns whose run was stored and that still count
    answered,   \* ghost: calls of accepted turns that got their result
    outcome,    \* ghost: how the last accepted turn ended, or "open"
    used        \* how much of each bound is used

vars == <<context, paired, state, saving, actor, accepted, answered, outcome, used>>

NoState == [version |-> 0, nextSeq |-> 0, nextTurn |-> 0, turn |-> 0,
            request |-> 0, status |-> "none"]
Fresh == [NoState EXCEPT !.nextSeq = 1, !.nextTurn = 1, !.status = "idle"]
NoActor == [pc |-> "none", turn |-> 0, request |-> 0, manual |-> FALSE, pass |-> 0,
            text |-> FALSE, called |-> FALSE,
            plan |-> [turn |-> 0, manual |-> FALSE, covers |-> Nothing]]
Bounds == [pass |-> MaxPasses, call |-> MaxCalls, upset |-> MaxUpsets]

Init ==
    /\ context = <<>>
    /\ paired = TRUE
    /\ state = NoState
    /\ saving = NoState
    /\ actor = NoActor
    /\ accepted = {}
    /\ answered = {}
    /\ outcome = "none"
    /\ used = [b \in DOMAIN Bounds |-> 0]

Use(bound) ==
    /\ used[bound] < Bounds[bound]
    /\ used' = [used EXCEPT ![bound] = @ + 1]

-----------------------------------------------------------------------------
(* Reading the two files *)

\* Fault: only a state file that is ahead of the context is distrusted.
contextVersionBehind == state.version > contextVersionForEntries(context)

contextVersionMismatch == state.version # contextVersionForEntries(context)

\* A state file older than the context keeps its sequence numbers only.
invalidateStaleRuntimeState(s) == [s EXCEPT !.turn = 0, !.request = 0, !.status = "idle"]

deriveConversationLoopState(s, entries) ==
    LET known == HasRequestEntry(entries, s.turn, s.request)
        last == IF entries = <<>> THEN NoState ELSE Last(entries)
        turn == IF s.turn # 0 /\ known THEN s.turn ELSE last.turn
        fallback == IF s.turn = 0 \/ known THEN s.status ELSE "idle"
    IN  [s EXCEPT !.version = contextVersionForEntries(entries),
                  !.turn = turn,
                  !.request = IF s.turn # 0 /\ known THEN @ ELSE last.request,
                  !.status = IF turn = 0 THEN fallback
                             ELSE deriveRequestLoopStatus(entries, turn, fallback)]

normalizeLoadedConversation(s, entries) ==
    deriveConversationLoopState(
        [s EXCEPT !.nextSeq = Highest({@, contextVersionForEntries(entries) + 1}),
                  !.nextTurn = Highest({@, maxHistoryTurnSeq(entries) + 1})],
        entries)

\* Without a state file there is no conversation, whatever context.json holds.
StoredEntries == IF state = NoState THEN <<>> ELSE context
LoadConversation ==
    IF state = NoState THEN Fresh
    ELSE normalizeLoadedConversation(
            IF contextVersionMismatch THEN invalidateStaleRuntimeState(state) ELSE state,
            context)

-----------------------------------------------------------------------------
(* Writing: context.json now, state.json in WriteState *)

WriteConversation(entries, s) ==
    /\ saving = NoState
    /\ context' = entries
    /\ paired' = FALSE
    /\ saving' = normalizeLoadedConversation(s, entries)
    /\ UNCHANGED state

AppendEntries(entries) ==
    LET s == LoadConversation
    IN  WriteConversation(StoredEntries \o numbered(By(actor.request, entries), s.nextSeq),
                          [s EXCEPT !.nextSeq = @ + Len(entries)])

\* A run names itself the current request.
SaveConversationWithEntries(entries, turn, request) ==
    LET s == LoadConversation
    IN  WriteConversation(StoredEntries \o numbered(By(request, entries), s.nextSeq),
                          [s EXCEPT !.nextSeq = @ + Len(entries), !.turn = turn,
                                    !.request = request, !.status = "running"])

\* The replacement starts numbering again; the counters start at one too.
ReplaceEntries(entries, s) ==
    WriteConversation(numbered(entries, 1),
                      [s EXCEPT !.nextSeq = Len(entries) + 1,
                                !.nextTurn = maxHistoryTurnSeq(entries) + 1])

WriteState ==
    /\ saving # NoState
    /\ state' = saving
    /\ saving' = NoState
    /\ paired' = TRUE
    /\ actor' = IF actor.pc = "ending" THEN NoActor ELSE actor
    /\ UNCHANGED <<context, accepted, answered, outcome, used>>

-----------------------------------------------------------------------------
(* Runs *)

Start(turn, request, manual) ==
    [NoActor EXCEPT !.pc = "ready", !.turn = turn, !.request = request, !.manual = manual]

\* A turn number comes again only after an upset, so the upsets tell its
\* requests apart.
RequestNow == used.upset

\* A manual compaction is a run whose message is the directive to compact.
Run(manual) ==
    LET turn == LoadConversation.nextTurn
    IN  /\ actor.pc \in {"none", "starting"}
        /\ turn <= MaxTurn
        /\ SaveConversationWithEntries(buildRunEntries(turn), turn, RequestNow)
        /\ actor' = Start(turn, RequestNow, manual)
        /\ accepted' = IF manual THEN accepted ELSE accepted \cup {turn}
        /\ outcome' = "open"
        /\ UNCHANGED <<answered, used>>

\* The message of turn is sent again: it and everything after it is replaced.
\* A message that a compaction has removed is a new turn like any other.
EditMessage(turn) ==
    LET found == HasUserEntry(StoredEntries, turn)
        target == IF found THEN turn ELSE LoadConversation.nextTurn
        dropped == {e \in ToSet(context) : e.kind = "summary" /\ e.turn >= turn}
    IN  /\ actor.pc \in {"none", "starting"}
        /\ turn \in accepted
        /\ target <= MaxTurn
        /\ "abandon_compacted_turn" \in Quirks \/ ~found \/ dropped = {}
        /\ Use("upset")
        /\ IF found
           THEN /\ ReplaceEntries(prefixEntriesBeforeTurn(context, turn)
                                      \o By(RequestNow', buildRunEntries(turn)),
                                  [LoadConversation EXCEPT !.turn = turn, !.request = RequestNow',
                                                           !.status = "running"])
                /\ accepted' = {t \in accepted : t <= turn}
                /\ answered' = {c \in answered : c.turn < turn}
           ELSE /\ SaveConversationWithEntries(buildRunEntries(target), target, RequestNow')
                /\ accepted' = accepted \cup {target}
                /\ UNCHANGED answered
        /\ actor' = Start(target, RequestNow', FALSE)
        /\ outcome' = "open"

\* A newer run cancels the turn that runs before it stores its own entries.
Cancel(policy, pc) ==
    LET started == KindsOf(context, actor.turn) \cap ActivityKinds # {}
        compacted == \E e \in ToSet(context) : e.kind = "summary" /\ e.turn = actor.turn
    IN  /\ actor.pc \notin {"none", "starting", "ending"}
        /\ "abandon_compacted_turn" \in Quirks \/ ~compacted
        /\ Use("upset")
        /\ AppendEntries(<<ControlEntry(actor.turn, policy)>>)
        /\ actor' = [NoActor EXCEPT !.pc = pc]
        /\ accepted' = IF policy = "drop_unstarted_turn" /\ ~started
                       THEN accepted \ {actor.turn} ELSE accepted
        /\ answered' = {c \in answered : c.turn # actor.turn}
        /\ outcome' = "canceled"

Stop == Cancel("keep_stable_input", "ending")
Supersede == Cancel("drop_unstarted_turn", "starting")

-----------------------------------------------------------------------------
(* Provider passes *)

Streaming(pass) == [actor EXCEPT !.pc = "streaming", !.pass = pass,
                                 !.text = FALSE, !.called = FALSE]

StartPass ==
    /\ actor.pc = "ready"
    /\ saving = NoState
    /\ ~actor.manual
    /\ Use("pass")
    /\ actor' = Streaming(used.pass + 1)
    /\ UNCHANGED <<context, paired, state, saving, accepted, answered, outcome>>

\* Over budget, or asked to: a hook is sent to the client before compacting.
BeginCompaction ==
    /\ actor.pc = "ready"
    /\ saving = NoState
    /\ HasPlan(context, actor.turn, actor.manual)
    /\ Use("upset")
    /\ actor' = [actor EXCEPT !.pc = "hook",
                              !.plan = buildCompactionPlan(context, actor.turn, actor.manual)]
    /\ UNCHANGED <<context, paired, state, saving, accepted, answered, outcome>>

\* Nothing to compact: a directive is answered, a prompt that exceeds the
\* budget fails its turn.
NothingToCompact ==
    /\ actor.pc = "ready"
    /\ ~HasPlan(context, actor.turn, actor.manual)
    /\ AppendEntries(<<Entry("note", actor.turn)>>)
    /\ actor' = [actor EXCEPT !.pc = IF actor.manual THEN "closing" ELSE "failing"]
    /\ UNCHANGED <<accepted, answered, outcome, used>>

\* The text streamed since the last call is stored when the next call
\* completes or the pass ends, before either.
flushAssistantText ==
    /\ actor.pc = "streaming"
    /\ ~actor.text
    /\ "text_after_call" \in Quirks \/ ~actor.called
    /\ AppendEntries(<<Entry("text", actor.turn)>>)
    /\ actor' = [actor EXCEPT !.text = TRUE]
    /\ UNCHANGED <<accepted, answered, outcome, used>>

ToolCompleted ==
    LET call == [turn |-> actor.turn, pass |-> actor.pass, n |-> used.call + 1,
                 image |-> used.call + 1 \in ImageCalls]
    IN  /\ actor.pc = "streaming"
        /\ Use("call")
        /\ AppendEntries(<<CallEntry("call", call)>>)
        /\ actor' = [actor EXCEPT !.called = TRUE, !.text = FALSE]
        /\ UNCHANGED <<accepted, answered, outcome>>

\* The result of a call may arrive while its pass still streams; the last one
\* a finished pass waits for starts the next.
ToolResult(call) ==
    /\ actor.pc \in {"streaming", "waiting"}
    /\ call \in openCalls(context, actor.turn)
    /\ AppendEntries(<<CallEntry("result", call)>>)
    /\ actor' = IF actor.pc = "waiting" /\ openCalls(context, actor.turn) = {call}
                THEN [actor EXCEPT !.pc = "ready"] ELSE actor
    /\ answered' = answered \cup {call}
    /\ UNCHANGED <<accepted, outcome, used>>

PassDone ==
    /\ actor.pc = "streaming"
    /\ actor.called
    /\ saving = NoState
    /\ actor' = [actor EXCEPT !.pc = IF openCalls(context, actor.turn) = {}
                                     THEN "ready" ELSE "waiting"]
    /\ UNCHANGED <<context, paired, state, saving, accepted, answered, outcome, used>>

End(kind) ==
    /\ AppendEntries(<<Entry(kind, actor.turn)>>)
    /\ actor' = [NoActor EXCEPT !.pc = "ending"]
    /\ outcome' = kind

Complete ==
    /\ \/ actor.pc = "streaming" /\ ~actor.called
       \/ actor.pc = "closing"
    /\ End("done")
    /\ UNCHANGED <<accepted, answered, used>>

\* An error of the provider or of the compaction.
Fail ==
    /\ \/ actor.pc = "streaming"
       \/ actor.pc = "failing"
    /\ End("failed")
    /\ UNCHANGED <<accepted, answered, used>>

-----------------------------------------------------------------------------
(* Compaction *)

HookDone ==
    /\ actor.pc = "hook"
    /\ AppendEntries(<<Entry("note", actor.turn)>>)
    /\ actor' = [actor EXCEPT !.pc = "summarizing"]
    /\ UNCHANGED <<accepted, answered, outcome, used>>

\* The history is rebuilt from what it is when the summary arrives.
applyCompactionPlan ==
    /\ actor.pc = "summarizing"
    /\ ReplaceEntries(By(actor.request, buildCompactedContextEntries(context, actor.plan)),
                      LoadConversation)
    /\ actor' = [actor EXCEPT !.pc = "compacted"]
    /\ UNCHANGED <<accepted, answered, outcome, used>>

\* The provider's error, or a summary that still exceeds the budget.
SummaryFails ==
    /\ actor.pc = "summarizing"
    /\ AppendEntries(<<Entry("note", actor.turn)>>)
    /\ actor' = [actor EXCEPT !.pc = "failing"]
    /\ UNCHANGED <<accepted, answered, outcome, used>>

publishSummaryCompleted ==
    /\ actor.pc = "compacted"
    /\ AppendEntries(<<Entry("note", actor.turn)>>)
    /\ actor' = [actor EXCEPT !.pc = IF actor.manual THEN "closing" ELSE "ready"]
    /\ UNCHANGED <<accepted, answered, outcome, used>>

-----------------------------------------------------------------------------
\* The process ends; what the turn had not written is gone.
Crash ==
    /\ actor.pc # "none"
    /\ Use("upset")
    /\ saving' = NoState
    /\ actor' = NoActor
    /\ accepted' = IF state = NoState THEN {} ELSE accepted
    /\ outcome' = IF state = NoState THEN "none" ELSE outcome
    /\ UNCHANGED <<context, paired, state, answered>>

Next ==
    \/ WriteState
    \/ \E manual \in BOOLEAN : Run(manual)
    \/ \E turn \in 1..MaxTurn : EditMessage(turn)
    \/ Stop
    \/ Supersede
    \/ StartPass
    \/ BeginCompaction
    \/ NothingToCompact
    \/ flushAssistantText
    \/ ToolCompleted
    \/ \E call \in openCalls(context, actor.turn) : ToolResult(call)
    \/ PassDone
    \/ Complete
    \/ Fail
    \/ HookDone
    \/ applyCompactionPlan
    \/ SummaryFails
    \/ publishSummaryCompleted
    \/ Crash

Spec == Init /\ [][Next]_vars

-----------------------------------------------------------------------------
(* Properties *)

Prompt == ProjectPromptReplay(StoredEntries)

\* What a prompt tells of: the turns and calls in it or in its summary.
Told(prompt) ==
    [turns |-> UNION {m.covers.turns \cup (IF m.role = "user" THEN {m.turn} ELSE {}) :
                        m \in ToSet(prompt)},
     calls |-> UNION {m.covers.calls \cup {m.call} : m \in ToSet(prompt)}]

TypeOK ==
    /\ \A i \in DOMAIN context :
        /\ context[i].kind \in EntryKinds
        /\ context[i].turn \in 1..MaxTurn
        /\ context[i].seq \in Nat \ {0}
    /\ DOMAIN state = DOMAIN NoState /\ DOMAIN saving = DOMAIN NoState
    /\ actor.pc \in {"none", "starting", "ready", "streaming", "waiting", "hook",
                     "summarizing", "compacted", "closing", "failing", "ending"}
    /\ accepted \subseteq 1..MaxTurn
    /\ \A b \in DOMAIN Bounds : used[b] \in 0..Bounds[b]

\* The prompt compiled from the history is one a provider takes: every tool
\* message belongs to the call message it directly follows, and every call has
\* its result there, whatever was interleaved, cancelled, compacted or cut off.
PromptIsValid ==
    LET prompt == Prompt
    IN  saving = NoState => \A i \in DOMAIN prompt :
            /\ prompt[i].call # NoCall =>
                \E o \in 1..(i - 1) : i \in repliesTo(prompt, o)
                                      /\ prompt[i].call \in Calls(prompt[o])
            /\ Calls(prompt[i]) \subseteq answeredBy(prompt, i)

\* No turn is forgotten: the message of every stored turn that was not taken
\* back is in the prompt or in what the summary was written from.
EveryTurnRemembered ==
    saving = NoState /\ state # NoState => accepted \subseteq Told(Prompt).turns

\* Nor is the work of a turn: each call that got its result is in the prompt
\* or in what the summary was written from.
AnsweredCallsReplayed ==
    saving = NoState => {c \in answered : ~c.image} \subseteq Told(Prompt).calls

\* Neither what was asked nor what was done is forgotten, through truncation,
\* compaction, cancelled turns and restarts.
NothingForgotten == EveryTurnRemembered /\ AnsweredCallsReplayed

\* After a restart the status of the last request is how its turn ended.
LoopStatusTruthful ==
    saving = NoState /\ outcome # "none" =>
        LoadConversation.status \in
            IF outcome = "open" THEN {"running", "waiting_tool", "idle"} ELSE {outcome}

\* After a crash between the two writes the loaded conversation goes on from
\* the entries: its request is the one that wrote last, never the one an older
\* state file names.
StaleStateIsNoticed ==
    saving = NoState /\ state # NoState /\ ~paired =>
        /\ LoadConversation.turn = Last(context).turn
        /\ LoadConversation.request = Last(context).request

\* What is loaded names the request that wrote last, and how its turn ended.
ReloadIsTruthful == StaleStateIsNoticed /\ LoopStatusTruthful
=============================================================================
