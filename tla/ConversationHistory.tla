------------------------- MODULE ConversationHistory -------------------------
(***************************************************************************)
(* The history of a conversation and everything computed from it: which    *)
(* entries a cancelled turn keeps, what a compaction keeps and what it     *)
(* hands to the summary, which entries an edited message rewinds, the      *)
(* status of the last request, and the projection of the entries into the  *)
(* messages sent to a model provider.  Pure operators, no state: the store *)
(* and the turn that use them are in ConversationStore.                    *)
(*                                                                         *)
(* Texts are left out.  An entry says whose it is (turn, and the request   *)
(* that ran the turn), which tool call it is about (call), and, for a      *)
(* summary, what it was written from (covers).  A turn that is run again   *)
(* loses its entries first, so the entries of a turn are of one request.   *)
(* Assistant texts carry no signed reasoning here.                         *)
(***************************************************************************)
EXTENDS Naturals, Sequences, FiniteSets, SequencesExt

NoCall == [turn |-> 0, pass |-> 0, n |-> 0, image |-> FALSE]
Nothing == [turns |-> {}, calls |-> {}]

\* "run" stands for the mode and run_request metadata of a run, "note" for an
\* entry neither the prompt nor the status of a request depends on.
EntryKinds == {"user", "prompt", "run", "text", "call", "result", "summary",
               "note", "done", "failed", "canceled"}

Entry(kind, turn) ==
    [kind |-> kind, turn |-> turn, request |-> 0, call |-> NoCall,
     covers |-> Nothing, policy |-> "none", seq |-> 0]
CallEntry(kind, call) == [Entry(kind, call.turn) EXCEPT !.call = call]
ControlEntry(turn, policy) == [Entry("canceled", turn) EXCEPT !.policy = policy]

\* The mode of a run is stored for the prompt too; the reminders and context a
\* later pass derives are entries of the same kind.
buildRunEntries(turn) ==
    <<Entry("user", turn), Entry("run", turn), Entry("prompt", turn)>>

PromptKinds == {"user", "prompt", "text", "call", "result", "summary"}
StableInputKinds == {"user", "prompt"}
ActivityKinds == {"text", "call", "result"}

KindsOf(entries, turn) ==
    {entries[i].kind : i \in {j \in DOMAIN entries : entries[j].turn = turn}}

\* The entries at the given positions, in their order.
entriesAt(entries, positions) ==
    LET upTo[n \in 0..Len(entries)] ==
            IF n = 0 THEN <<>>
            ELSE IF n \in positions THEN Append(upTo[n - 1], entries[n])
            ELSE upTo[n - 1]
    IN  upTo[Len(entries)]

-----------------------------------------------------------------------------
(* Cancelled turns *)

\* The first cancellation of a turn decides; one that was superseded before
\* it produced anything is dropped whole, any other keeps its inputs.
cancelPolicy(entries, turn) ==
    LET cancels == SelectSeq(entries, LAMBDA e : e.kind = "canceled" /\ e.turn = turn)
    IN  IF cancels = <<>> THEN "none"
        ELSE IF cancels[1].policy = "drop_unstarted_turn"
                /\ KindsOf(entries, turn) \cap ActivityKinds = {}
             THEN "drop_turn"
             ELSE "keep_stable_input"

sanitizeCanceledReplayEntries(entries) ==
    LET kept(e) == LET policy == cancelPolicy(entries, e.turn)
                   IN  \/ policy = "none"
                       \/ policy = "keep_stable_input" /\ e.kind \in StableInputKinds
    IN  SelectSeq(entries, kept)

-----------------------------------------------------------------------------
(* Compaction *)

Summaries(entries) == SelectSeq(entries, LAMBDA e : e.kind = "summary")

existingSummary(entries) ==
    IF Summaries(entries) = <<>> THEN Nothing ELSE Last(Summaries(entries)).covers

latestCompletedCall(entries, turn) ==
    LET results == SelectSeq(entries, LAMBDA e : e.kind = "result" /\ e.turn = turn)
    IN  IF results = <<>> THEN NoCall ELSE Last(results).call

preservedOfCurrentTurn(entries, turn) ==
    LET latest == latestCompletedCall(entries, turn)
        kept == {i \in DOMAIN entries :
                    /\ entries[i].turn = turn
                    /\ \/ entries[i].kind \in {"user", "run"}
                       \/ entries[i].kind \in {"call", "result"} /\ entries[i].call = latest}
    IN  entriesAt(entries, kept)

\* Fault: a turn that was stopped before it did anything is not summarised.
candidatesWithActivity(entries, turn) ==
    {t \in {entries[i].turn : i \in DOMAIN entries} \ {turn} :
        KindsOf(entries, t) \cap ActivityKinds # {}}

\* The turns before the current one that have something to summarise.
contextCandidates(entries, turn) ==
    {t \in {entries[i].turn : i \in DOMAIN entries} \ {turn} :
        KindsOf(entries, t) \cap ({"user"} \cup ActivityKinds) # {}}

CallsOf(entries, turns) ==
    {entries[i].call : i \in {j \in DOMAIN entries :
        entries[j].turn \in turns /\ entries[j].kind \in {"call", "result"}}}

\* The calls of the current turn a compaction removes: all but the last one
\* that has its result, and none while no call has one.
currentCandidate(entries, turn) ==
    LET latest == latestCompletedCall(entries, turn)
    IN  IF latest = NoCall THEN {} ELSE CallsOf(entries, {turn}) \ {latest}

HasPlan(entries, turn, manual) ==
    LET visible == sanitizeCanceledReplayEntries(entries)
    IN  \/ contextCandidates(visible, turn) # {}
        \/ ~manual /\ currentCandidate(visible, turn) # {}

\* What the text handed to the summariser tells: the summary that stands, the
\* earlier turns and, unless the user asked for it, the current turn's calls.
buildCompactionPlan(entries, turn, manual) ==
    LET visible == sanitizeCanceledReplayEntries(entries)
        turns == contextCandidates(visible, turn)
        old == existingSummary(entries)
    IN  [turn |-> turn, manual |-> manual,
         covers |-> [turns |-> old.turns \cup turns,
                     calls |-> old.calls \cup CallsOf(visible, turns)
                               \cup (IF manual THEN {}
                                     ELSE currentCandidate(visible, turn))]]

newCompactionSummaryEntry(plan) ==
    [Entry("summary", plan.turn) EXCEPT !.covers = plan.covers]

buildCompactedContextEntries(entries, plan) ==
    <<newCompactionSummaryEntry(plan)>>
    \o (IF plan.manual THEN <<>> ELSE preservedOfCurrentTurn(entries, plan.turn))

\* Entries a summary stands for are not replayed even where they are kept.
compactedPromptProjectionEntries(entries) ==
    LET summary == {i \in DOMAIN entries : entries[i].kind = "summary"}
        last == CHOOSE i \in summary : \A j \in summary : j <= i
        kept == ToSet(preservedOfCurrentTurn(entries, entries[last].turn))
        shown == {i \in DOMAIN entries : \/ i >= last
                                         \/ entries[i].kind \notin PromptKinds
                                         \/ entries[i] \in kept}
    IN  IF summary = {} THEN entries ELSE entriesAt(entries, shown)

-----------------------------------------------------------------------------
(* Projection into provider messages *)

Message(role, turn) ==
    [role |-> role, turn |-> turn, calls |-> <<>>, call |-> NoCall, covers |-> Nothing]
ToolMessage(call) == [Message("tool", call.turn) EXCEPT !.call = call]
CallMessage(call) == [Message("assistant", call.turn) EXCEPT !.calls = <<call>>]

Calls(message) == ToSet(message.calls)
CallsIn(messages) == UNION {Calls(messages[i]) : i \in DOMAIN messages}

\* A result whose call the history has lost brings its call along.
projectEntry(messages, e) ==
    CASE e.kind \in {"user", "prompt"} -> Append(messages, Message("user", e.turn))
      [] e.kind = "summary" ->
            Append(messages, [Message("summary", e.turn) EXCEPT !.covers = e.covers])
      [] e.kind = "text" -> Append(messages, Message("assistant", e.turn))
      [] e.kind = "call" -> Append(messages, CallMessage(e.call))
      [] e.kind = "result" ->
            IF e.call \in CallsIn(messages) THEN Append(messages, ToolMessage(e.call))
            ELSE messages \o <<CallMessage(e.call), ToolMessage(e.call)>>
      [] OTHER -> messages

mergeReplayAssistantToolCalls(messages, m) ==
    IF messages # <<>> /\ m.calls # <<>> /\ Last(messages).calls # <<>>
    THEN [messages EXCEPT ![Len(messages)].calls = @ \o m.calls]
    ELSE Append(messages, m)

\* Calls of the image tool and their results are not shown to a provider.
filterProviderSuppressedToolReplayMessages(messages) ==
    LET hidden(m) == \/ m.call.image
                     \/ m.calls # <<>> /\ \A c \in Calls(m) : c.image
        visible(m) == [m EXCEPT !.calls = SelectSeq(@, LAMBDA c : ~c.image)]
    IN  FoldLeft(LAMBDA out, m : IF hidden(m) THEN out ELSE Append(out, visible(m)),
                 <<>>, messages)

\* The pass all calls of a message were made in, 0 when there is none.
groupOf(message) ==
    LET passes == {c.pass : c \in Calls(message)}
    IN  IF Cardinality(passes) = 1 THEN CHOOSE p \in passes : TRUE ELSE 0

\* The calls of one pass and their results, in the order they happened, become
\* one message with all the calls and then the results in the calls' order.
closeBatch(s) ==
    LET batch == s.batch[1]
        answered == SelectSeq(batch.calls, LAMBDA c : c \in ToSet(s.results))
        rest == SelectSeq(s.results, LAMBDA c : c \notin Calls(batch))
        replies == answered \o rest
    IN  IF s.batch = <<>> THEN s.out
        ELSE Append(s.out, batch) \o [i \in DOMAIN replies |-> ToolMessage(replies[i])]

coalesceStep(s, m) ==
    LET open == s.batch # <<>>
        group == groupOf(s.batch[1])
    IN  CASE open /\ m.role = "tool" /\ m.call.pass = group ->
                [s EXCEPT !.results = IF m.call \in ToSet(@) THEN @ ELSE Append(@, m.call)]
          [] open /\ m.role # "tool" /\ groupOf(m) = group ->
                [s EXCEPT !.batch = <<[@[1] EXCEPT !.calls = @ \o m.calls]>>]
          [] OTHER ->
                IF groupOf(m) = 0
                THEN [out |-> Append(closeBatch(s), m), batch |-> <<>>, results |-> <<>>]
                ELSE [out |-> closeBatch(s), batch |-> <<m>>, results |-> <<>>]

coalesceInterleavedReplayToolBatches(messages) ==
    closeBatch(FoldLeft(coalesceStep, [out |-> <<>>, batch |-> <<>>, results |-> <<>>],
                        messages))

\* The tool messages that directly follow message i.
repliesTo(messages, i) ==
    {j \in (i + 1)..Len(messages) : \A k \in (i + 1)..j : messages[k].role = "tool"}
answeredBy(messages, i) == {messages[j].call : j \in repliesTo(messages, i)}

\* Fault: calls that never got a result are replayed.
danglingCallsKept(messages) == messages

\* Calls without a result right behind them go, and so do the results behind a
\* call message that answer none of its calls.
trimReplayDanglingAssistantToolCalls(messages) ==
    LET asks(i) == messages[i].calls # <<>>
        stays(i) == IF asks(i) THEN Calls(messages[i]) \cap answeredBy(messages, i) # {}
                    ELSE \A o \in 1..(i - 1) :
                            asks(o) /\ i \in repliesTo(messages, o)
                                => messages[i].call \in Calls(messages[o])
        trimmed(i) == [messages[i] EXCEPT
                        !.calls = SelectSeq(@, LAMBDA c : c \in answeredBy(messages, i))]
    IN  FoldLeft(LAMBDA out, i : IF stays(i) THEN Append(out, trimmed(i)) ELSE out,
                 <<>>, [i \in DOMAIN messages |-> i])

normalizeReplayMessageSequence(messages) ==
    trimReplayDanglingAssistantToolCalls(
        coalesceInterleavedReplayToolBatches(
            filterProviderSuppressedToolReplayMessages(
                FoldLeft(mergeReplayAssistantToolCalls, <<>>, messages))))

ProjectPromptReplay(entries) ==
    normalizeReplayMessageSequence(
        FoldLeft(projectEntry, <<>>,
            sanitizeCanceledReplayEntries(compactedPromptProjectionEntries(entries))))

-----------------------------------------------------------------------------
(* Rewinding, versions and the status of a request *)

HasUserEntry(entries, turn) == "user" \in KindsOf(entries, turn)
prefixEntriesBeforeTurn(entries, turn) ==
    entriesAt(entries, {i \in DOMAIN entries : entries[i].turn < turn})

Highest(numbers) == CHOOSE n \in numbers \cup {0} : \A m \in numbers : m <= n
contextVersionForEntries(entries) == Highest({entries[i].seq : i \in DOMAIN entries})
maxHistoryTurnSeq(entries) == Highest({entries[i].turn : i \in DOMAIN entries})

HasRequestEntry(entries, turn, request) ==
    \E i \in DOMAIN entries : entries[i].turn = turn /\ entries[i].request = request

\* Entries are written by the request that runs.
By(request, entries) ==
    [i \in DOMAIN entries |-> [entries[i] EXCEPT !.request = request]]

\* New entries take the numbers from next on.
numbered(entries, next) ==
    [i \in DOMAIN entries |-> [entries[i] EXCEPT !.seq = next + i - 1]]

openCalls(entries, turn) ==
    LET of(kind) == {entries[i].call : i \in {j \in DOMAIN entries :
                        entries[j].turn = turn /\ entries[j].kind = kind}}
    IN  of("call") \ of("result")

deriveRequestLoopStatus(entries, turn, fallback) ==
    LET ends == {i \in DOMAIN entries : entries[i].turn = turn
                                        /\ entries[i].kind \in {"done", "failed", "canceled"}}
    IN  CASE ends # {} -> entries[Highest(ends)].kind
          [] ends = {} /\ openCalls(entries, turn) # {} -> "waiting_tool"
          [] ends = {} /\ openCalls(entries, turn) = {}
                /\ KindsOf(entries, turn) \cap {"user", "prompt", "run", "text", "result"} # {}
                -> "running"
          [] OTHER -> fallback
=============================================================================
