------------------------------ MODULE FileEdits ------------------------------
(***************************************************************************)
(* The two tools that change a file of the client, PatchEdit and Write.    *)
(* The server has no access to the file: an edit is a chain of three       *)
(* requests to the client, read, write and read again, and the actor       *)
(* handles the answer to each as a message of its own, so the chains of    *)
(* several calls interleave.  PatchEdits of one path are put in a queue    *)
(* behind the one in flight; Writes are not.                               *)
(*                                                                         *)
(* A text is the file it started from, the edits in it and its line ends.  *)
(* Diffs, messages and the entries written to the history are left out,    *)
(* and what comes after the result (reconcileStream) is StreamActor's.     *)
(***************************************************************************)
EXTENDS Integers, Sequences, FiniteSets

CONSTANTS
    Calls,      \* the tool calls, numbered in the order the provider makes them
    Needs,      \* Needs[c]: the edits whose new text is part of c's old_string
    NewEol,     \* NewEol[c]: the line ends of c's new text
    Paths,      \* the spellings of paths a call or the client may use
    FileAt,     \* FileAt[p]: the file behind a spelling
    Windows,    \* whether the client is one that expands LF when it writes
    MaxTurns,   \* bound on the run intents of the request
    Quirks      \* what the environment does beyond the ordinary

ASSUME CallsAssumption == IsFiniteSet(Calls) /\ Calls \subseteq Nat \ {0}
ASSUME NeedsAssumption == Needs \in [Calls -> SUBSET Calls]
ASSUME EolAssumption == NewEol \in [Calls -> {"lf", "crlf"}]
ASSUME BoundsAssumption == Paths # {} /\ MaxTurns \in Nat \ {0}
ASSUME QuirksAssumption == Quirks \subseteq {"malformed_behind_queue", "rerun_in_flight"}

VARIABLES
    call,       \* per call: tool, path, turn, step, expected text, verdict
    queue,      \* PatchEditQueues: per path, the edits that wait
    disk,       \* the files of the client
    asked,      \* the requests the client works on
    answers,    \* the client's answers on their way, in no order
    turn,       \* the run intent being worked on
    mixed       \* history: files on which a Write overlapped another call

vars == <<call, queue, disk, asked, answers, turn, mixed>>

Files  == {FileAt[p] : p \in Paths}
Steps  == {"new", "queued", "read", "write", "post_read", "done", "dropped"}
Eols   == {"lf", "crlf", "doubled"}

\* What a text started from: nothing, the user's file, or the Write of a call.
NoFile   == -1
Original == 0
Texts == [base : {NoFile, Original} \cup Calls, edits : SUBSET Calls, eol : Eols]
Empty == [base |-> NoFile, edits |-> {}, eol |-> "lf"]

Untouched == [tool |-> "PatchEdit", path |-> CHOOSE p \in Paths : TRUE,
              turn |-> 0, step |-> "new", after |-> Empty, verdict |-> "none"]

Init ==
    /\ call = [c \in Calls |-> Untouched]
    /\ queue = [p \in Paths |-> <<>>]
    /\ disk \in [Files -> {Empty, [base |-> Original, edits |-> {}, eol |-> IF Windows THEN "crlf" ELSE "lf"]}]
    /\ asked = {} /\ answers = {} /\ mixed = {}
    /\ turn = 1

FileOf(c) == FileAt[call[c].path]
Hidden    == {"read", "write", "post_read"}
Pending   == {c \in Calls : call[c].step \in Hidden}

-----------------------------------------------------------------------------
(* Line ends *)

normalizeLineEndingsToLF(text) ==
    [text EXCEPT !.eol = IF @ = "crlf" THEN "lf" ELSE @]

SameText(a, b) == normalizeLineEndingsToLF(a) = normalizeLineEndingsToLF(b)

preparePatchEditWriteContentsForClient(text) == [text EXCEPT !.eol = "lf"]

\* Slip: the contents are sent as they are.
sentAsIs(text) == text

prepareWriteContentsForClient(text) ==
    IF Windows THEN normalizeLineEndingsToLF(text) ELSE text

systematicallyDoubledLineEndings(text) == [text EXCEPT !.eol = "doubled"]

\* What reconcilePatchEditObservedContent accepts.
Verified(expected, observed) == SameText(expected, observed)

reconcilePostWriteObservedContent(expected, observed) ==
    IF SameText(expected, observed) \/ observed = systematicallyDoubledLineEndings(expected)
    THEN expected ELSE observed

\* The text-mode write of a Windows client: LF becomes CRLF, CRLF becomes CRCRLF.
AsWritten(text) ==
    IF ~Windows THEN text
    ELSE [text EXCEPT !.eol = IF @ = "lf" THEN "crlf" ELSE "doubled"]

-----------------------------------------------------------------------------
(* Requests to the client, and the queue *)

Request(c, step, text) == [call |-> c, turn |-> call[c].turn, step |-> step,
                           path |-> call[c].path, text |-> text]

\* c's old_string occurs, once, in text.
Occurs(c, text) ==
    /\ text.base = Original
    /\ {n \in Needs[c] : FileOf(n) = FileOf(c) /\ call[n].tool = "PatchEdit"} \subseteq text.edits

computePatchEdit(c, text) ==
    [text EXCEPT !.edits = @ \cup {c}, !.eol = IF NewEol[c] = "crlf" THEN "crlf" ELSE @]

\* Slip: only the write itself counts as in flight.
inFlightOnlyWhileWriting(p) ==
    \E c \in Pending : call[c].tool = "PatchEdit" /\ call[c].path = p /\ call[c].step = "write"

patchEditPathHasInFlightOperation(p) ==
    \E c \in Pending : call[c].tool = "PatchEdit" /\ call[c].path = p

\* Slip: only an edit that succeeded lets the next one start.
takeNextOnSuccess(x) ==
    IF x.tool = "PatchEdit" /\ queue[x.path] # <<>> /\ x.verdict = "success"
    THEN {Head(queue[x.path])} ELSE {}

\* The queued edit that the end of a call with record x lets start.
takeNextQueuedPatchEditOperation(x) ==
    IF x.tool = "PatchEdit" /\ queue[x.path] # <<>> THEN {Head(queue[x.path])} ELSE {}

\* The call ends with record x; the next edit of its path starts with its read.
Finish(c, x) ==
    LET next == takeNextQueuedPatchEditOperation(x)
    IN  /\ call' = [d \in Calls |-> IF d = c THEN [x EXCEPT !.step = "done"]
                                    ELSE IF d \in next THEN [call[d] EXCEPT !.step = "read"]
                                    ELSE call[d]]
        /\ queue' = [queue EXCEPT ![x.path] = IF next = {} THEN @ ELSE Tail(@)]
        /\ asked' = asked \cup {Request(d, "read", Empty) : d \in next}

\* The call goes on with record x and a further request.
Proceed(c, x, text) ==
    /\ call' = [call EXCEPT ![c] = x]
    /\ asked' = asked \cup {[Request(c, x.step, text) EXCEPT !.path = x.path]}
    /\ UNCHANGED queue

-----------------------------------------------------------------------------
(* Tool invocations of the provider *)

Next1(c) == call[c].step = "new" /\ \A d \in Calls : d < c => call[d].step # "new"

Record(tool, p) == [Untouched EXCEPT !.tool = tool, !.path = p, !.turn = turn]

\* The calls that work, or wait to work, on file f.
Busy(f) == {d \in Calls : call[d].step \in Hidden \cup {"queued"} /\ FileOf(d) = f}

Overlap(c, tool, f) ==
    mixed' = IF \E d \in Busy(f) \ {c} : "Write" \in {tool, call[d].tool}
             THEN mixed \cup {f} ELSE mixed

startOrQueuePatchEditOperation(c, p) ==
    IF patchEditPathHasInFlightOperation(p)
    THEN /\ call' = [call EXCEPT ![c] = [Record("PatchEdit", p) EXCEPT !.step = "queued"]]
         /\ queue' = [queue EXCEPT ![p] = Append(@, c)]
         /\ UNCHANGED asked
    ELSE /\ call' = [call EXCEPT ![c] = [Record("PatchEdit", p) EXCEPT !.step = "read"]]
         /\ asked' = asked \cup {[Request(c, "read", Empty) EXCEPT !.path = p, !.turn = turn]}
         /\ UNCHANGED queue

handlePatchEditToolInvocation(c) ==
    /\ Next1(c)
    /\ \E p \in Paths :
          /\ startOrQueuePatchEditOperation(c, p)
          /\ Overlap(c, "PatchEdit", FileAt[p])
    /\ UNCHANGED <<disk, answers, turn>>

\* A call whose arguments do not decode ends at once, like any other.
MalformedPatchEdit(c) ==
    /\ Next1(c)
    /\ \E p \in Paths :
          /\ "malformed_behind_queue" \in Quirks \/ queue[p] = <<>>
          /\ Finish(c, [Record("PatchEdit", p) EXCEPT !.verdict = "failed"])
    /\ UNCHANGED <<disk, answers, turn, mixed>>

handleWriteToolInvocation(c) ==
    /\ Next1(c)
    /\ \E p \in Paths :
          /\ call' = [call EXCEPT ![c] = [Record("Write", p) EXCEPT !.step = "read"]]
          /\ asked' = asked \cup {[Request(c, "read", Empty) EXCEPT !.path = p, !.turn = turn]}
          /\ Overlap(c, "Write", FileAt[p])
    /\ UNCHANGED <<queue, disk, answers, turn>>

\* A run intent for the same request id empties PendingExecs, not PatchEditQueues.
handleRunIntent ==
    /\ turn < MaxTurns
    /\ "rerun_in_flight" \in Quirks \/ (asked = {} /\ \A p \in Paths : queue[p] = <<>>)
    /\ turn' = turn + 1
    /\ call' = [c \in Calls |-> IF c \in Pending THEN [call[c] EXCEPT !.step = "dropped"] ELSE call[c]]
    /\ UNCHANGED <<queue, disk, asked, answers, mixed>>

-----------------------------------------------------------------------------
(* The client *)

Answer(r, p, got, text) ==
    /\ asked' = asked \ {r}
    /\ answers' = answers \cup {[call |-> r.call, turn |-> r.turn, step |-> r.step,
                                 path |-> p, got |-> got, text |-> text]}

Spellings(p) == {q \in Paths : FileAt[q] = FileAt[p]}

\* A read: the file, or a refusal (a truncated or binary file, no permission, a throw).
ClientReads(r) ==
    LET text == disk[FileAt[r.path]]
    IN  /\ r.step # "write"
        /\ \/ text.base = NoFile /\ Answer(r, r.path, "missing", Empty)
           \/ /\ text.base # NoFile
              /\ \E q \in Spellings(r.path) : Answer(r, q, "text", normalizeLineEndingsToLF(text))
           \/ Answer(r, r.path, "refused", Empty)
        /\ UNCHANGED <<call, queue, disk, turn, mixed>>

\* A write, whose answer shows the file after it.  It may fail with or without effect.
ClientWrites(r) ==
    /\ r.step = "write"
    /\ \/ /\ disk' = [disk EXCEPT ![FileAt[r.path]] = AsWritten(r.text)]
          /\ \/ \E q \in Spellings(r.path) : Answer(r, q, "text", AsWritten(r.text))
             \/ Answer(r, r.path, "refused", Empty)
       \/ Answer(r, r.path, "refused", Empty) /\ UNCHANGED disk
    /\ UNCHANGED <<call, queue, turn, mixed>>

-----------------------------------------------------------------------------
(* The client's answers *)

Is(c, a) == a.call = c /\ c \in Pending /\ call[c].step = a.step /\ call[c].turn = a.turn

Received(a) == answers' = answers \ {a} /\ UNCHANGED <<disk, turn, mixed>>

\* handleHiddenPatchEditExecResult and handleHiddenPatchEditExecControl.
PatchEditAnswered(c, a) ==
    LET x    == call[c]
        here == [x EXCEPT !.path = a.path]
    IN  /\ Is(c, a) /\ x.tool = "PatchEdit"
        /\ Received(a)
        /\ \/ /\ a.step = "read"
              /\ IF a.got # "text" THEN Finish(c, [x EXCEPT !.verdict = "failed"])
                 ELSE IF ~Occurs(c, a.text) THEN Finish(c, [x EXCEPT !.verdict = "not_found"])
                 ELSE LET after == computePatchEdit(c, a.text)
                      IN  Proceed(c, [x EXCEPT !.step = "write", !.after = after],
                                  preparePatchEditWriteContentsForClient(after))
           \/ /\ a.step = "write"
              /\ IF a.got # "text" THEN Finish(c, [x EXCEPT !.verdict = "failed"])
                 ELSE IF ~Verified(x.after, a.text) THEN Finish(c, [here EXCEPT !.verdict = "unverified"])
                 ELSE Proceed(c, [here EXCEPT !.step = "post_read", !.after = a.text], Empty)
           \/ /\ a.step = "post_read"
              /\ IF a.got # "text" THEN Finish(c, [x EXCEPT !.verdict = "success"])
                 ELSE IF ~Verified(x.after, a.text) THEN Finish(c, [here EXCEPT !.verdict = "unverified"])
                 ELSE Finish(c, [here EXCEPT !.verdict = "success", !.after = a.text])

\* handleHiddenWriteExecResult and handleHiddenWriteExecControl.  A file that is
\* missing is written all the same; any other refusal ends the call.
WriteAnswered(c, a) ==
    LET x    == call[c]
        new  == [base |-> c, edits |-> {}, eol |-> NewEol[c]]
        here == [x EXCEPT !.path = a.path]
    IN  /\ Is(c, a) /\ x.tool = "Write"
        /\ Received(a)
        /\ \/ /\ a.step = "read"
              /\ IF a.got = "refused" THEN Finish(c, [x EXCEPT !.verdict = "failed"])
                 ELSE Proceed(c, [x EXCEPT !.step = "write", !.after = new],
                              prepareWriteContentsForClient(new))
           \/ /\ a.step = "write"
              /\ IF a.got # "text" THEN Finish(c, [x EXCEPT !.verdict = "failed"])
                 ELSE Proceed(c, [here EXCEPT !.step = "post_read",
                                    !.after = reconcilePostWriteObservedContent(@, a.text)], Empty)
           \/ /\ a.step = "post_read"
              /\ Finish(c, IF a.got # "text" THEN [x EXCEPT !.verdict = "success"]
                           ELSE [here EXCEPT !.verdict = "success",
                                   !.after = reconcilePostWriteObservedContent(@, a.text)])

\* The answer to a request that is no longer pending is ignored.
LateAnswer(a) ==
    /\ ~Is(a.call, a)
    /\ Received(a)
    /\ UNCHANGED <<call, queue, asked>>

Handle(c) == \E a \in answers : PatchEditAnswered(c, a) \/ WriteAnswered(c, a)

Next ==
    \/ \E c \in Calls : \/ handlePatchEditToolInvocation(c)
                        \/ MalformedPatchEdit(c)
                        \/ handleWriteToolInvocation(c)
                        \/ Handle(c)
    \/ handleRunIntent
    \/ \E r \in asked : ClientReads(r) \/ ClientWrites(r)
    \/ \E a \in answers : LateAnswer(a)

\* The client answers what it is asked, and the actor handles what it is sent.
Fairness ==
    \A c \in Calls :
        /\ WF_vars(\E r \in asked : r.call = c /\ (ClientReads(r) \/ ClientWrites(r)))
        /\ WF_vars(Handle(c))

Spec == Init /\ [][Next]_vars /\ Fairness

-----------------------------------------------------------------------------
(* Properties *)

\* Every variable has its type, and a queued edit stands in the queue of its path.
TypeOK ==
    /\ call \in [Calls -> [tool : {"PatchEdit", "Write"}, path : Paths,
                           turn : 0 .. MaxTurns, step : Steps, after : Texts,
                           verdict : {"none", "success", "not_found", "unverified", "failed"}]]
    /\ queue \in [Paths -> Seq(Calls)]
    /\ disk \in [Files -> Texts]
    /\ turn \in 1 .. MaxTurns
    /\ mixed \subseteq Files
    /\ {c \in Calls : call[c].step = "queued"} =
         UNION {{queue[p][i] : i \in DOMAIN queue[p]} : p \in Paths}

\* No edit is lost: what a PatchEdit reported as done stays in the file until a
\* later Write replaces the whole of it.  Two chains of read and write that
\* overlapped on one file would undo each other, which is what the queue is for;
\* files on which the model's own Writes overlapped an edit are left out, for
\* nothing in the code orders those.
NoEditLost ==
    \A c \in Calls :
        (call[c].tool = "PatchEdit" /\ call[c].verdict = "success" /\ FileOf(c) \notin mixed)
        => LET text == disk[FileOf(c)]
           IN  c \in text.edits \/ (text.base \in Calls /\ text.base > c)

\* Edits of one file apply in the order in which the provider asked for them: an
\* edit whose old_string is the work of earlier edits finds it, unless one of
\* those did not succeed, the file was replaced, or it was not there at all.
EditsInOrder ==
    \A c \in Calls :
        (call[c].verdict = "not_found" /\ FileOf(c) \notin mixed)
        => \/ \E n \in Needs[c] :
                /\ FileOf(n) = FileOf(c)
                /\ (call[n].verdict \notin {"none", "success"} \/ call[n].step = "dropped")
           \/ \E w \in Calls : w < c /\ call[w].tool = "Write" /\ FileOf(w) = FileOf(c)

\* Edits of one file build on each other: none is lost, and none comes too early.
EditsBuildUp == NoEditLost /\ EditsInOrder

\* What a call reports as the new text of the file is what the file holds at that
\* moment, up to CRLF and LF: line ends are not doubled on the way to a Windows
\* client and back, nor is another's text reported.
ReportIsTruthful ==
    [][\A c \in Calls :
         (call[c].verdict # "success" /\ call'[c].verdict = "success" /\ FileOf(c) \notin mixed)
         => SameText(call'[c].after, disk[FileOf(c)])]_vars

\* Every edit of a client that answers gets its verdict, the queued ones too, for
\* the end of each starts the next.
EditsAreAnswered ==
    \A c \in Calls : (call[c].step = "queued") ~> (call[c].step \in {"done", "dropped"})

=============================================================================
