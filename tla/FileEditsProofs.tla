---------------------------- MODULE FileEditsProofs ----------------------------
(***************************************************************************)
(* Theorems about FileEdits for any calls, files and line ends: the edits  *)
(* of a file build on each other, and what is reported is in the file.     *)
(***************************************************************************)
EXTENDS FileEdits, SequenceTheorems, TLAPS

(* An edit's old_string is the work of edits that the provider asked for   *)
(* before; a file is known under one spelling.                             *)
NeedsEarlier == \A c \in Calls : \A n \in Needs[c] : n < c
OneSpelling  == \A p, q \in Paths : FileAt[p] = FileAt[q] => p = q

Verdicts == {"none", "success", "not_found", "unverified", "failed"}
Records  == [tool : {"PatchEdit", "Write"}, path : Paths, turn : 0 .. MaxTurns,
             step : Steps, after : Texts, verdict : Verdicts]
Requests == [call : Calls, turn : 0 .. MaxTurns, step : Hidden, path : Paths, text : Texts]
Answers  == [call : Calls, turn : 0 .. MaxTurns, step : Hidden, path : Paths,
             got : {"text", "missing", "refused"}, text : Texts]

TypeInv == /\ call \in [Calls -> Records]
           /\ queue \in [Paths -> Seq(Calls)]
           /\ disk \in [Files -> Texts]
           /\ turn \in 1 .. MaxTurns
           /\ mixed \subseteq Files
           /\ asked \subseteq Requests
           /\ answers \subseteq Answers

(* Calls are made in their order, and have a verdict when they are done.   *)
OrderInv ==
    /\ \A c, d \in Calls : d < c /\ call[c].step # "new" => call[d].step # "new"
    /\ \A c \in Calls : call[c].verdict # "none" <=> call[c].step = "done"
    /\ \A c \in Calls : call[c].step = "new" => call[c].tool = "PatchEdit"

(* A queue rises, behind the one edit of its path that is in flight.       *)
InFlight(c, p) == c \in Pending /\ call[c].tool = "PatchEdit" /\ call[c].path = p

QueueInv ==
    /\ \A c \in Calls : call[c].step = "queued" <=>
          \E i \in DOMAIN queue[call[c].path] : queue[call[c].path][i] = c
    /\ \A p \in Paths :
          /\ \A i \in DOMAIN queue[p] :
                call[queue[p][i]].tool = "PatchEdit" /\ call[queue[p][i]].path = p
          /\ \A i, j \in DOMAIN queue[p] : i < j => queue[p][i] < queue[p][j]
          /\ queue[p] # <<>> => \E c \in Calls : InFlight(c, p)
          /\ \A c, d \in Calls : InFlight(c, p) /\ InFlight(d, p) => c = d
          /\ \A c \in Calls : InFlight(c, p) => \A i \in DOMAIN queue[p] : c < queue[p][i]

(* A call has one message under way at most, that of its step.             *)
TokenInv ==
    /\ \A r \in asked : /\ r.step = call[r.call].step /\ r.turn = call[r.call].turn
                        /\ r.path = call[r.call].path
    /\ \A a \in answers : /\ call[a.call].step \in {a.step, "dropped"}
                          /\ a.turn = call[a.call].turn /\ a.path = call[a.call].path
    /\ \A r, s \in asked : r.call = s.call => r = s
    /\ \A a, b \in answers : a.call = b.call => a = b
    /\ \A r \in asked, a \in answers : r.call # a.call

(* On a file that is not mixed, a Write works alone.                       *)
AloneInv ==
    \A f \in Files \ mixed : \A c, d \in Busy(f) :
        c # d => call[c].tool = "PatchEdit" /\ call[d].tool = "PatchEdit"

Succeeded(d, f) ==
    call[d].tool = "PatchEdit" /\ call[d].verdict = "success" /\ FileOf(d) = f

WrittenBy(c) == [base |-> c, edits |-> {}, eol |-> NewEol[c]]

(* What is to be written, and what is sent.                                *)
AfterInv ==
    \A c \in Calls : call[c].step = "write" =>
        IF call[c].tool = "PatchEdit"
        THEN call[c].after.base = Original /\ c \in call[c].after.edits
        ELSE call[c].after = WrittenBy(c)

Sent(c) == IF call[c].tool = "PatchEdit" THEN preparePatchEditWriteContentsForClient(call[c].after)
           ELSE prepareWriteContentsForClient(call[c].after)

SentInv == \A r \in asked : r.step = "write" => r.text = Sent(r.call)

(* What is in a file: all edits that succeeded, or a later Write.          *)
DiskInv ==
    \A f \in Files :
        /\ disk[f].base \in Calls => /\ call[disk[f].base].tool = "Write" /\ FileOf(disk[f].base) = f
                                     /\ call[disk[f].base].step # "new"
        /\ f \notin mixed => /\ \A d \in Calls : Succeeded(d, f) =>
                                   d \in disk[f].edits \/ (disk[f].base \in Calls /\ disk[f].base > d)
                             /\ disk[f].base \in Calls => \A c \in Busy(f) : disk[f].base <= c

(* What a call in flight knows of a file that nobody else works on.        *)
Chain(c) ==
    c \in Pending /\ FileOf(c) \notin mixed =>
        /\ call[c].tool = "Write" => \A d \in Calls : Succeeded(d, FileOf(c)) => d < c
        /\ call[c].tool = "PatchEdit" /\ call[c].step = "write" =>
              \A d \in Calls : Succeeded(d, FileOf(c)) => d \in call[c].after.edits
        /\ call[c].step = "post_read" =>
              /\ SameText(call[c].after, disk[FileOf(c)])
              /\ call[c].tool = "PatchEdit" => c \in disk[FileOf(c)].edits

ChainInv == \A c \in Calls : Chain(c)

Heard(a) ==
    call[a.call].step = a.step /\ FileOf(a.call) \notin mixed /\ a.got = "text" =>
        IF a.step = "write" THEN a.text = disk[FileOf(a.call)] /\ a.text = AsWritten(Sent(a.call))
        ELSE a.text = normalizeLineEndingsToLF(disk[FileOf(a.call)]) /\ a.text.base # NoFile

HeardInv == \A a \in answers : Heard(a)

(* Why the old_string of c could not be found.                             *)
Excused(c) ==
    \/ \E n \in Needs[c] :
          /\ FileOf(n) = FileOf(c)
          /\ (call[n].verdict \notin {"none", "success"} \/ call[n].step = "dropped")
    \/ \E w \in Calls : w < c /\ call[w].tool = "Write" /\ FileOf(w) = FileOf(c)

MissedInv ==
    \A c \in Calls : call[c].verdict = "not_found" /\ FileOf(c) \notin mixed => Excused(c)

EditInv == /\ TypeInv /\ OrderInv /\ QueueInv /\ TokenInv /\ AloneInv /\ AfterInv /\ SentInv
           /\ DiskInv /\ ChainInv /\ HeardInv /\ MissedInv

-----------------------------------------------------------------------------
(* Texts and calls.                                                        *)
LEMMA CallNumbers ==
    /\ Calls \subseteq Nat /\ NoFile \notin Calls /\ Original \notin Calls
    /\ \A c \in Calls : c # 0
BY CallsAssumption DEF NoFile, Original

LEMMA TextFacts ==
    ASSUME NEW t \in Texts
    PROVE  /\ AsWritten(t) \in Texts
           /\ AsWritten(t).base = t.base /\ AsWritten(t).edits = t.edits
           /\ normalizeLineEndingsToLF(t) \in Texts
           /\ normalizeLineEndingsToLF(t).base = t.base
           /\ normalizeLineEndingsToLF(t).edits = t.edits
           /\ preparePatchEditWriteContentsForClient(t) \in Texts
           /\ preparePatchEditWriteContentsForClient(t).base = t.base
           /\ preparePatchEditWriteContentsForClient(t).edits = t.edits
<1>1. /\ AsWritten(t) \in Texts
      /\ AsWritten(t).base = t.base /\ AsWritten(t).edits = t.edits
  <2>1. t.eol \in Eols
    BY DEF Texts
  <2> DEFINE e == IF t.eol = "lf" THEN "crlf" ELSE "doubled"
  <2>2. e \in Eols
    BY DEF Eols
  <2>3. AsWritten(t) = IF ~Windows THEN t ELSE [t EXCEPT !.eol = e]
    BY DEF AsWritten
  <2> HIDE DEF e
  <2> QED
    BY <2>2, <2>3 DEF Texts
<1>2. /\ normalizeLineEndingsToLF(t) \in Texts
      /\ normalizeLineEndingsToLF(t).base = t.base
      /\ normalizeLineEndingsToLF(t).edits = t.edits
  <2> DEFINE e == IF t.eol = "crlf" THEN "lf" ELSE t.eol
  <2>1. e \in Eols
    BY DEF Eols, Texts
  <2>2. normalizeLineEndingsToLF(t) = [t EXCEPT !.eol = e]
    BY DEF normalizeLineEndingsToLF
  <2> HIDE DEF e
  <2> QED
    BY <2>1, <2>2 DEF Texts
<1>3. /\ preparePatchEditWriteContentsForClient(t) \in Texts
      /\ preparePatchEditWriteContentsForClient(t).base = t.base
      /\ preparePatchEditWriteContentsForClient(t).edits = t.edits
  BY DEF preparePatchEditWriteContentsForClient, Texts, Eols
<1> QED
  BY <1>1, <1>2, <1>3

LEMMA SentTexts ==
    ASSUME TypeInv, NEW c \in Calls
    PROVE  /\ Sent(c) \in Texts /\ Sent(c).base = call[c].after.base
           /\ Sent(c).edits = call[c].after.edits
<1>1. call[c].after \in Texts
  BY DEF TypeInv, Records
<1> QED
  BY <1>1, TextFacts DEF Sent, prepareWriteContentsForClient

(* Reading once more changes nothing but line ends.                        *)
LEMMA SameAgain ==
    ASSUME NEW t \in Texts
    PROVE  SameText(normalizeLineEndingsToLF(t), t) /\ SameText(t, t)
<1> DEFINE u == normalizeLineEndingsToLF(t)
<1>1. u.eol # "crlf" /\ u \in Texts
  <2> DEFINE e == IF t.eol = "crlf" THEN "lf" ELSE t.eol
  <2>1. e # "crlf"
    OBVIOUS
  <2>2. u = [t EXCEPT !.eol = e]
    BY DEF normalizeLineEndingsToLF
  <2>3. u \in Texts
    BY TextFacts
  <2> HIDE DEF e, u
  <2> QED
    BY <2>1, <2>2, <2>3 DEF Texts
<1>2. normalizeLineEndingsToLF(u) = u
  <2> HIDE DEF u
  <2>1. normalizeLineEndingsToLF(u) = [u EXCEPT !.eol = u.eol]
    BY <1>1 DEF normalizeLineEndingsToLF
  <2> QED
    BY <1>1, <2>1 DEF Texts
<1> QED
  BY <1>2 DEF SameText

LEMMA SmallTexts ==
    ASSUME NEW t \in Texts, t.eol \in {"lf", "crlf"}
    PROVE  SameText(t, AsWritten(prepareWriteContentsForClient(t)))
<1>1. CASE ~Windows
  <2>1. AsWritten(prepareWriteContentsForClient(t)) = t
    BY <1>1 DEF AsWritten, prepareWriteContentsForClient
  <2> QED
    BY <2>1 DEF SameText
<1>2. CASE Windows
  <2> DEFINE u == normalizeLineEndingsToLF(t)
             v == AsWritten(u)
  <2>1. u = [t EXCEPT !.eol = "lf"] /\ u.eol = "lf"
    BY DEF normalizeLineEndingsToLF, Texts
  <2>2. v = [t EXCEPT !.eol = "crlf"] /\ v.eol = "crlf"
    BY <1>2, <2>1 DEF AsWritten, Texts
  <2>3. normalizeLineEndingsToLF(v) = [t EXCEPT !.eol = "lf"]
    BY <2>2 DEF normalizeLineEndingsToLF, Texts
  <2>4. prepareWriteContentsForClient(t) = u
    BY <1>2 DEF prepareWriteContentsForClient
  <2> QED
    BY <2>1, <2>3, <2>4 DEF SameText
<1> QED
  BY <1>1, <1>2

LEMMA NewTexts ==
    ASSUME NEW c \in Calls
    PROVE  /\ WrittenBy(c) \in Texts
           /\ SameText(WrittenBy(c), AsWritten(prepareWriteContentsForClient(WrittenBy(c))))
<1>1. WrittenBy(c) \in Texts /\ WrittenBy(c).eol \in {"lf", "crlf"}
  BY EolAssumption DEF WrittenBy, Texts, Eols
<1> QED
  BY <1>1, SmallTexts

LEMMA CallTypes ==
    ASSUME TypeInv, NEW c \in Calls
    PROVE  /\ call[c] \in Records /\ call[c].path \in Paths /\ FileOf(c) \in Files
           /\ call[c].after \in Texts /\ disk[FileOf(c)] \in Texts
           /\ call[c].tool \in {"PatchEdit", "Write"}
           /\ call[c].step \in Steps /\ call[c].verdict \in Verdicts
BY DEF TypeInv, Records, Files, FileOf

(* On a file that is not mixed one call is in flight.                      *)
LEMMA OnePending ==
    ASSUME EditInv, OneSpelling, NEW c \in Pending, NEW d \in Pending,
           FileOf(c) = FileOf(d), FileOf(c) \notin mixed
    PROVE  c = d
<1>1. c \in Calls /\ d \in Calls /\ TypeInv /\ AloneInv /\ QueueInv
  BY DEF Pending, EditInv
<1>2. /\ call[c].path \in Paths /\ call[d].path \in Paths /\ FileOf(c) \in Files
  BY <1>1, CallTypes
<1>3. call[c].path = call[d].path
  BY <1>2 DEF OneSpelling, FileOf
<1>4. c \in Busy(FileOf(c)) /\ d \in Busy(FileOf(c))
  BY <1>1 DEF Busy, Pending
<1>5. SUFFICES ASSUME c # d PROVE FALSE
  OBVIOUS
<1>6. call[c].tool = "PatchEdit" /\ call[d].tool = "PatchEdit"
  BY <1>1, <1>2, <1>4, <1>5 DEF AloneInv
<1> QED
  BY <1>1, <1>2, <1>3, <1>5, <1>6 DEF QueueInv, InFlight

-----------------------------------------------------------------------------
(* A call begins: it reads the file, waits in the queue, or ends at once.  *)
Untold(y) == y.verdict \in {"none", "failed"} /\ (y.verdict # "none" <=> y.step = "done")

Begins(c, y) ==
    /\ c \in Calls /\ Next1(c)
    /\ y \in Records /\ y.turn = turn /\ Untold(y)
    /\ call' = [call EXCEPT ![c] = y]
    /\ UNCHANGED <<disk, answers, turn>>
    /\ mixed \subseteq mixed' /\ mixed' \subseteq Files
    /\ y.step # "done" =>
          \A d \in Busy(FileAt[y.path]) :
              d # c /\ "Write" \in {y.tool, call[d].tool} => FileAt[y.path] \in mixed'
    /\ \/ /\ y.step = "queued" /\ y.tool = "PatchEdit"
          /\ \E d \in Calls : InFlight(d, y.path)
          /\ queue' = [queue EXCEPT ![y.path] = Append(queue[y.path], c)]
          /\ UNCHANGED asked
       \/ /\ y.step = "read"
          /\ y.tool = "PatchEdit" => ~ \E d \in Calls : InFlight(d, y.path)
          /\ \E r \in Requests : /\ r.call = c /\ r.step = "read" /\ r.turn = turn /\ r.path = y.path
                                 /\ asked' = asked \cup {r}
          /\ UNCHANGED queue
       \/ y.step = "done" /\ UNCHANGED <<queue, asked>>

LEMMA NewRecords ==
    ASSUME TypeInv, NEW p \in Paths, NEW tool \in {"PatchEdit", "Write"}
    PROVE  LET x == Record(tool, p)
           IN  /\ x \in Records /\ x.tool = tool /\ x.path = p /\ x.turn = turn
               /\ x.verdict = "none"
<1> DEFINE x == Record(tool, p)
<1> DEFINE q == CHOOSE r \in Paths : TRUE
<1>1. Untouched = [tool |-> "PatchEdit", path |-> q, turn |-> 0, step |-> "new",
                   after |-> Empty, verdict |-> "none"]
  BY DEF Untouched
<1>2. Empty \in Texts /\ turn \in 0 .. MaxTurns /\ 0 \in 0 .. MaxTurns /\ q \in Paths
  BY BoundsAssumption DEF Empty, Texts, Eols, TypeInv
<1> HIDE DEF q
<1>3. "new" \in Steps /\ "none" \in Verdicts /\ "failed" \in Verdicts
  BY DEF Steps, Verdicts
<1>4. Untouched \in Records
  BY <1>1, <1>2, <1>3 DEF Records
<1>5. x = [Untouched EXCEPT !.tool = tool, !.path = p, !.turn = turn]
  BY DEF Record
<1> HIDE DEF x
<1>6. x \in Records
  BY <1>2, <1>4, <1>5, ZenonT(30) DEF Records
<1>7. x.tool = tool /\ x.path = p /\ x.turn = turn
  BY <1>1, <1>5, ZenonT(30)
<1>8. x.verdict = "none"
  BY <1>1, <1>5, ZenonT(30)
<1> QED
  BY <1>6, <1>7, <1>8 DEF x

LEMMA FirstRequests ==
    ASSUME TypeInv, NEW c \in Calls, NEW p \in Paths
    PROVE  LET r == [Request(c, "read", Empty) EXCEPT !.path = p, !.turn = turn]
           IN  r \in Requests /\ r.call = c /\ r.step = "read" /\ r.turn = turn /\ r.path = p
<1>1. Empty \in Texts /\ turn \in 0 .. MaxTurns
  BY BoundsAssumption DEF Empty, Texts, Eols, TypeInv
<1> DEFINE u == Request(c, "read", Empty)
           r == [u EXCEPT !.path = p, !.turn = turn]
<1>2. u = [call |-> c, turn |-> call[c].turn, step |-> "read",
           path |-> call[c].path, text |-> Empty]
  BY DEF Request
<1>3. u \in Requests
  BY <1>1, <1>2 DEF TypeInv, Records, Requests, Hidden
<1>4. r = [u EXCEPT !.path = p, !.turn = turn]
  OBVIOUS
<1> HIDE DEF u, r
<1>5. r \in Requests
  BY <1>1, <1>3, <1>4, ZenonT(30) DEF Requests
<1>6. r.call = c /\ r.step = "read" /\ r.turn = turn /\ r.path = p
  BY <1>2, <1>4, ZenonT(30)
<1> QED
  BY <1>5, <1>6 DEF u, r

LEMMA OverlapFacts ==
    ASSUME TypeInv, NEW c \in Calls, NEW tool, NEW p \in Paths, Overlap(c, tool, FileAt[p])
    PROVE  /\ mixed \subseteq mixed' /\ mixed' \subseteq Files
           /\ \A d \in Busy(FileAt[p]) :
                 d # c /\ "Write" \in {tool, call[d].tool} => FileAt[p] \in mixed'
BY DEF Overlap, TypeInv, Files

LEMMA PatchEditBegins ==
    ASSUME TypeInv, NEW c \in Calls, handlePatchEditToolInvocation(c)
    PROVE  \E y : Begins(c, y)
<1>1. PICK p \in Paths : startOrQueuePatchEditOperation(c, p) /\ Overlap(c, "PatchEdit", FileAt[p])
  BY DEF handlePatchEditToolInvocation
<1>2. Next1(c) /\ UNCHANGED <<disk, answers, turn>>
  BY DEF handlePatchEditToolInvocation
<1>3. patchEditPathHasInFlightOperation(p) <=> \E d \in Calls : InFlight(d, p)
  BY DEF patchEditPathHasInFlightOperation, InFlight, Pending
<1>4. CASE patchEditPathHasInFlightOperation(p)
  <2>1. PICK x, y : x = Record("PatchEdit", p) /\ y = [x EXCEPT !.step = "queued"]
    OBVIOUS
  <2>2. /\ x \in Records /\ x.tool = "PatchEdit" /\ x.path = p /\ x.turn = turn /\ x.verdict = "none"
    BY <2>1, NewRecords
  <2>3. /\ y \in Records /\ y.tool = "PatchEdit" /\ y.path = p /\ y.turn = turn
        /\ y.step = "queued" /\ y.verdict = "none"
    BY <2>1, <2>2 DEF Records, Steps
  <2>4. call' = [call EXCEPT ![c] = y] /\ queue' = [queue EXCEPT ![p] = Append(queue[p], c)] /\ asked' = asked
    BY <1>1, <1>4, <2>1 DEF startOrQueuePatchEditOperation
  <2> QED
    BY <1>1, <1>2, <1>3, <1>4, <2>3, <2>4, OverlapFacts DEF Begins, Untold
<1>5. CASE ~patchEditPathHasInFlightOperation(p)
  <2>1. PICK x, y, r : /\ x = Record("PatchEdit", p) /\ y = [x EXCEPT !.step = "read"]
                       /\ r = [Request(c, "read", Empty) EXCEPT !.path = p, !.turn = turn]
    OBVIOUS
  <2>2. /\ x \in Records /\ x.tool = "PatchEdit" /\ x.path = p /\ x.turn = turn /\ x.verdict = "none"
    BY <2>1, NewRecords
  <2>3. /\ y \in Records /\ y.tool = "PatchEdit" /\ y.path = p /\ y.turn = turn
        /\ y.step = "read" /\ y.verdict = "none"
    BY <2>1, <2>2 DEF Records, Steps
  <2>4. call' = [call EXCEPT ![c] = y] /\ asked' = asked \cup {r} /\ queue' = queue
    BY <1>1, <1>5, <2>1 DEF startOrQueuePatchEditOperation
  <2>5. r \in Requests /\ r.call = c /\ r.step = "read" /\ r.turn = turn /\ r.path = p
    BY <2>1, FirstRequests, TypeInv, p \in Paths, c \in Calls, Zenon
  <2> QED
    BY <1>1, <1>2, <1>3, <1>5, <2>3, <2>4, <2>5, OverlapFacts DEF Begins, Untold
<1> QED
  BY <1>4, <1>5

LEMMA WriteBegins ==
    ASSUME TypeInv, NEW c \in Calls, handleWriteToolInvocation(c)
    PROVE  \E y : Begins(c, y)
<1>1. PICK p \in Paths :
        /\ call' = [call EXCEPT ![c] = [Record("Write", p) EXCEPT !.step = "read"]]
        /\ asked' = asked \cup {[Request(c, "read", Empty) EXCEPT !.path = p, !.turn = turn]}
        /\ Overlap(c, "Write", FileAt[p])
  BY DEF handleWriteToolInvocation
<1>2. Next1(c) /\ UNCHANGED <<queue, disk, answers, turn>>
  BY DEF handleWriteToolInvocation
<1>3. PICK x, y, r : /\ x = Record("Write", p) /\ y = [x EXCEPT !.step = "read"]
                     /\ r = [Request(c, "read", Empty) EXCEPT !.path = p, !.turn = turn]
  OBVIOUS
<1>4. /\ x \in Records /\ x.tool = "Write" /\ x.path = p /\ x.turn = turn /\ x.verdict = "none"
  BY <1>3, NewRecords
<1>5. /\ y \in Records /\ y.tool = "Write" /\ y.path = p /\ y.turn = turn
      /\ y.step = "read" /\ y.verdict = "none"
  BY <1>3, <1>4 DEF Records, Steps, Verdicts
<1>6. r \in Requests /\ r.call = c /\ r.step = "read" /\ r.turn = turn /\ r.path = p
  BY <1>3, FirstRequests, TypeInv, p \in Paths, c \in Calls, Zenon
<1> QED
  BY <1>1, <1>2, <1>3, <1>5, <1>6, OverlapFacts DEF Begins, Untold

LEMMA MalformedBegins ==
    ASSUME TypeInv, Quirks = {}, NEW c \in Calls, MalformedPatchEdit(c)
    PROVE  \E y : Begins(c, y)
<1>1. PICK p \in Paths : /\ queue[p] = <<>>
                         /\ Finish(c, [Record("PatchEdit", p) EXCEPT !.verdict = "failed"])
  BY DEF MalformedPatchEdit
<1>2. Next1(c) /\ UNCHANGED <<disk, answers, turn, mixed>>
  BY DEF MalformedPatchEdit
<1>3. PICK w, x, y : /\ w = Record("PatchEdit", p) /\ x = [w EXCEPT !.verdict = "failed"]
                     /\ y = [w EXCEPT !.verdict = "failed", !.step = "done"]
                     /\ y = [x EXCEPT !.step = "done"]
  OBVIOUS
<1>4. /\ w \in Records /\ w.tool = "PatchEdit" /\ w.path = p /\ w.turn = turn /\ w.verdict = "none"
  BY <1>3, NewRecords
<1>5. /\ y \in Records /\ y.tool = "PatchEdit" /\ y.path = p /\ y.turn = turn
      /\ y.step = "done" /\ y.verdict = "failed"
  BY <1>3, <1>4 DEF Records, Steps, Verdicts
<1>6. x.path = p
  BY <1>3, <1>5
<1>7. takeNextQueuedPatchEditOperation(x) = {}
  BY <1>1, <1>6 DEF takeNextQueuedPatchEditOperation
<1>8. /\ call' = [d \in Calls |-> IF d = c THEN y ELSE call[d]]
      /\ queue' = [queue EXCEPT ![p] = queue[p]]
      /\ asked' = asked
  BY <1>1, <1>3, <1>6, <1>7 DEF Finish
<1>9. call' = [call EXCEPT ![c] = y] /\ queue' = queue
  BY <1>8 DEF TypeInv
<1> QED
  BY <1>2, <1>5, <1>8, <1>9 DEF Begins, Untold, TypeInv

LEMMA BeginsFacts ==
    ASSUME EditInv, NEW c, NEW y, Begins(c, y)
    PROVE  /\ c \in Calls /\ call'[c] = y
           /\ \A d \in Calls : d # c => call'[d] = call[d] /\ FileOf(d)' = FileOf(d)
           /\ FileOf(c)' = FileAt[y.path] /\ y.path \in Paths /\ FileAt[y.path] \in Files
           /\ call[c].step = "new" /\ call[c].verdict = "none" /\ call[c].tool = "PatchEdit"
           /\ \A d \in Calls : call[d].step # "new" <=> d < c
           /\ y.step \in {"read", "queued", "done"}
           /\ y.tool \in {"PatchEdit", "Write"}
<1>1. c \in Calls /\ call[c].step = "new" /\ call' = [call EXCEPT ![c] = y] /\ y \in Records
  BY DEF Begins, Next1
<1>2. call \in [Calls -> Records] /\ OrderInv
  BY DEF EditInv, TypeInv
<1>3. call'[c] = y /\ \A d \in Calls : d # c => call'[d] = call[d]
  BY <1>1, <1>2
<1>4. \A d \in Calls : d < c => call[d].step # "new"
  BY DEF Begins, Next1
<1>5. \A d \in Calls : call[d].step # "new" => d < c
  <2> SUFFICES ASSUME NEW d \in Calls, call[d].step # "new" PROVE d < c
    OBVIOUS
  <2>1. d # c /\ ~(c < d)
    BY <1>1, <1>2 DEF OrderInv
  <2> QED
    BY <1>1, <2>1, CallNumbers
<1>6. y.path \in Paths /\ y.tool \in {"PatchEdit", "Write"} /\ FileAt[y.path] \in Files
  BY <1>1 DEF Records, Files
<1>7. y.step \in {"read", "queued", "done"}
  BY DEF Begins
<1>8. call[c].verdict = "none" /\ call[c].tool = "PatchEdit"
  BY <1>1, <1>2 DEF OrderInv
<1> QED
  BY <1>1, <1>3, <1>4, <1>5, <1>6, <1>7, <1>8 DEF FileOf

LEMMA BeginsTypes ==
    ASSUME EditInv, NEW c, NEW y, Begins(c, y)
    PROVE  TypeInv'
<1>1. TypeInv /\ c \in Calls
  BY DEF EditInv, Begins
<1>2. call' \in [Calls -> Records] /\ disk' \in [Files -> Texts] /\ turn' \in 1 .. MaxTurns
      /\ mixed' \subseteq Files /\ answers' \subseteq Answers
  BY <1>1 DEF TypeInv, Begins
<1>3. asked' \subseteq Requests
  BY <1>1 DEF TypeInv, Begins
<1>4. queue' \in [Paths -> Seq(Calls)]
  <2>1. CASE queue' = queue
    BY <1>1, <2>1 DEF TypeInv
  <2>2. CASE queue' = [queue EXCEPT ![y.path] = Append(queue[y.path], c)]
    <3>1. y.path \in Paths
      BY BeginsFacts
    <3>2. queue[y.path] \in Seq(Calls)
      BY <1>1, <3>1 DEF TypeInv
    <3>3. Append(queue[y.path], c) \in Seq(Calls)
      BY <1>1, <3>2, AppendProperties
    <3> QED
      BY <1>1, <2>2, <3>3 DEF TypeInv
  <2> QED
    BY <2>1, <2>2 DEF Begins
<1> QED
  BY <1>2, <1>3, <1>4 DEF TypeInv

LEMMA BeginsOrder ==
    ASSUME EditInv, NEW c, NEW y, Begins(c, y)
    PROVE  OrderInv'
<1>1. OrderInv /\ Untold(y) /\ c \in Calls
  BY DEF EditInv, Begins
<1>2. \A d, e \in Calls : e < d /\ call'[d].step # "new" => call'[e].step # "new"
  <2> SUFFICES ASSUME NEW d \in Calls, NEW e \in Calls, e < d, call'[d].step # "new"
               PROVE  call'[e].step # "new"
    OBVIOUS
  <2>1. CASE d = c
    BY <1>1, <2>1, BeginsFacts
  <2>2. CASE d # c
    BY <1>1, <2>2, BeginsFacts DEF OrderInv
  <2> QED
    BY <2>1, <2>2
<1>3. \A d \in Calls : call'[d].verdict # "none" <=> call'[d].step = "done"
  BY <1>1, BeginsFacts DEF OrderInv, Untold
<1>4. \A d \in Calls : call'[d].step = "new" => call'[d].tool = "PatchEdit"
  BY <1>1, BeginsFacts DEF OrderInv
<1> QED
  BY <1>2, <1>3, <1>4 DEF OrderInv

(* Who is in flight, and who works on a file, after a call has begun.      *)
LEMMA BeginsBusy ==
    ASSUME EditInv, NEW c, NEW y, Begins(c, y)
    PROVE  /\ \A d \in Calls, p \in Paths :
                 InFlight(d, p)' <=> \/ d # c /\ InFlight(d, p)
                                     \/ d = c /\ y.step = "read" /\ y.tool = "PatchEdit" /\ y.path = p
           /\ \A d \in Calls : d # c => (d \in Pending' <=> d \in Pending)
           /\ c \notin Pending
           /\ \A f \in Files, d \in Calls :
                 d \in Busy(f)' <=> \/ d # c /\ d \in Busy(f)
                                    \/ d = c /\ y.step # "done" /\ f = FileAt[y.path]
           /\ \A f \in Files : c \notin Busy(f)
           /\ \A p \in Paths : ~InFlight(c, p)
<1>1. \A d \in Calls : d # c => (d \in Pending' <=> d \in Pending)
  BY BeginsFacts DEF Pending
<1>2. c \notin Pending /\ (c \in Pending' <=> y.step = "read")
  BY BeginsFacts DEF Pending, Hidden
<1>3. \A f \in Files : c \notin Busy(f)
  BY BeginsFacts DEF Busy, Hidden
<1>4. \A f \in Files : c \in Busy(f)' <=> y.step # "done" /\ f = FileAt[y.path]
  BY BeginsFacts DEF Busy, Hidden
<1>5. \A f \in Files, d \in Calls : d # c => (d \in Busy(f)' <=> d \in Busy(f))
  BY BeginsFacts DEF Busy
<1>6. \A p \in Paths : InFlight(c, p)' <=> y.step = "read" /\ y.tool = "PatchEdit" /\ y.path = p
  BY <1>2, BeginsFacts DEF InFlight
<1>7. \A d \in Calls, p \in Paths : d # c => (InFlight(d, p)' <=> InFlight(d, p))
  BY <1>1, BeginsFacts DEF InFlight
<1>8. \A p \in Paths : ~InFlight(c, p)
  BY <1>2 DEF InFlight
<1> QED
  BY <1>1, <1>2, <1>3, <1>4, <1>5, <1>6, <1>7, <1>8

(* A new call is in no queue, and comes after all that are.                *)
LEMMA BeginsBehind ==
    ASSUME EditInv, NEW c, NEW y, Begins(c, y)
    PROVE  /\ \A p \in Paths : \A i \in DOMAIN queue[p] : queue[p][i] \in Calls /\ queue[p][i] < c
           /\ \A p \in Paths : \A d \in Calls : InFlight(d, p) => d < c
<1>1. TypeInv /\ QueueInv
  BY DEF EditInv
<1>2. ASSUME NEW p \in Paths, NEW i \in DOMAIN queue[p]
      PROVE  queue[p][i] \in Calls /\ queue[p][i] < c
  <2>1. queue[p] \in Seq(Calls)
    BY <1>1 DEF TypeInv
  <2>2. queue[p][i] \in Calls
    BY <2>1
  <2>3. call[queue[p][i]].path = p
    BY <1>1 DEF QueueInv
  <2>4. call[queue[p][i]].step = "queued"
    BY <1>1, <2>2, <2>3 DEF QueueInv
  <2> QED
    BY <2>2, <2>4, BeginsFacts
<1>3. \A d \in Calls, p \in Paths : InFlight(d, p) => d < c
  BY BeginsFacts DEF InFlight, Pending, Hidden
<1> QED
  BY <1>2, <1>3

LEMMA BeginsQueues ==
    ASSUME EditInv, NEW c, NEW y, Begins(c, y)
    PROVE  QueueInv'
<1>1. TypeInv /\ QueueInv /\ c \in Calls /\ y.path \in Paths
  BY BeginsFacts DEF EditInv
<1>2. CASE y.step # "queued"
  <2>1. queue' = queue
    BY <1>2 DEF Begins
  <2>2. \A d \in Calls : call'[d].step = "queued" <=>
          \E i \in DOMAIN queue'[call'[d].path] : queue'[call'[d].path][i] = d
    <3>1. \A p \in Paths : \A i \in DOMAIN queue[p] : queue[p][i] # c
      BY <1>1, BeginsBehind, CallNumbers
    <3> QED
      BY <1>1, <1>2, <2>1, <3>1, BeginsFacts DEF QueueInv
  <2>3. ASSUME NEW p \in Paths
        PROVE  /\ \A i \in DOMAIN queue'[p] :
                     call'[queue'[p][i]].tool = "PatchEdit" /\ call'[queue'[p][i]].path = p
               /\ \A i, j \in DOMAIN queue'[p] : i < j => queue'[p][i] < queue'[p][j]
               /\ queue'[p] # <<>> => \E d \in Calls : InFlight(d, p)'
               /\ \A d, e \in Calls : InFlight(d, p)' /\ InFlight(e, p)' => d = e
               /\ \A d \in Calls : InFlight(d, p)' => \A i \in DOMAIN queue'[p] : d < queue'[p][i]
    <3>1. \A i \in DOMAIN queue[p] : queue[p][i] \in Calls /\ queue[p][i] # c
      BY <1>1, BeginsBehind, CallNumbers
    <3>2. \A i \in DOMAIN queue[p] : call'[queue[p][i]] = call[queue[p][i]]
      BY <3>1, BeginsFacts
    <3>3. InFlight(c, p)' => /\ queue[p] = <<>> /\ \A d \in Calls : ~InFlight(d, p)
      <4>1. SUFFICES ASSUME InFlight(c, p)' PROVE queue[p] = <<>> /\ \A d \in Calls : ~InFlight(d, p)
        OBVIOUS
      <4>2. y.step = "read" /\ y.tool = "PatchEdit" /\ y.path = p
        BY <1>1, <4>1, BeginsBusy
      <4>3. \A d \in Calls : ~InFlight(d, p)
        BY <4>2 DEF Begins
      <4> QED
        BY <1>1, <4>3 DEF QueueInv
    <3>4. queue[p] # <<>> => \E d \in Calls : InFlight(d, p)'
      BY <1>1, BeginsBusy DEF QueueInv
    <3>5. \A d, e \in Calls : InFlight(d, p)' /\ InFlight(e, p)' => d = e
      BY <1>1, <3>3, BeginsBusy DEF QueueInv
    <3>6. \A d \in Calls : InFlight(d, p)' => \A i \in DOMAIN queue[p] : d < queue[p][i]
      <4> SUFFICES ASSUME NEW d \in Calls, InFlight(d, p)', NEW i \in DOMAIN queue[p]
                   PROVE  d < queue[p][i]
        OBVIOUS
      <4>1. d # c
        <5>1. queue[p] # <<>>
          OBVIOUS
        <5> QED
          BY <3>3, <5>1
      <4>2. InFlight(d, p)
        BY <4>1, BeginsBusy
      <4> QED
        BY <1>1, <4>2 DEF QueueInv
    <3> QED
      BY <1>1, <2>1, <3>2, <3>4, <3>5, <3>6 DEF QueueInv
  <2> QED
    BY <2>2, <2>3 DEF QueueInv
<1>3. CASE y.step = "queued"
  <2> DEFINE q == queue[y.path]
             n == Len(q)
  <2>1. /\ queue' = [queue EXCEPT ![y.path] = Append(q, c)]
        /\ y.tool = "PatchEdit" /\ \E d \in Calls : InFlight(d, y.path)
    BY <1>3 DEF Begins
  <2>2. q \in Seq(Calls) /\ n \in Nat /\ DOMAIN q = 1 .. n
    BY <1>1, LenProperties DEF TypeInv
  <2>3. /\ queue'[y.path] = Append(q, c)
        /\ \A p \in Paths : p # y.path => queue'[p] = queue[p]
    BY <1>1, <2>1 DEF TypeInv
  <2>4. /\ Append(q, c) \in Seq(Calls) /\ Len(Append(q, c)) = n + 1
        /\ \A i \in 1 .. n : Append(q, c)[i] = q[i]
        /\ Append(q, c)[n + 1] = c
    BY <1>1, <2>2, AppendProperties
  <2>5. DOMAIN Append(q, c) = 1 .. n + 1
    BY <2>4, LenProperties
  <2> HIDE DEF q, n
  <2>6. \A i \in DOMAIN Append(q, c) : \/ i \in DOMAIN q /\ Append(q, c)[i] = q[i]
                                       \/ i = n + 1 /\ Append(q, c)[i] = c
    BY <2>2, <2>4, <2>5
  <2>7. /\ \A i \in DOMAIN q : i \in DOMAIN Append(q, c) /\ Append(q, c)[i] = q[i] /\ i < n + 1
        /\ n + 1 \in DOMAIN Append(q, c)
    BY <2>2, <2>4, <2>5
  <2>8. q = queue[y.path]
    BY DEF q
  <2>9. \A d \in Calls : call'[d].step = "queued" <=>
          \E i \in DOMAIN queue'[call'[d].path] : queue'[call'[d].path][i] = d
    <3> SUFFICES ASSUME NEW d \in Calls
                 PROVE  call'[d].step = "queued" <=>
                          \E i \in DOMAIN queue'[call'[d].path] : queue'[call'[d].path][i] = d
      OBVIOUS
    <3>1. CASE d = c
      BY <1>3, <2>3, <2>4, <2>7, <3>1, BeginsFacts
    <3>2. CASE d # c
      <4>1. call'[d] = call[d] /\ call[d].path \in Paths
        BY <1>1, <3>2, BeginsFacts, CallTypes
      <4>2. call[d].step = "queued" <=> \E i \in DOMAIN queue[call[d].path] : queue[call[d].path][i] = d
        BY <1>1 DEF QueueInv
      <4>3. CASE call[d].path = y.path
        BY <2>3, <2>6, <2>7, <2>8, <3>2, <4>1, <4>2, <4>3
      <4>4. CASE call[d].path # y.path
        BY <2>3, <4>1, <4>2, <4>4
      <4> QED
        BY <4>3, <4>4
    <3> QED
      BY <3>1, <3>2
  <2>10. \A p \in Paths, d \in Calls : InFlight(d, p)' <=> InFlight(d, p)
    BY <1>3, BeginsBusy
  <2>11. ASSUME NEW p \in Paths
         PROVE  /\ \A i \in DOMAIN queue'[p] :
                      call'[queue'[p][i]].tool = "PatchEdit" /\ call'[queue'[p][i]].path = p
                /\ \A i, j \in DOMAIN queue'[p] : i < j => queue'[p][i] < queue'[p][j]
                /\ queue'[p] # <<>> => \E d \in Calls : InFlight(d, p)'
                /\ \A d, e \in Calls : InFlight(d, p)' /\ InFlight(e, p)' => d = e
                /\ \A d \in Calls : InFlight(d, p)' => \A i \in DOMAIN queue'[p] : d < queue'[p][i]
    <3>1. /\ \A i \in DOMAIN queue[p] :
                /\ call'[queue[p][i]].tool = "PatchEdit" /\ call'[queue[p][i]].path = p
                /\ queue[p][i] \in Calls /\ queue[p][i] < c
      <4>1. \A i \in DOMAIN queue[p] : queue[p][i] \in Calls /\ queue[p][i] < c
        BY BeginsBehind
      <4>2. \A i \in DOMAIN queue[p] : queue[p][i] # c
        BY <4>1, <1>1, CallNumbers
      <4>3. \A i \in DOMAIN queue[p] : call'[queue[p][i]] = call[queue[p][i]]
        BY <4>1, <4>2, BeginsFacts
      <4> QED
        BY <1>1, <4>1, <4>3 DEF QueueInv
    <3>2. CASE p # y.path
      BY <1>1, <2>3, <2>10, <3>1, <3>2 DEF QueueInv
    <3>3. CASE p = y.path
      <4>1. queue'[p] = Append(q, c) /\ queue[p] = q
        BY <2>3, <2>8, <3>3
      <4>2. \A i \in DOMAIN Append(q, c) :
               call'[Append(q, c)[i]].tool = "PatchEdit" /\ call'[Append(q, c)[i]].path = p
        BY <2>1, <2>6, <3>1, <3>3, <4>1, BeginsFacts
      <4>3. \A i, j \in DOMAIN Append(q, c) : i < j => Append(q, c)[i] < Append(q, c)[j]
        <5> SUFFICES ASSUME NEW i \in DOMAIN Append(q, c), NEW j \in DOMAIN Append(q, c), i < j
                     PROVE  Append(q, c)[i] < Append(q, c)[j]
          OBVIOUS
        <5>1. i \in DOMAIN q
          BY <2>2, <2>5
        <5>2. CASE j \in DOMAIN q
          <6>1. q[i] < q[j]
            BY <1>1, <4>1, <5>1, <5>2 DEF QueueInv
          <6> QED
            BY <2>7, <5>1, <5>2, <6>1
        <5>3. CASE j \notin DOMAIN q
          <6>1. Append(q, c)[j] = c
            BY <2>6, <5>3
          <6> QED
            BY <2>7, <3>1, <4>1, <5>1, <6>1
        <5> QED
          BY <5>2, <5>3
      <4>4. \E d \in Calls : InFlight(d, p)'
        BY <2>1, <2>10, <3>3
      <4>5. \A d, e \in Calls : InFlight(d, p)' /\ InFlight(e, p)' => d = e
        BY <1>1, <2>10 DEF QueueInv
      <4>6. \A d \in Calls : InFlight(d, p)' =>
              \A i \in DOMAIN Append(q, c) : d < Append(q, c)[i]
        <5> SUFFICES ASSUME NEW d \in Calls, InFlight(d, p)', NEW i \in DOMAIN Append(q, c)
                     PROVE  d < Append(q, c)[i]
          OBVIOUS
        <5>1. InFlight(d, p)
          BY <2>10
        <5>2. d < c
          BY <5>1, BeginsBehind
        <5>3. \A k \in DOMAIN q : d < q[k]
          BY <1>1, <4>1, <5>1 DEF QueueInv
        <5> QED
          BY <2>6, <5>2, <5>3
      <4> QED
        BY <4>1, <4>2, <4>3, <4>4, <4>5, <4>6
    <3> QED
      BY <3>2, <3>3
  <2> QED
    BY <2>9, <2>11 DEF QueueInv
<1> QED
  BY <1>2, <1>3

LEMMA BeginsMessages ==
    ASSUME EditInv, NEW c, NEW y, Begins(c, y)
    PROVE  TokenInv' /\ SentInv' /\ AfterInv'
<1>1. TypeInv /\ TokenInv /\ SentInv /\ AfterInv /\ c \in Calls
  BY DEF EditInv, Begins
<1>2. \A r \in asked : r.call \in Calls /\ r.step \in Hidden
  BY <1>1 DEF TypeInv, Requests
<1>3. \A a \in answers : a.call \in Calls /\ a.step \in Hidden
  BY <1>1 DEF TypeInv, Answers
<1>4. \A r \in asked : r.call # c
  BY <1>1, <1>2, BeginsFacts DEF TokenInv, Hidden
<1>5. \A a \in answers : a.call # c
  BY <1>1, <1>3, BeginsFacts DEF TokenInv, Hidden
<1>6. \A r \in asked : call'[r.call] = call[r.call]
  BY <1>2, <1>4, BeginsFacts
<1>7. \A a \in answers : call'[a.call] = call[a.call]
  BY <1>3, <1>5, BeginsFacts
<1> DEFINE N == asked' \ asked
<1>8. /\ asked' = asked \cup N
      /\ \A r \in N : /\ r.call = c /\ r.step = "read" /\ r.step = y.step
                      /\ r.turn = y.turn /\ r.path = y.path
      /\ \A r, s \in N : r = s
  <2>1. CASE asked' = asked
    BY <2>1
  <2>2. CASE y.step = "read"
    <3>1. PICK r \in Requests : /\ r.call = c /\ r.step = "read" /\ r.turn = turn /\ r.path = y.path
                                /\ asked' = asked \cup {r}
      BY <2>2 DEF Begins
    <3>2. y.turn = turn
      BY DEF Begins
    <3>3. N \subseteq {r} /\ asked' = asked \cup N
      BY <3>1
    <3> HIDE DEF N
    <3> QED
      BY <2>2, <3>1, <3>2, <3>3
  <2> QED
    BY <2>1, <2>2 DEF Begins
<1> HIDE DEF N
<1>9. TokenInv'
  <2>1. \A r \in asked' : /\ r.step = call'[r.call].step /\ r.turn = call'[r.call].turn
                          /\ r.path = call'[r.call].path
    <3>1. call'[c] = y
      BY BeginsFacts
    <3> QED
      BY <1>1, <1>6, <1>8, <3>1 DEF TokenInv
  <2>2. answers' = answers
    BY DEF Begins
  <2>3. \A a \in answers' : /\ call'[a.call].step \in {a.step, "dropped"}
                            /\ a.turn = call'[a.call].turn /\ a.path = call'[a.call].path
    BY <1>1, <1>7, <2>2 DEF TokenInv
  <2>4. \A r, s \in asked' : r.call = s.call => r = s
    BY <1>1, <1>4, <1>8 DEF TokenInv
  <2>5. /\ \A a, b \in answers' : a.call = b.call => a = b
        /\ \A r \in asked', a \in answers' : r.call # a.call
    BY <1>1, <1>5, <1>8, <2>2 DEF TokenInv
  <2> QED
    BY <2>1, <2>3, <2>4, <2>5 DEF TokenInv
<1>10. SentInv'
  <2>1. \A r \in asked' : r.step = "write" => r \in asked
    BY <1>8
  <2>2. \A r \in asked : Sent(r.call)' = Sent(r.call)
    BY <1>6 DEF Sent
  <2> QED
    BY <1>1, <2>1, <2>2 DEF SentInv
<1>11. AfterInv'
  <2> SUFFICES ASSUME NEW d \in Calls, call'[d].step = "write"
               PROVE  IF call'[d].tool = "PatchEdit"
                      THEN call'[d].after.base = Original /\ d \in call'[d].after.edits
                      ELSE call'[d].after = WrittenBy(d)
    BY DEF AfterInv
  <2>1. d # c
    BY BeginsFacts
  <2>2. call'[d] = call[d]
    BY <2>1, BeginsFacts
  <2> QED
    BY <1>1, <2>2 DEF AfterInv
<1> QED
  BY <1>9, <1>10, <1>11

LEMMA BeginsAlone ==
    ASSUME EditInv, NEW c, NEW y, Begins(c, y)
    PROVE  AloneInv'
<1> SUFFICES ASSUME NEW f \in Files, f \notin mixed', NEW d \in Busy(f)', NEW e \in Busy(f)', d # e
             PROVE  call'[d].tool = "PatchEdit" /\ call'[e].tool = "PatchEdit"
  BY DEF AloneInv
<1>1. f \notin mixed /\ AloneInv
  BY DEF Begins, EditInv
<1>2. d \in Calls /\ e \in Calls
  BY DEF Busy
<1>3. ASSUME NEW b \in Busy(f), b # c, c \in Busy(f)'
      PROVE  y.tool = "PatchEdit" /\ call[b].tool = "PatchEdit"
  <2>1. f = FileAt[y.path] /\ y.step # "done"
    BY <1>3, BeginsFacts, BeginsBusy
  <2>2. "Write" \notin {y.tool, call[b].tool}
    BY <1>3, <2>1 DEF Begins
  <2>3. y.tool \in {"PatchEdit", "Write"} /\ call[b].tool \in {"PatchEdit", "Write"}
    BY BeginsFacts, CallTypes DEF Busy, EditInv
  <2> QED
    BY <2>2, <2>3
<1>4. CASE d # c /\ e # c
  BY <1>1, <1>2, <1>4, BeginsFacts, BeginsBusy DEF AloneInv
<1>5. CASE d = c
  BY <1>2, <1>3, <1>5, BeginsFacts, BeginsBusy
<1>6. CASE e = c
  BY <1>2, <1>3, <1>6, BeginsFacts, BeginsBusy
<1> QED
  BY <1>4, <1>5, <1>6

LEMMA BeginsSucceeded ==
    ASSUME EditInv, NEW c, NEW y, Begins(c, y)
    PROVE  \A d \in Calls, f \in Files : Succeeded(d, f)' <=> Succeeded(d, f) /\ d < c
<1>1. \A d \in Calls : d # c => \A f \in Files : Succeeded(d, f)' <=> Succeeded(d, f)
  BY BeginsFacts DEF Succeeded
<1>2. \A f \in Files : ~Succeeded(c, f)' /\ ~Succeeded(c, f)
  BY BeginsFacts DEF Succeeded, Begins, Untold
<1>3. \A d \in Calls : call[d].verdict = "success" => d < c
  <2>1. \A d \in Calls : call[d].verdict = "success" => call[d].step # "new"
    BY DEF EditInv, OrderInv
  <2> QED
    BY <2>1, BeginsFacts
<1> QED
  BY <1>1, <1>2, <1>3, BeginsFacts DEF Succeeded

LEMMA BeginsDisk ==
    ASSUME EditInv, NEW c, NEW y, Begins(c, y)
    PROVE  DiskInv'
<1>1. DiskInv /\ TypeInv /\ disk' = disk /\ mixed \subseteq mixed' /\ c \in Calls
  BY DEF EditInv, Begins
<1> SUFFICES ASSUME NEW f \in Files
             PROVE  /\ disk[f].base \in Calls => /\ call'[disk[f].base].tool = "Write"
                                                 /\ FileOf(disk[f].base)' = f
                                                 /\ call'[disk[f].base].step # "new"
                    /\ f \notin mixed' =>
                          /\ \A d \in Calls : Succeeded(d, f)' =>
                                d \in disk[f].edits \/ (disk[f].base \in Calls /\ disk[f].base > d)
                          /\ disk[f].base \in Calls => \A d \in Busy(f)' : disk[f].base <= d
  BY <1>1 DEF DiskInv
<1>2. disk[f].base \in Calls => disk[f].base < c /\ disk[f].base # c
  BY <1>1, BeginsFacts DEF DiskInv
<1>3. disk[f].base \in Calls => /\ call'[disk[f].base].tool = "Write"
                                /\ FileOf(disk[f].base)' = f
                                /\ call'[disk[f].base].step # "new"
  BY <1>1, <1>2, BeginsFacts DEF DiskInv
<1>4. ASSUME f \notin mixed'
      PROVE  \A d \in Calls : Succeeded(d, f)' =>
                d \in disk[f].edits \/ (disk[f].base \in Calls /\ disk[f].base > d)
  BY <1>1, <1>4, BeginsSucceeded DEF DiskInv
<1>5. ASSUME f \notin mixed', disk[f].base \in Calls, NEW d \in Busy(f)'
      PROVE  disk[f].base <= d
  <2>1. d \in Calls /\ f \notin mixed
    BY <1>1, <1>5 DEF Busy
  <2>2. CASE d # c
    BY <1>1, <1>5, <2>1, <2>2, BeginsBusy DEF DiskInv
  <2>3. CASE d = c
    BY <1>1, <1>2, <1>5, <2>3, CallNumbers
  <2> QED
    BY <2>2, <2>3
<1> QED
  BY <1>3, <1>4, <1>5

LEMMA BeginsChains ==
    ASSUME EditInv, NEW c, NEW y, Begins(c, y)
    PROVE  ChainInv'
<1>1. ChainInv /\ TypeInv /\ disk' = disk /\ mixed \subseteq mixed' /\ c \in Calls
  BY DEF EditInv, Begins
<1> SUFFICES ASSUME NEW d \in Calls, d \in Pending', FileOf(d)' \notin mixed'
             PROVE  Chain(d)'
  BY DEF ChainInv, Chain
<1>2. CASE d # c
  <2>1. call'[d] = call[d] /\ FileOf(d)' = FileOf(d) /\ d \in Pending /\ FileOf(d) \notin mixed
    BY <1>1, <1>2, BeginsFacts, BeginsBusy
  <2>2. PICK f \in Files : f = FileOf(d)
    BY <1>1, CallTypes
  <2>3. \A e \in Calls : Succeeded(e, f)' => Succeeded(e, f)
    BY BeginsSucceeded
  <2>4. Chain(d)
    BY <1>1 DEF ChainInv
  <2>5. FileOf(d)' = f
    BY <2>1, <2>2
  <2>6. /\ call[d].tool = "Write" => \A e \in Calls : Succeeded(e, f) => e < d
        /\ call[d].tool = "PatchEdit" /\ call[d].step = "write" =>
              \A e \in Calls : Succeeded(e, f) => e \in call[d].after.edits
        /\ call[d].step = "post_read" =>
              /\ SameText(call[d].after, disk[f])
              /\ call[d].tool = "PatchEdit" => d \in disk[f].edits
    BY <2>1, <2>2, <2>4 DEF Chain
  <2>7. \A e \in Calls : Succeeded(e, FileOf(d))' <=> Succeeded(e, f)'
    BY <2>5 DEF Succeeded
  <2> QED
    BY <1>1, <2>1, <2>3, <2>5, <2>6, <2>7 DEF Chain
<1>3. CASE d = c
  <2>1. FileOf(c)' = FileAt[y.path] /\ FileAt[y.path] \in Files /\ call'[c] = y
        /\ y.step \notin {"write", "post_read"}
    BY BeginsFacts
  <2>2. PICK f \in Files : f = FileAt[y.path]
    BY <2>1
  <2>3. \A e \in Calls : Succeeded(e, f)' => e < c
    BY BeginsSucceeded
  <2>4. \A e \in Calls : Succeeded(e, FileOf(c))' <=> Succeeded(e, f)'
    BY <2>1, <2>2 DEF Succeeded
  <2> QED
    BY <1>3, <2>1, <2>3, <2>4 DEF Chain
<1> QED
  BY <1>2, <1>3

LEMMA BeginsHeard ==
    ASSUME EditInv, NEW c, NEW y, Begins(c, y)
    PROVE  HeardInv'
<1>1. HeardInv /\ TypeInv /\ TokenInv /\ disk' = disk /\ mixed \subseteq mixed' /\ answers' = answers
  BY DEF EditInv, Begins
<1> SUFFICES ASSUME NEW a \in answers PROVE Heard(a)'
  BY <1>1 DEF HeardInv
<1>2. a.call \in Calls /\ a.step \in Hidden
  BY <1>1 DEF TypeInv, Answers
<1>3. a.call # c
  BY <1>1, <1>2, BeginsFacts DEF TokenInv, Hidden
<1>4. call'[a.call] = call[a.call] /\ FileOf(a.call)' = FileOf(a.call)
  BY <1>2, <1>3, BeginsFacts
<1>5. Sent(a.call)' = Sent(a.call)
  BY <1>4 DEF Sent
<1>6. Heard(a)
  BY <1>1 DEF HeardInv
<1> QED
  BY <1>1, <1>4, <1>5, <1>6 DEF Heard

LEMMA BeginsMissed ==
    ASSUME EditInv, NEW c, NEW y, Begins(c, y)
    PROVE  MissedInv'
<1>1. MissedInv /\ OrderInv /\ mixed \subseteq mixed' /\ c \in Calls
  BY DEF EditInv, Begins
<1> SUFFICES ASSUME NEW d \in Calls, call'[d].verdict = "not_found", FileOf(d)' \notin mixed'
             PROVE  Excused(d)'
  BY DEF MissedInv
<1>2. d # c
  <2>1. y.verdict # "not_found"
    BY DEF Begins, Untold
  <2> QED
    BY <2>1, BeginsFacts
<1>3. call'[d] = call[d] /\ FileOf(d)' = FileOf(d)
  BY <1>2, BeginsFacts
<1>4. Excused(d)
  BY <1>1, <1>3 DEF MissedInv
<1>5. \A w \in Calls : call[w].tool = "Write" \/ call[w].verdict # "none" \/ call[w].step = "dropped" => w # c
  BY BeginsFacts
<1>6. Needs[d] \subseteq Calls
  BY NeedsAssumption
<1> QED
  BY <1>3, <1>4, <1>5, <1>6, BeginsFacts DEF Excused

LEMMA BeginsKeeps ==
    ASSUME EditInv, NEW c, NEW y, Begins(c, y)
    PROVE  EditInv'
BY BeginsTypes, BeginsOrder, BeginsQueues, BeginsMessages, BeginsAlone, BeginsDisk, BeginsChains,
   BeginsHeard, BeginsMissed DEF EditInv

-----------------------------------------------------------------------------
(* What every other step keeps of a call.                                  *)
Kept ==
    \A d \in Calls :
        /\ call'[d].tool = call[d].tool /\ call'[d].path = call[d].path /\ call'[d].turn = call[d].turn
        /\ call'[d].step = "new" <=> call[d].step = "new"
        /\ call[d].step \in {"done", "dropped"} =>
              call'[d].step = call[d].step /\ call'[d].verdict = call[d].verdict
        /\ call'[d].step \in Hidden \cup {"queued"} => call[d].step \in Hidden \cup {"queued"}

LEMMA KeptFacts ==
    ASSUME EditInv, Kept, mixed' = mixed
    PROVE  /\ \A d \in Calls : FileOf(d)' = FileOf(d)
           /\ \A f \in Files : Busy(f)' \subseteq Busy(f)
           /\ AloneInv'
           /\ \A d \in Calls : Excused(d) => Excused(d)'
           /\ \A d \in Calls : call[d].verdict # "none" => call'[d].verdict = call[d].verdict
<1>1. \A d \in Calls : FileOf(d)' = FileOf(d)
  BY DEF Kept, FileOf
<1>2. \A f \in Files : Busy(f)' \subseteq Busy(f)
  BY <1>1 DEF Kept, Busy
<1>3. AloneInv'
  <2>1. AloneInv
    BY DEF EditInv
  <2>2. \A f \in Files : \A d \in Busy(f)' : d \in Calls
    BY DEF Busy
  <2>3. \A d \in Calls : call'[d].tool = call[d].tool
    BY DEF Kept
  <2> QED
    BY <1>2, <2>1, <2>2, <2>3 DEF AloneInv
<1>4. \A d \in Calls : call[d].verdict # "none" => call'[d].verdict = call[d].verdict
  BY DEF Kept, EditInv, OrderInv
<1>5. ASSUME NEW d \in Calls, Excused(d)
      PROVE  Excused(d)'
  <2>1. Needs[d] \subseteq Calls
    BY NeedsAssumption
  <2>2. \A n \in Calls : call[n].step = "dropped" => call'[n].step = "dropped"
    BY DEF Kept
  <2>3. \A w \in Calls : call'[w].tool = call[w].tool
    BY DEF Kept
  <2>4. CASE \E n \in Needs[d] : /\ FileOf(n) = FileOf(d)
                                 /\ (call[n].verdict \notin {"none", "success"} \/ call[n].step = "dropped")
    BY <1>1, <1>4, <2>1, <2>2, <2>4 DEF Excused
  <2>5. CASE \E w \in Calls : w < d /\ call[w].tool = "Write" /\ FileOf(w) = FileOf(d)
    BY <1>1, <2>3, <2>5 DEF Excused
  <2> QED
    BY <1>5, <2>4, <2>5 DEF Excused
<1> QED
  BY <1>1, <1>2, <1>3, <1>4, <1>5

(* A call goes on, from its read to its write or from there to its second  *)
(* read.                                                                   *)
Told(y) == IF y.tool = "PatchEdit" THEN preparePatchEditWriteContentsForClient(y.after)
           ELSE prepareWriteContentsForClient(y.after)

Knows(c, y) ==
    FileOf(c) \notin mixed => /\ SameText(y.after, disk[FileOf(c)])
                              /\ y.tool = "PatchEdit" => c \in disk[FileOf(c)].edits

Goes(c, y, a) ==
    /\ a \in answers /\ Is(c, a)
    /\ y \in Records /\ y.tool = call[c].tool /\ y.path = call[c].path /\ y.turn = call[c].turn
    /\ y.verdict = "none"
    /\ \/ /\ y.step = "write"
          /\ IF y.tool = "PatchEdit"
             THEN /\ y.after.base = Original /\ c \in y.after.edits
                  /\ FileOf(c) \notin mixed =>
                        \A d \in Calls : Succeeded(d, FileOf(c)) => d \in y.after.edits
             ELSE y.after = WrittenBy(c)
       \/ y.step = "post_read" /\ Knows(c, y)
    /\ call' = [call EXCEPT ![c] = y]
    /\ \E r \in Requests : /\ r.call = c /\ r.step = y.step /\ r.turn = y.turn /\ r.path = y.path
                           /\ r.step = "write" => r.text = Told(y)
                           /\ asked' = asked \cup {r}
    /\ UNCHANGED queue
    /\ Received(a)

LEMMA IsFacts ==
    ASSUME EditInv, NEW c, NEW a \in answers, Is(c, a)
    PROVE  /\ c \in Calls /\ c \in Pending /\ a.call = c /\ a.step = call[c].step
           /\ a.path = call[c].path /\ a.turn = call[c].turn
           /\ a.step \in Hidden /\ a.text \in Texts
           /\ \A r \in asked : r.call \in Calls /\ r.call # c
           /\ \A b \in answers \ {a} : b.call \in Calls /\ b.call # c
           /\ Heard(a)
<1>1. TypeInv /\ TokenInv /\ HeardInv
  BY DEF EditInv
<1>2. c \in Calls /\ c \in Pending /\ a.call = c /\ a.step = call[c].step /\ a.turn = call[c].turn
  BY DEF Is, Pending
<1>3. a.step \in Hidden /\ a.text \in Texts
  BY <1>1 DEF TypeInv, Answers
<1>4. a.path = call[c].path
  BY <1>1, <1>2 DEF TokenInv
<1>5. \A r \in asked : r.call \in Calls /\ r.call # c
  BY <1>1, <1>2 DEF TokenInv, TypeInv, Requests
<1>6. \A b \in answers \ {a} : b.call \in Calls /\ b.call # c
  BY <1>1, <1>2 DEF TokenInv, TypeInv, Answers
<1> QED
  BY <1>1, <1>2, <1>3, <1>4, <1>5, <1>6 DEF HeardInv

LEMMA GoesFacts ==
    ASSUME EditInv, NEW c, NEW y, NEW a, Goes(c, y, a)
    PROVE  /\ c \in Calls /\ c \in Pending /\ call'[c] = y
           /\ \A d \in Calls : d # c => call'[d] = call[d]
           /\ y \in Records /\ y.step \in {"write", "post_read"} /\ y.verdict = "none"
           /\ call[c].step \in Hidden /\ call[c].verdict = "none"
           /\ y.tool = call[c].tool /\ y.path = call[c].path /\ y.turn = call[c].turn
           /\ Kept
           /\ disk' = disk /\ mixed' = mixed /\ turn' = turn /\ answers' = answers \ {a}
           /\ a \in answers /\ Is(c, a)
<1>1. TypeInv /\ OrderInv /\ a \in answers /\ Is(c, a)
  BY DEF EditInv, Goes
<1>2. c \in Calls /\ c \in Pending
  BY <1>1, IsFacts
<1>3. call' = [call EXCEPT ![c] = y] /\ y \in Records
  BY DEF Goes
<1>4. call'[c] = y /\ \A d \in Calls : d # c => call'[d] = call[d]
  BY <1>1, <1>2, <1>3 DEF TypeInv
<1>5. call[c].step \in Hidden /\ call[c].verdict = "none"
  BY <1>1, <1>2 DEF Pending, Hidden, OrderInv
<1>6. y.step \in {"write", "post_read"} /\ y.verdict = "none"
      /\ y.tool = call[c].tool /\ y.path = call[c].path /\ y.turn = call[c].turn
  BY DEF Goes
<1>7. Kept
  BY <1>4, <1>5, <1>6 DEF Kept, Hidden
<1>8. disk' = disk /\ mixed' = mixed /\ turn' = turn /\ answers' = answers \ {a}
  BY DEF Goes, Received
<1> QED
  BY <1>1, <1>2, <1>3, <1>4, <1>5, <1>6, <1>7, <1>8

LEMMA GoesOrder ==
    ASSUME EditInv, NEW c, NEW y, NEW a, Goes(c, y, a)
    PROVE  TypeInv' /\ OrderInv' /\ QueueInv' /\ AloneInv' /\ MissedInv'
<1>1. TypeInv /\ OrderInv /\ QueueInv /\ MissedInv
  BY DEF EditInv
<1>2. call' = [call EXCEPT ![c] = y] /\ queue' = queue
  BY DEF Goes
<1>3. TypeInv'
  <2>1. asked' \subseteq Requests
    BY <1>1 DEF TypeInv, Goes
  <2>2. call' \in [Calls -> Records] /\ answers' \subseteq Answers
    BY <1>1, <1>2, GoesFacts DEF TypeInv
  <2>3. queue' \in [Paths -> Seq(Calls)] /\ disk' \in [Files -> Texts] /\ turn' \in 1 .. MaxTurns
        /\ mixed' \subseteq Files
    BY <1>1, <1>2, GoesFacts DEF TypeInv
  <2> QED
    BY <2>1, <2>2, <2>3 DEF TypeInv
<1>4. OrderInv'
  <2>1. \A d \in Calls : call'[d].step = "new" <=> call[d].step = "new"
    BY GoesFacts DEF Kept
  <2>2. \A d \in Calls : call'[d].verdict # "none" <=> call'[d].step = "done"
    BY <1>1, GoesFacts DEF OrderInv
  <2>3. \A d \in Calls : call'[d].tool = call[d].tool
    BY GoesFacts
  <2> QED
    BY <1>1, <2>1, <2>2, <2>3 DEF OrderInv
<1>5. QueueInv'
  <2>1. \A d \in Calls : /\ call'[d].step = "queued" <=> call[d].step = "queued"
                         /\ call'[d].tool = call[d].tool /\ call'[d].path = call[d].path
    BY GoesFacts DEF Hidden
  <2>2. \A d \in Calls : d \in Pending' <=> d \in Pending
    BY GoesFacts DEF Pending, Hidden
  <2>3. \A d \in Calls, p \in Paths : InFlight(d, p)' <=> InFlight(d, p)
    BY <2>1, <2>2 DEF InFlight
  <2>4. \A p \in Paths : \A i \in DOMAIN queue[p] : queue[p][i] \in Calls
    BY <1>1 DEF TypeInv
  <2>5. \A d \in Calls : call'[d].step = "queued" <=>
          \E i \in DOMAIN queue'[call'[d].path] : queue'[call'[d].path][i] = d
    BY <1>1, <1>2, <2>1 DEF QueueInv
  <2>6. ASSUME NEW p \in Paths
        PROVE  /\ \A i \in DOMAIN queue'[p] :
                     call'[queue'[p][i]].tool = "PatchEdit" /\ call'[queue'[p][i]].path = p
               /\ \A i, j \in DOMAIN queue'[p] : i < j => queue'[p][i] < queue'[p][j]
               /\ queue'[p] # <<>> => \E d \in Calls : InFlight(d, p)'
               /\ \A d, e \in Calls : InFlight(d, p)' /\ InFlight(e, p)' => d = e
               /\ \A d \in Calls : InFlight(d, p)' => \A i \in DOMAIN queue'[p] : d < queue'[p][i]
    <3>1. \A i \in DOMAIN queue[p] :
             call'[queue[p][i]].tool = "PatchEdit" /\ call'[queue[p][i]].path = p
      BY <1>1, <2>1, <2>4 DEF QueueInv
    <3>2. queue[p] # <<>> => \E d \in Calls : InFlight(d, p)'
      BY <1>1, <2>3 DEF QueueInv
    <3>3. \A d, e \in Calls : InFlight(d, p)' /\ InFlight(e, p)' => d = e
      BY <1>1, <2>3 DEF QueueInv
    <3>4. \A d \in Calls : InFlight(d, p)' => \A i \in DOMAIN queue[p] : d < queue[p][i]
      BY <1>1, <2>3 DEF QueueInv
    <3>5. \A i, j \in DOMAIN queue[p] : i < j => queue[p][i] < queue[p][j]
      BY <1>1 DEF QueueInv
    <3> QED
      BY <1>2, <3>1, <3>2, <3>3, <3>4, <3>5
  <2> QED
    BY <2>5, <2>6 DEF QueueInv
<1>6. AloneInv'
  BY GoesFacts, KeptFacts
<1>7. MissedInv'
  <2> SUFFICES ASSUME NEW d \in Calls, call'[d].verdict = "not_found", FileOf(d)' \notin mixed'
               PROVE  Excused(d)'
    BY DEF MissedInv
  <2>1. call[d].verdict = "not_found"
    BY GoesFacts
  <2>2. Excused(d)
    BY <1>1, <2>1, GoesFacts, KeptFacts DEF MissedInv
  <2> QED
    BY <2>2, GoesFacts, KeptFacts
<1> QED
  BY <1>3, <1>4, <1>5, <1>6, <1>7

LEMMA GoesMessages ==
    ASSUME EditInv, NEW c, NEW y, NEW a, Goes(c, y, a)
    PROVE  TokenInv' /\ SentInv' /\ AfterInv'
<1>1. TypeInv /\ TokenInv /\ SentInv /\ AfterInv /\ c \in Calls
  BY GoesFacts DEF EditInv
<1>2. /\ \A r \in asked : r.call \in Calls /\ r.call # c
      /\ \A b \in answers' : b \in answers /\ b.call \in Calls /\ b.call # c
  BY GoesFacts, IsFacts
<1>3. /\ \A r \in asked : call'[r.call] = call[r.call]
      /\ \A b \in answers' : call'[b.call] = call[b.call]
  BY <1>2, GoesFacts
<1>4. PICK r \in Requests : /\ r.call = c /\ r.step = y.step /\ r.turn = y.turn /\ r.path = y.path
                            /\ r.step = "write" => r.text = Told(y)
                            /\ asked' = asked \cup {r}
  BY DEF Goes
<1>5. call'[c] = y
  BY GoesFacts
<1>6. TokenInv'
  <2>1. \A s \in asked' : /\ s.step = call'[s.call].step /\ s.turn = call'[s.call].turn
                          /\ s.path = call'[s.call].path
    BY <1>1, <1>3, <1>4, <1>5 DEF TokenInv
  <2>2. \A b \in answers' : /\ call'[b.call].step \in {b.step, "dropped"}
                            /\ b.turn = call'[b.call].turn /\ b.path = call'[b.call].path
    BY <1>1, <1>2, <1>3 DEF TokenInv
  <2>3. \A s, t \in asked' : s.call = t.call => s = t
    BY <1>1, <1>2, <1>4 DEF TokenInv
  <2>4. /\ \A b, e \in answers' : b.call = e.call => b = e
        /\ \A s \in asked', b \in answers' : s.call # b.call
    BY <1>1, <1>2, <1>4 DEF TokenInv
  <2> QED
    BY <2>1, <2>2, <2>3, <2>4 DEF TokenInv
<1>7. SentInv'
  <2>1. \A s \in asked : Sent(s.call)' = Sent(s.call)
    BY <1>3 DEF Sent
  <2>2. Sent(c)' = Told(y)
    BY <1>5 DEF Sent, Told
  <2> QED
    BY <1>1, <1>4, <2>1, <2>2 DEF SentInv
<1>8. AfterInv'
  <2> SUFFICES ASSUME NEW d \in Calls, call'[d].step = "write"
               PROVE  IF call'[d].tool = "PatchEdit"
                      THEN call'[d].after.base = Original /\ d \in call'[d].after.edits
                      ELSE call'[d].after = WrittenBy(d)
    BY DEF AfterInv
  <2>1. CASE d # c
    <3>1. call'[d] = call[d]
      BY <2>1, GoesFacts
    <3> QED
      BY <1>1, <3>1 DEF AfterInv
  <2>2. CASE d = c
    <3>1. y.step = "write"
      BY <1>5, <2>2
    <3>2. IF y.tool = "PatchEdit" THEN y.after.base = Original /\ c \in y.after.edits
          ELSE y.after = WrittenBy(c)
      BY <3>1 DEF Goes
    <3> QED
      BY <1>5, <2>2, <3>2
  <2> QED
    BY <2>1, <2>2
<1> QED
  BY <1>6, <1>7, <1>8

LEMMA GoesDisk ==
    ASSUME EditInv, OneSpelling, NEW c, NEW y, NEW a, Goes(c, y, a)
    PROVE  DiskInv' /\ ChainInv' /\ HeardInv'
<1>1. DiskInv /\ ChainInv /\ HeardInv /\ TypeInv /\ c \in Calls
  BY GoesFacts DEF EditInv
<1>2. /\ \A d \in Calls : FileOf(d)' = FileOf(d)
      /\ \A f \in Files : Busy(f)' \subseteq Busy(f)
  BY GoesFacts, KeptFacts
<1>3. \A d \in Calls, f \in Files : Succeeded(d, f)' <=> Succeeded(d, f)
  BY <1>2, GoesFacts DEF Succeeded
<1>4. disk' = disk /\ mixed' = mixed /\ Kept
  BY GoesFacts
<1>5. DiskInv'
  BY <1>1, <1>2, <1>3, <1>4 DEF DiskInv, Kept
<1>6. ChainInv'
  <2> SUFFICES ASSUME NEW d \in Calls, d \in Pending', FileOf(d)' \notin mixed'
               PROVE  Chain(d)'
    BY DEF ChainInv, Chain
  <2>1. PICK f \in Files : f = FileOf(d)
    BY <1>1, CallTypes
  <2>2. FileOf(d)' = f /\ f \notin mixed
    BY <1>2, <1>4, <2>1
  <2>3. \A e \in Calls : Succeeded(e, FileOf(d))' <=> Succeeded(e, f)
    BY <1>3, <2>2 DEF Succeeded
  <2>4. Chain(d)
    BY <1>1 DEF ChainInv
  <2>5. CASE d # c
    <3>1. call'[d] = call[d] /\ d \in Pending
      BY <2>5, GoesFacts DEF Pending
    <3>2. /\ call[d].tool = "Write" => \A e \in Calls : Succeeded(e, f) => e < d
          /\ call[d].tool = "PatchEdit" /\ call[d].step = "write" =>
                \A e \in Calls : Succeeded(e, f) => e \in call[d].after.edits
          /\ call[d].step = "post_read" =>
                /\ SameText(call[d].after, disk[f])
                /\ call[d].tool = "PatchEdit" => d \in disk[f].edits
      BY <2>1, <2>2, <2>4, <3>1 DEF Chain
    <3> QED
      BY <1>4, <2>2, <2>3, <3>1, <3>2 DEF Chain
  <2>6. CASE d = c
    <3>1. call'[d] = y /\ d \in Pending /\ y.tool = call[d].tool
      BY <2>6, GoesFacts
    <3>2. y.tool = "Write" => \A e \in Calls : Succeeded(e, f) => e < d
      BY <2>1, <2>2, <2>4, <3>1 DEF Chain
    <3>3. y.tool = "PatchEdit" /\ y.step = "write" =>
             \A e \in Calls : Succeeded(e, f) => e \in y.after.edits
      BY <2>1, <2>2, <2>6 DEF Goes
    <3>4. y.step = "post_read" => /\ SameText(y.after, disk[f])
                                  /\ y.tool = "PatchEdit" => d \in disk[f].edits
      BY <2>1, <2>2, <2>6 DEF Goes, Knows
    <3> QED
      BY <1>4, <2>2, <2>3, <3>1, <3>2, <3>3, <3>4 DEF Chain
  <2> QED
    BY <2>5, <2>6
<1>7. HeardInv'
  <2> SUFFICES ASSUME NEW b \in answers' PROVE Heard(b)'
    BY DEF HeardInv
  <2>1. b \in answers /\ b.call \in Calls /\ b.call # c
    BY GoesFacts, IsFacts
  <2>2. call'[b.call] = call[b.call] /\ FileOf(b.call)' = FileOf(b.call)
    BY <1>2, <2>1, GoesFacts
  <2>3. Sent(b.call)' = Sent(b.call)
    BY <2>2 DEF Sent
  <2>4. Heard(b)
    BY <1>1, <2>1 DEF HeardInv
  <2> QED
    BY <1>4, <2>2, <2>3, <2>4 DEF Heard
<1> QED
  BY <1>5, <1>6, <1>7

LEMMA GoesKeeps ==
    ASSUME EditInv, OneSpelling, NEW c, NEW y, NEW a, Goes(c, y, a)
    PROVE  EditInv'
BY GoesOrder, GoesMessages, GoesDisk DEF EditInv

(* A call ends, and the edit at the head of its queue starts to read.      *)
Ends(c, y, a, next) ==
    /\ a \in answers /\ Is(c, a)
    /\ y \in Records /\ y.tool = call[c].tool /\ y.path = call[c].path /\ y.turn = call[c].turn
    /\ y.step = "done" /\ y.verdict # "none"
    /\ y.verdict = "success" => Knows(c, y)
    /\ y.verdict = "not_found" /\ FileOf(c) \notin mixed => Excused(c)
    /\ next = IF y.tool = "PatchEdit" /\ queue[y.path] # <<>> THEN {Head(queue[y.path])} ELSE {}
    /\ call' = [d \in Calls |-> IF d = c THEN y
                                ELSE IF d \in next THEN [call[d] EXCEPT !.step = "read"]
                                ELSE call[d]]
    /\ queue' = [queue EXCEPT ![y.path] = IF next = {} THEN queue[y.path] ELSE Tail(queue[y.path])]
    /\ asked' = asked \cup {Request(d, "read", Empty) : d \in next}
    /\ Received(a)

(* The call that starts, if one does: it was queued behind c.              *)
LEMMA EndsNext ==
    ASSUME EditInv, NEW c, NEW y, NEW a, NEW next, Ends(c, y, a, next)
    PROVE  /\ next \subseteq Calls
           /\ \A h \in next : /\ h # c /\ call[h].step = "queued" /\ call[h].verdict = "none"
                              /\ call[h].tool = "PatchEdit" /\ call[h].path = call[c].path
                              /\ call[c].tool = "PatchEdit"
                              /\ queue[call[c].path] # <<>> /\ queue[call[c].path][1] = h
           /\ \A g, h \in next : g = h
           /\ next = {} /\ call[c].tool = "PatchEdit" => queue[call[c].path] = <<>>
<1>1. TypeInv /\ QueueInv /\ OrderInv /\ a \in answers /\ Is(c, a)
  BY DEF EditInv, Ends
<1>2. c \in Calls /\ c \in Pending
  BY <1>1, IsFacts
<1>3. call[c].path \in Paths /\ call[c].tool = y.tool /\ call[c].path = y.path
  BY <1>1, <1>2, CallTypes DEF Ends
<1> DEFINE q == queue[call[c].path]
<1>4. next = IF call[c].tool = "PatchEdit" /\ q # <<>> THEN {Head(q)} ELSE {}
  BY <1>3 DEF Ends
<1>5. q \in Seq(Calls)
  BY <1>1, <1>3 DEF TypeInv
<1>6. ASSUME NEW h \in next
      PROVE  /\ h \in Calls /\ h # c /\ call[h].step = "queued" /\ call[h].verdict = "none"
             /\ call[h].tool = "PatchEdit" /\ call[h].path = call[c].path
             /\ call[c].tool = "PatchEdit" /\ q # <<>> /\ q[1] = h
  <2>1. call[c].tool = "PatchEdit" /\ q # <<>> /\ h = Head(q)
    BY <1>4, <1>6
  <2>2. 1 \in DOMAIN q /\ q[1] \in Calls /\ Head(q) = q[1]
    BY <1>5, <2>1, EmptySeq, LenProperties
  <2> HIDE DEF q
  <2>3. q = queue[call[c].path]
    BY DEF q
  <2>4. call[h].tool = "PatchEdit" /\ call[h].path = call[c].path
    BY <1>1, <1>3, <2>1, <2>2, <2>3 DEF QueueInv
  <2>5. call[h].step = "queued"
    BY <1>1, <2>1, <2>2, <2>3, <2>4 DEF QueueInv
  <2>6. h # c
    BY <1>2, <2>5 DEF Pending, Hidden
  <2>7. call[h].verdict = "none"
    BY <1>1, <2>1, <2>2, <2>5 DEF OrderInv
  <2> QED
    BY <2>1, <2>2, <2>4, <2>5, <2>6, <2>7
<1> QED
  BY <1>4, <1>6

LEMMA EndsFacts ==
    ASSUME EditInv, NEW c, NEW y, NEW a, NEW next, Ends(c, y, a, next)
    PROVE  /\ c \in Calls /\ c \in Pending /\ call'[c] = y
           /\ \A d \in Calls : d # c /\ d \notin next => call'[d] = call[d]
           /\ \A h \in next : /\ call'[h].step = "read" /\ call'[h].tool = call[h].tool
                              /\ call'[h].path = call[h].path /\ call'[h].turn = call[h].turn
                              /\ call'[h].verdict = "none" /\ call'[h] \in Records
           /\ y \in Records /\ y.step = "done" /\ y.verdict # "none"
           /\ call[c].step \in Hidden /\ call[c].verdict = "none"
           /\ y.tool = call[c].tool /\ y.path = call[c].path /\ y.turn = call[c].turn
           /\ Kept
           /\ disk' = disk /\ mixed' = mixed /\ turn' = turn /\ answers' = answers \ {a}
           /\ a \in answers /\ Is(c, a)
<1>1. TypeInv /\ OrderInv /\ a \in answers /\ Is(c, a)
  BY DEF EditInv, Ends
<1>2. c \in Calls /\ c \in Pending
  BY <1>1, IsFacts
<1>3. /\ y \in Records /\ y.step = "done" /\ y.verdict # "none"
      /\ y.tool = call[c].tool /\ y.path = call[c].path /\ y.turn = call[c].turn
  BY DEF Ends
<1>4. call' = [d \in Calls |-> IF d = c THEN y
                               ELSE IF d \in next THEN [call[d] EXCEPT !.step = "read"]
                               ELSE call[d]]
  BY DEF Ends
<1>5. call'[c] = y /\ \A d \in Calls : d # c /\ d \notin next => call'[d] = call[d]
  BY <1>2, <1>4
<1>6. ASSUME NEW h \in next
      PROVE  /\ call'[h].step = "read" /\ call'[h].tool = call[h].tool
             /\ call'[h].path = call[h].path /\ call'[h].turn = call[h].turn
             /\ call'[h].verdict = "none" /\ call'[h] \in Records
  <2>1. h \in Calls /\ h # c /\ call[h].verdict = "none"
    BY EndsNext
  <2>2. call'[h] = [call[h] EXCEPT !.step = "read"] /\ call[h] \in Records
    BY <1>1, <1>4, <2>1 DEF TypeInv
  <2>3. "read" \in Steps
    BY DEF Steps
  <2> QED
    BY <2>1, <2>2, <2>3 DEF Records
<1>7. call[c].step \in Hidden /\ call[c].verdict = "none"
  BY <1>1, <1>2 DEF Pending, Hidden, OrderInv
<1>8. Kept
  <2> SUFFICES ASSUME NEW d \in Calls
               PROVE  /\ call'[d].tool = call[d].tool /\ call'[d].path = call[d].path
                      /\ call'[d].turn = call[d].turn
                      /\ call'[d].step = "new" <=> call[d].step = "new"
                      /\ call[d].step \in {"done", "dropped"} =>
                            call'[d].step = call[d].step /\ call'[d].verdict = call[d].verdict
                      /\ call'[d].step \in Hidden \cup {"queued"} =>
                            call[d].step \in Hidden \cup {"queued"}
    BY DEF Kept
  <2>1. CASE d = c
    BY <1>3, <1>5, <1>7, <2>1 DEF Hidden
  <2>2. CASE d \in next
    <3>1. call[d].step = "queued"
      BY <2>2, EndsNext
    <3> QED
      BY <1>6, <2>2, <3>1
  <2>3. CASE d # c /\ d \notin next
    BY <1>5, <2>3
  <2> QED
    BY <2>1, <2>2, <2>3
<1>9. disk' = disk /\ mixed' = mixed /\ turn' = turn /\ answers' = answers \ {a}
  BY DEF Ends, Received
<1> QED
  BY <1>1, <1>2, <1>3, <1>5, <1>6, <1>7, <1>8, <1>9

LEMMA EndsTypes ==
    ASSUME EditInv, NEW c, NEW y, NEW a, NEW next, Ends(c, y, a, next)
    PROVE  TypeInv' /\ OrderInv' /\ AloneInv' /\ MissedInv'
<1>1. TypeInv /\ OrderInv /\ MissedInv /\ c \in Calls
  BY EndsFacts DEF EditInv
<1>2. TypeInv'
  <2>1. call' \in [Calls -> Records]
    <3>1. call' = [d \in Calls |-> call'[d]]
      BY DEF Ends
    <3>2. \A d \in Calls : call'[d] \in Records
      BY <1>1, EndsFacts DEF TypeInv
    <3> QED
      BY <3>1, <3>2
  <2>2. asked' \subseteq Requests
    <3>1. \A h \in next : Request(h, "read", Empty) \in Requests
      <4> SUFFICES ASSUME NEW h \in next PROVE Request(h, "read", Empty) \in Requests
        OBVIOUS
      <4>1. h \in Calls /\ Empty \in Texts /\ "read" \in Hidden
        BY EndsNext DEF Empty, Texts, Eols, Hidden
      <4> QED
        BY <1>1, <4>1 DEF Request, Requests, TypeInv, Records
    <3>2. asked' = asked \cup {Request(d, "read", Empty) : d \in next}
      BY DEF Ends
    <3> QED
      BY <1>1, <3>1, <3>2 DEF TypeInv
  <2>3. queue' \in [Paths -> Seq(Calls)]
    <3>1. y.path \in Paths
      BY <1>1, EndsFacts, CallTypes
    <3>2. queue[y.path] \in Seq(Calls)
      BY <1>1, <3>1 DEF TypeInv
    <3>3. CASE next = {}
      <4>1. queue' = [queue EXCEPT ![y.path] = queue[y.path]]
        BY <3>3 DEF Ends
      <4> QED
        BY <1>1, <3>1, <3>2, <4>1 DEF TypeInv
    <3>4. CASE next # {}
      <4>1. queue' = [queue EXCEPT ![y.path] = Tail(queue[y.path])]
        BY <3>4 DEF Ends
      <4>2. queue[y.path] # <<>>
        BY <3>4, EndsNext, EndsFacts
      <4>3. Tail(queue[y.path]) \in Seq(Calls)
        BY <3>2, <4>2, HeadTailProperties
      <4> QED
        BY <1>1, <3>1, <4>1, <4>3 DEF TypeInv
    <3> QED
      BY <3>3, <3>4
  <2>4. disk' \in [Files -> Texts] /\ turn' \in 1 .. MaxTurns /\ mixed' \subseteq Files
        /\ answers' \subseteq Answers
    BY <1>1, EndsFacts DEF TypeInv
  <2> QED
    BY <2>1, <2>2, <2>3, <2>4 DEF TypeInv
<1>3. OrderInv'
  <2>1. \A d \in Calls : (call'[d].step = "new" <=> call[d].step = "new") /\ call'[d].tool = call[d].tool
    BY EndsFacts DEF Kept
  <2>2. \A d \in Calls : call'[d].verdict # "none" <=> call'[d].step = "done"
    BY <1>1, EndsFacts DEF OrderInv
  <2> QED
    BY <1>1, <2>1, <2>2 DEF OrderInv
<1>4. AloneInv'
  BY EndsFacts, KeptFacts
<1>5. MissedInv'
  <2> SUFFICES ASSUME NEW d \in Calls, call'[d].verdict = "not_found", FileOf(d)' \notin mixed'
               PROVE  Excused(d)'
    BY DEF MissedInv
  <2>1. FileOf(d) \notin mixed
    BY EndsFacts, KeptFacts
  <2>2. CASE d = c
    <3>1. y.verdict = "not_found"
      BY <2>2, EndsFacts
    <3>2. Excused(c)
      BY <2>1, <2>2, <3>1 DEF Ends
    <3> QED
      BY <2>2, <3>2, EndsFacts, KeptFacts
  <2>3. CASE d # c
    <3>1. call[d].verdict = "not_found"
      BY <2>3, EndsFacts
    <3>2. Excused(d)
      BY <1>1, <2>1, <3>1 DEF MissedInv
    <3> QED
      BY <3>2, EndsFacts, KeptFacts
  <2> QED
    BY <2>2, <2>3
<1> QED
  BY <1>2, <1>3, <1>4, <1>5

LEMMA EndsFlight ==
    ASSUME EditInv, NEW c, NEW y, NEW a, NEW next, Ends(c, y, a, next)
    PROVE  /\ \A d \in Calls, p \in Paths :
                 InFlight(d, p)' <=> \/ d # c /\ InFlight(d, p)
                                     \/ d \in next /\ p = call[c].path
           /\ \A d \in Calls : call'[d].step = "queued" <=> call[d].step = "queued" /\ d \notin next
           /\ call[c].tool = "PatchEdit" => InFlight(c, call[c].path)
<1>1. c \in Calls /\ c \in Pending
  BY EndsFacts
<1>2. ASSUME NEW d \in Calls, NEW p \in Paths
      PROVE  InFlight(d, p)' <=> (d # c /\ InFlight(d, p)) \/ (d \in next /\ p = call[c].path)
  <2>1. CASE d = c
    <3>1. d \notin Pending' /\ d \notin next
      BY <2>1, EndsFacts, EndsNext DEF Pending, Hidden
    <3> QED
      BY <2>1, <3>1 DEF InFlight
  <2>2. CASE d \in next
    <3>1. d \in Pending' /\ call'[d].tool = "PatchEdit" /\ call'[d].path = call[c].path
      BY <2>2, EndsFacts, EndsNext DEF Pending, Hidden
    <3>2. d \notin Pending /\ d # c
      BY <2>2, EndsNext DEF Pending, Hidden
    <3> QED
      BY <2>2, <3>1, <3>2 DEF InFlight
  <2>3. CASE d # c /\ d \notin next
    BY <2>3, EndsFacts DEF InFlight, Pending
  <2> QED
    BY <2>1, <2>2, <2>3
<1>3. \A d \in Calls : call'[d].step = "queued" <=> call[d].step = "queued" /\ d \notin next
  BY EndsFacts DEF Hidden
<1> QED
  BY <1>1, <1>2, <1>3 DEF InFlight

LEMMA EndsQueues ==
    ASSUME EditInv, NEW c, NEW y, NEW a, NEW next, Ends(c, y, a, next)
    PROVE  QueueInv'
<1>1. TypeInv /\ QueueInv /\ c \in Calls /\ call[c].path \in Paths
  BY EndsFacts, CallTypes DEF EditInv
<1>2. PICK s \in Paths : s = call[c].path
  BY <1>1
<1>3. PICK q \in Seq(Calls) : q = queue[s]
  BY <1>1 DEF TypeInv
<1>4. \A d \in Calls : call'[d].tool = call[d].tool /\ call'[d].path = call[d].path /\ call[d].path \in Paths
  BY <1>1, EndsFacts, CallTypes DEF Kept
<1>5. \A p \in Paths : \A i \in DOMAIN queue[p] :
         /\ queue[p][i] \in Calls
         /\ call'[queue[p][i]].tool = "PatchEdit" /\ call'[queue[p][i]].path = p
  BY <1>1, <1>4 DEF QueueInv, TypeInv
<1>6. ASSUME NEW p \in Paths, next = {} \/ p # s
      PROVE  /\ queue'[p] = queue[p]
             /\ queue[p] # <<>> => \E d \in Calls : InFlight(d, p)'
             /\ \A d \in Calls : InFlight(d, p)' => InFlight(d, p)
  <2>1. queue'[p] = queue[p]
    <3>1. y.path = s
      BY <1>2, EndsFacts
    <3> QED
      BY <1>1, <1>6, <3>1 DEF Ends, TypeInv
  <2>2. \A d \in Calls : InFlight(d, p)' <=> d # c /\ InFlight(d, p)
    BY <1>2, <1>6, EndsFlight
  <2>3. ASSUME queue[p] # <<>>
        PROVE  \E d \in Calls : InFlight(d, p)'
    <3>1. PICK d \in Calls : InFlight(d, p)
      BY <1>1, <2>3 DEF QueueInv
    <3>2. d # c
      <4>1. SUFFICES ASSUME d = c PROVE FALSE
        OBVIOUS
      <4>2. p = s /\ call[c].tool = "PatchEdit"
        BY <1>2, <3>1, <4>1 DEF InFlight
      <4>3. queue[s] = <<>>
        BY <1>2, <1>6, <4>2, EndsNext
      <4> QED
        BY <2>3, <4>2, <4>3
    <3> QED
      BY <2>2, <3>1, <3>2
  <2> QED
    BY <2>1, <2>2, <2>3
<1>7. ASSUME NEW p \in Paths, next = {} \/ p # s
      PROVE  /\ \A i \in DOMAIN queue'[p] :
                   call'[queue'[p][i]].tool = "PatchEdit" /\ call'[queue'[p][i]].path = p
             /\ \A i, j \in DOMAIN queue'[p] : i < j => queue'[p][i] < queue'[p][j]
             /\ queue'[p] # <<>> => \E d \in Calls : InFlight(d, p)'
             /\ \A d, e \in Calls : InFlight(d, p)' /\ InFlight(e, p)' => d = e
             /\ \A d \in Calls : InFlight(d, p)' => \A i \in DOMAIN queue'[p] : d < queue'[p][i]
  <2>1. \A i, j \in DOMAIN queue[p] : i < j => queue[p][i] < queue[p][j]
    BY <1>1 DEF QueueInv
  <2>2. \A d, e \in Calls : InFlight(d, p)' /\ InFlight(e, p)' => d = e
    BY <1>1, <1>6, <1>7 DEF QueueInv
  <2>3. \A d \in Calls : InFlight(d, p)' => \A i \in DOMAIN queue[p] : d < queue[p][i]
    BY <1>1, <1>6, <1>7 DEF QueueInv
  <2> QED
    BY <1>5, <1>6, <1>7, <2>1, <2>2, <2>3
<1>8. CASE next = {}
  <2>1. queue' = queue
    <3>1. queue' \in [Paths -> Seq(Calls)]
      BY EndsTypes DEF TypeInv
    <3>2. queue \in [Paths -> Seq(Calls)] /\ \A p \in Paths : queue'[p] = queue[p]
      BY <1>1, <1>6, <1>8 DEF TypeInv
    <3> QED
      BY <3>1, <3>2
  <2>2. \A d \in Calls : call'[d].step = "queued" <=> call[d].step = "queued"
    BY <1>8, EndsFlight
  <2>3. \A d \in Calls : call'[d].step = "queued" <=>
          \E i \in DOMAIN queue'[call'[d].path] : queue'[call'[d].path][i] = d
    <3> SUFFICES ASSUME NEW d \in Calls
                 PROVE  call[d].step = "queued" <=>
                          \E i \in DOMAIN queue[call[d].path] : queue[call[d].path][i] = d
      BY <1>4, <2>1, <2>2
    <3> QED
      BY <1>1 DEF QueueInv
  <2> QED
    BY <1>7, <1>8, <2>3 DEF QueueInv
<1>9. CASE next # {}
  <2>1. PICK h \in next : next = {h}
    BY <1>9, EndsNext
  <2>2. h \in Calls /\ h # c /\ q # <<>> /\ q[1] = h /\ call[c].tool = "PatchEdit" /\ call[h].path = s
    BY <1>2, <1>3, EndsNext
  <2>3. PICK n \in Nat : n = Len(q)
    BY LenProperties
  <2>4. DOMAIN q = 1 .. n /\ n >= 1
    BY <2>2, <2>3, LenProperties, EmptySeq
  <2>5. PICK t \in Seq(Calls) : t = Tail(q)
    BY <2>2, HeadTailProperties
  <2>6. DOMAIN t = 1 .. (n - 1) /\ \A i \in 1 .. (n - 1) : t[i] = q[i + 1]
    <3>1. Len(t) = n - 1 /\ \A i \in 1 .. Len(t) : t[i] = q[i + 1]
      BY <2>2, <2>3, <2>5, HeadTailProperties
    <3> QED
      BY <3>1, LenProperties
  <2>7. queue'[s] = t
    <3>1. y.path = s
      BY <1>2, EndsFacts
    <3> QED
      BY <1>1, <1>3, <1>9, <2>5, <3>1 DEF Ends, TypeInv
  <2>8. \A i \in DOMAIN t : i + 1 \in DOMAIN q /\ t[i] = q[i + 1] /\ i \in Nat /\ 1 < i + 1
    BY <2>4, <2>6
  <2>9. \A j \in DOMAIN q : j # 1 => j - 1 \in DOMAIN t /\ t[j - 1] = q[j]
    <3> SUFFICES ASSUME NEW j \in DOMAIN q, j # 1 PROVE j - 1 \in DOMAIN t /\ t[j - 1] = q[j]
      OBVIOUS
    <3>1. j - 1 \in 1 .. (n - 1) /\ (j - 1) + 1 = j
      BY <2>4
    <3>2. t[j - 1] = q[(j - 1) + 1]
      BY <2>6, <3>1
    <3> QED
      BY <2>6, <3>1, <3>2
  <2>10. 1 \in DOMAIN q
    BY <2>4
  <2>11. \A i, j \in DOMAIN q : i < j => q[i] < q[j]
    BY <1>1, <1>3 DEF QueueInv
  <2>12. \A i \in DOMAIN q : q[i] \in Calls
    BY <1>3, <1>5
  <2>13. \A i \in DOMAIN t : h < t[i] /\ t[i] # h
    <3> SUFFICES ASSUME NEW i \in DOMAIN t PROVE h < t[i] /\ t[i] # h
      OBVIOUS
    <3>1. h < q[i + 1]
      BY <2>2, <2>8, <2>10, <2>11
    <3> QED
      BY <2>2, <2>8, <2>12, <3>1, CallNumbers
  <2>14. \A d \in Calls : call'[d].step = "queued" <=>
           \E i \in DOMAIN queue'[call'[d].path] : queue'[call'[d].path][i] = d
    <3> SUFFICES ASSUME NEW d \in Calls
                 PROVE  call'[d].step = "queued" <=>
                          \E i \in DOMAIN queue'[call[d].path] : queue'[call[d].path][i] = d
      BY <1>4
    <3>1. call'[d].step = "queued" <=> call[d].step = "queued" /\ d # h
      BY <2>1, EndsFlight
    <3>2. call[d].step = "queued" <=> \E i \in DOMAIN queue[call[d].path] : queue[call[d].path][i] = d
      BY <1>1 DEF QueueInv
    <3>3. CASE call[d].path # s
      BY <1>4, <1>6, <2>2, <3>1, <3>2, <3>3
    <3>4. CASE call[d].path = s
      <4>1. (\E i \in DOMAIN t : t[i] = d) => d # h /\ \E i \in DOMAIN q : q[i] = d
        BY <2>8, <2>13
      <4>2. d # h /\ (\E i \in DOMAIN q : q[i] = d) => \E i \in DOMAIN t : t[i] = d
        BY <2>2, <2>9
      <4> QED
        BY <1>3, <2>7, <3>1, <3>2, <3>4, <4>1, <4>2
    <3> QED
      BY <3>3, <3>4
  <2>15. /\ \A i \in DOMAIN t : call'[t[i]].tool = "PatchEdit" /\ call'[t[i]].path = s
         /\ \A i, j \in DOMAIN t : i < j => t[i] < t[j]
         /\ \E d \in Calls : InFlight(d, s)'
         /\ \A d, e \in Calls : InFlight(d, s)' /\ InFlight(e, s)' => d = e
         /\ \A d \in Calls : InFlight(d, s)' => \A i \in DOMAIN t : d < t[i]
    <3>1. \A d \in Calls : InFlight(d, s)' <=> d = h
      <4>1. \A d \in Calls : InFlight(d, s) => d = c
        BY <1>1, <1>2, <2>2, EndsFlight DEF QueueInv
      <4> QED
        BY <1>2, <2>1, <2>2, <4>1, EndsFlight
    <3>2. \A i \in DOMAIN t : call'[t[i]].tool = "PatchEdit" /\ call'[t[i]].path = s
      BY <1>3, <1>5, <2>8
    <3>3. \A i, j \in DOMAIN t : i < j => t[i] < t[j]
      <4> SUFFICES ASSUME NEW i \in DOMAIN t, NEW j \in DOMAIN t, i < j PROVE t[i] < t[j]
        OBVIOUS
      <4>1. i + 1 < j + 1
        BY <2>8
      <4>2. q[i + 1] < q[j + 1]
        BY <2>8, <2>11, <4>1
      <4> QED
        BY <2>8, <4>2
    <3> QED
      BY <2>2, <2>13, <3>1, <3>2, <3>3
  <2>16. ASSUME NEW p \in Paths
         PROVE  /\ \A i \in DOMAIN queue'[p] :
                      call'[queue'[p][i]].tool = "PatchEdit" /\ call'[queue'[p][i]].path = p
                /\ \A i, j \in DOMAIN queue'[p] : i < j => queue'[p][i] < queue'[p][j]
                /\ queue'[p] # <<>> => \E d \in Calls : InFlight(d, p)'
                /\ \A d, e \in Calls : InFlight(d, p)' /\ InFlight(e, p)' => d = e
                /\ \A d \in Calls : InFlight(d, p)' => \A i \in DOMAIN queue'[p] : d < queue'[p][i]
    <3>1. CASE p # s
      BY <1>7, <3>1
    <3>2. CASE p = s
      BY <2>7, <2>15, <3>2
    <3> QED
      BY <3>1, <3>2
  <2> QED
    BY <2>14, <2>16 DEF QueueInv
<1> QED
  BY <1>8, <1>9

LEMMA EndsMessages ==
    ASSUME EditInv, NEW c, NEW y, NEW a, NEW next, Ends(c, y, a, next)
    PROVE  TokenInv' /\ SentInv' /\ AfterInv'
<1>1. TypeInv /\ TokenInv /\ SentInv /\ AfterInv /\ c \in Calls
  BY EndsFacts DEF EditInv
<1>2. /\ \A r \in asked : r.call \in Calls /\ r.call # c /\ r.call \notin next
      /\ \A b \in answers' : b \in answers /\ b.call \in Calls /\ b.call # c /\ b.call \notin next
  <2>1. /\ \A r \in asked : r.call \in Calls /\ r.call # c
        /\ \A b \in answers' : b \in answers /\ b.call \in Calls /\ b.call # c
    BY EndsFacts, IsFacts
  <2>2. \A h \in next : call[h].step = "queued"
    BY EndsNext
  <2>3. \A r \in asked : call[r.call].step # "queued"
    BY <1>1 DEF TokenInv, TypeInv, Requests, Hidden
  <2>4. \A b \in answers : call[b.call].step # "queued"
    BY <1>1 DEF TokenInv, TypeInv, Answers, Hidden
  <2> QED
    BY <2>1, <2>2, <2>3, <2>4
<1>3. /\ \A r \in asked : call'[r.call] = call[r.call]
      /\ \A b \in answers' : call'[b.call] = call[b.call]
  BY <1>2, EndsFacts
<1> DEFINE R == {Request(h, "read", Empty) : h \in next}
<1>4. asked' = asked \cup R
  BY DEF Ends
<1>5. \A r \in R : /\ r.call \in next /\ r.step = "read" /\ r.turn = call[r.call].turn
                   /\ r.path = call[r.call].path
  BY DEF Request
<1>6. \A r, s \in R : r = s
  BY EndsNext
<1> HIDE DEF R
<1>7. \A h \in next : call'[h].step = "read" /\ call'[h].path = call[h].path /\ call'[h].turn = call[h].turn
  BY EndsFacts
<1>8. TokenInv'
  <2>1. \A s \in asked' : /\ s.step = call'[s.call].step /\ s.turn = call'[s.call].turn
                          /\ s.path = call'[s.call].path
    BY <1>1, <1>3, <1>4, <1>5, <1>7 DEF TokenInv
  <2>2. \A b \in answers' : /\ call'[b.call].step \in {b.step, "dropped"}
                            /\ b.turn = call'[b.call].turn /\ b.path = call'[b.call].path
    BY <1>1, <1>2, <1>3 DEF TokenInv
  <2>3. \A s, t \in asked' : s.call = t.call => s = t
    BY <1>1, <1>2, <1>4, <1>5, <1>6 DEF TokenInv
  <2>4. /\ \A b, e \in answers' : b.call = e.call => b = e
        /\ \A s \in asked', b \in answers' : s.call # b.call
    BY <1>1, <1>2, <1>4, <1>5 DEF TokenInv
  <2> QED
    BY <2>1, <2>2, <2>3, <2>4 DEF TokenInv
<1>9. SentInv'
  <2>1. \A s \in asked : Sent(s.call)' = Sent(s.call)
    BY <1>3 DEF Sent
  <2> QED
    BY <1>1, <1>4, <1>5, <2>1 DEF SentInv
<1>10. AfterInv'
  <2> SUFFICES ASSUME NEW d \in Calls, call'[d].step = "write"
               PROVE  IF call'[d].tool = "PatchEdit"
                      THEN call'[d].after.base = Original /\ d \in call'[d].after.edits
                      ELSE call'[d].after = WrittenBy(d)
    BY DEF AfterInv
  <2>1. d # c /\ d \notin next
    BY EndsFacts
  <2>2. call'[d] = call[d]
    BY <2>1, EndsFacts
  <2> QED
    BY <1>1, <2>2 DEF AfterInv
<1> QED
  BY <1>8, <1>9, <1>10

LEMMA EndsDisk ==
    ASSUME EditInv, OneSpelling, NEW c, NEW y, NEW a, NEW next, Ends(c, y, a, next)
    PROVE  DiskInv' /\ ChainInv' /\ HeardInv'
<1>1. DiskInv /\ ChainInv /\ HeardInv /\ TypeInv /\ TokenInv /\ c \in Calls
  BY EndsFacts DEF EditInv
<1>2. /\ \A d \in Calls : FileOf(d)' = FileOf(d)
      /\ \A f \in Files : Busy(f)' \subseteq Busy(f)
  BY EndsFacts, KeptFacts
<1>3. disk' = disk /\ mixed' = mixed /\ Kept
  BY EndsFacts
<1>4. \A d \in Calls, f \in Files : d # c => (Succeeded(d, f)' <=> Succeeded(d, f))
  <2>1. \A d \in Calls : d # c => call'[d].verdict = call[d].verdict
    BY EndsFacts, EndsNext
  <2> QED
    BY <1>2, <1>3, <2>1 DEF Succeeded, Kept
<1>5. DiskInv'
  <2> SUFFICES ASSUME NEW f \in Files
               PROVE  /\ disk[f].base \in Calls => /\ call'[disk[f].base].tool = "Write"
                                                   /\ FileOf(disk[f].base)' = f
                                                   /\ call'[disk[f].base].step # "new"
                      /\ f \notin mixed =>
                            /\ \A d \in Calls : Succeeded(d, f)' =>
                                  d \in disk[f].edits \/ (disk[f].base \in Calls /\ disk[f].base > d)
                            /\ disk[f].base \in Calls => \A d \in Busy(f)' : disk[f].base <= d
    BY <1>3 DEF DiskInv
  <2>1. disk[f].base \in Calls => /\ call'[disk[f].base].tool = "Write"
                                  /\ FileOf(disk[f].base)' = f
                                  /\ call'[disk[f].base].step # "new"
    BY <1>1, <1>2, <1>3 DEF DiskInv, Kept
  <2>2. f \notin mixed /\ disk[f].base \in Calls => \A d \in Busy(f)' : disk[f].base <= d
    BY <1>1, <1>2 DEF DiskInv
  <2>3. ASSUME f \notin mixed, NEW d \in Calls, Succeeded(d, f)'
        PROVE  d \in disk[f].edits \/ (disk[f].base \in Calls /\ disk[f].base > d)
    <3>1. CASE d # c
      BY <1>1, <1>4, <2>3, <3>1 DEF DiskInv
    <3>2. CASE d = c
      <4>1. y.tool = "PatchEdit" /\ y.verdict = "success" /\ FileOf(c) = f
        BY <1>2, <2>3, <3>2, EndsFacts DEF Succeeded
      <4> QED
        BY <2>3, <3>2, <4>1 DEF Ends, Knows
    <3> QED
      BY <3>1, <3>2
  <2> QED
    BY <2>1, <2>2, <2>3
<1>6. ChainInv'
  <2> SUFFICES ASSUME NEW d \in Calls, d \in Pending', FileOf(d)' \notin mixed'
               PROVE  Chain(d)'
    BY DEF ChainInv, Chain
  <2>1. PICK f \in Files : f = FileOf(d)
    BY <1>1, CallTypes
  <2>2. FileOf(d)' = f /\ f \notin mixed
    BY <1>2, <1>3, <2>1
  <2>3. \A e \in Calls : Succeeded(e, FileOf(d))' <=> Succeeded(e, f)'
    BY <2>2 DEF Succeeded
  <2>4. d # c
    BY EndsFacts DEF Pending, Hidden
  <2>5. CASE d \in next
    <3>1. call'[d].tool = "PatchEdit" /\ call'[d].step = "read"
      BY <2>5, EndsFacts, EndsNext
    <3> QED
      BY <3>1 DEF Chain
  <2>6. CASE d \notin next
    <3>1. call'[d] = call[d] /\ d \in Pending
      BY <2>4, <2>6, EndsFacts DEF Pending
    <3>2. FileOf(c) # f
      BY <2>1, <2>2, <2>4, <3>1, EndsFacts, OnePending
    <3>3. ~Succeeded(c, f)'
      BY <1>1, <1>2, <3>2 DEF Succeeded
    <3>4. \A e \in Calls : Succeeded(e, f)' => Succeeded(e, f)
      BY <1>4, <3>3
    <3>5. /\ call[d].tool = "Write" => \A e \in Calls : Succeeded(e, f) => e < d
          /\ call[d].tool = "PatchEdit" /\ call[d].step = "write" =>
                \A e \in Calls : Succeeded(e, f) => e \in call[d].after.edits
          /\ call[d].step = "post_read" =>
                /\ SameText(call[d].after, disk[f])
                /\ call[d].tool = "PatchEdit" => d \in disk[f].edits
      BY <1>1, <2>1, <2>2, <3>1 DEF Chain, ChainInv
    <3> QED
      BY <1>3, <2>2, <2>3, <3>1, <3>4, <3>5 DEF Chain
  <2> QED
    BY <2>5, <2>6
<1>7. HeardInv'
  <2> SUFFICES ASSUME NEW b \in answers' PROVE Heard(b)'
    BY DEF HeardInv
  <2>1. b \in answers /\ b.call \in Calls /\ b.call # c
    BY EndsFacts, IsFacts
  <2>2. b.call \notin next
    BY <1>1, <2>1, EndsNext DEF TokenInv, TypeInv, Answers, Hidden
  <2>3. call'[b.call] = call[b.call] /\ FileOf(b.call)' = FileOf(b.call)
    BY <1>2, <2>1, <2>2, EndsFacts
  <2>4. Sent(b.call)' = Sent(b.call)
    BY <2>3 DEF Sent
  <2>5. Heard(b)
    BY <1>1, <2>1 DEF HeardInv
  <2> QED
    BY <1>3, <2>3, <2>4, <2>5 DEF Heard
<1> QED
  BY <1>5, <1>6, <1>7

LEMMA EndsKeeps ==
    ASSUME EditInv, OneSpelling, NEW c, NEW y, NEW a, NEW next, Ends(c, y, a, next)
    PROVE  EditInv'
BY EndsTypes, EndsQueues, EndsMessages, EndsDisk DEF EditInv

-----------------------------------------------------------------------------
(* The answers of the client make a call go on, or end.                    *)
GoOn(x, s, t)  == [x EXCEPT !.step = s, !.after = t]
Judge(x, v, t) == [x EXCEPT !.verdict = v, !.after = t]

LEMMA GoneOn ==
    ASSUME NEW x \in Records, NEW s \in Steps, NEW t \in Texts
    PROVE  LET y == GoOn(x, s, t)
           IN  /\ y \in Records /\ y.tool = x.tool /\ y.path = x.path /\ y.turn = x.turn
               /\ y.step = s /\ y.after = t /\ y.verdict = x.verdict
<1> DEFINE y == [x EXCEPT !.step = s, !.after = t]
<1>1. y \in Records
  BY ZenonT(30) DEF Records
<1>2. y.tool = x.tool /\ y.path = x.path /\ y.turn = x.turn
  BY DEF Records
<1>3. y.step = s /\ y.after = t /\ y.verdict = x.verdict
  BY DEF Records
<1>4. y = GoOn(x, s, t)
  BY DEF GoOn
<1> HIDE DEF y
<1> QED
  BY <1>1, <1>2, <1>3, <1>4

LEMMA Judged ==
    ASSUME NEW x \in Records, NEW v \in Verdicts, NEW t \in Texts
    PROVE  LET y == Judge(x, v, t)
           IN  /\ y \in Records /\ y.tool = x.tool /\ y.path = x.path /\ y.turn = x.turn
               /\ y.after = t /\ y.verdict = v
<1> DEFINE y == [x EXCEPT !.verdict = v, !.after = t]
<1>1. y \in Records
  BY ZenonT(30) DEF Records
<1>2. y.tool = x.tool /\ y.path = x.path /\ y.turn = x.turn
  BY DEF Records
<1>3. y.after = t /\ y.verdict = v
  BY DEF Records
<1>4. y = Judge(x, v, t)
  BY DEF Judge
<1> HIDE DEF y
<1> QED
  BY <1>1, <1>2, <1>3, <1>4

LEMMA FinishEnds ==
    ASSUME EditInv, NEW c, NEW a \in answers, Is(c, a), Received(a), NEW x \in Records, Finish(c, x),
           x.tool = call[c].tool, x.path = call[c].path, x.turn = call[c].turn,
           x.verdict # "none",
           x.verdict = "success" => Knows(c, x),
           x.verdict = "not_found" /\ FileOf(c) \notin mixed => Excused(c)
    PROVE  \E y, next : Ends(c, y, a, next)
<1>1. PICK y, next : /\ y = [x EXCEPT !.step = "done"]
                     /\ next = takeNextQueuedPatchEditOperation(x)
  OBVIOUS
<1>2. y \in Records /\ y.tool = x.tool /\ y.path = x.path /\ y.turn = x.turn /\ y.step = "done"
      /\ y.verdict = x.verdict /\ y.after = x.after
  BY <1>1 DEF Records, Steps
<1>3. y.verdict = "success" => Knows(c, y)
  BY <1>2 DEF Knows
<1>4. next = IF y.tool = "PatchEdit" /\ queue[y.path] # <<>> THEN {Head(queue[y.path])} ELSE {}
  BY <1>1, <1>2 DEF takeNextQueuedPatchEditOperation
<1>5. /\ call' = [d \in Calls |-> IF d = c THEN y
                                  ELSE IF d \in next THEN [call[d] EXCEPT !.step = "read"]
                                  ELSE call[d]]
      /\ queue' = [queue EXCEPT ![y.path] = IF next = {} THEN queue[y.path] ELSE Tail(queue[y.path])]
      /\ asked' = asked \cup {Request(d, "read", Empty) : d \in next}
  BY <1>1, <1>2 DEF Finish
<1> QED
  BY <1>2, <1>3, <1>4, <1>5 DEF Ends

LEMMA ProceedGoes ==
    ASSUME EditInv, NEW c, NEW a \in answers, Is(c, a), Received(a), NEW y \in Records,
           NEW text \in Texts, Proceed(c, y, text),
           y.tool = call[c].tool, y.path = call[c].path, y.turn = call[c].turn, y.verdict = "none",
           \/ /\ y.step = "write" /\ text = Told(y)
              /\ IF y.tool = "PatchEdit"
                 THEN /\ y.after.base = Original /\ c \in y.after.edits
                      /\ FileOf(c) \notin mixed =>
                            \A d \in Calls : Succeeded(d, FileOf(c)) => d \in y.after.edits
                 ELSE y.after = WrittenBy(c)
           \/ y.step = "post_read" /\ Knows(c, y)
    PROVE  Goes(c, y, a)
<1>1. c \in Calls /\ TypeInv
  BY IsFacts DEF EditInv
<1>2. PICK u : u = Request(c, y.step, text)
  OBVIOUS
<1>3. u = [call |-> c, turn |-> call[c].turn, step |-> y.step, path |-> call[c].path, text |-> text]
  BY <1>2 DEF Request
<1>4. y.step \in Hidden /\ call[c].path \in Paths /\ call[c].turn \in 0 .. MaxTurns
  BY <1>1 DEF Hidden, TypeInv, Records
<1>5. u \in Requests /\ u.call = c /\ u.step = y.step /\ u.turn = y.turn /\ u.path = y.path /\ u.text = text
  BY <1>1, <1>3, <1>4 DEF Requests
<1>6. [u EXCEPT !.path = y.path] = u
  BY <1>5 DEF Requests
<1>7. asked' = asked \cup {u} /\ call' = [call EXCEPT ![c] = y] /\ queue' = queue
  BY <1>2, <1>6 DEF Proceed
<1> QED
  BY <1>5, <1>7 DEF Goes

(* What a call hears of a file that nobody else works on.                  *)
LEMMA Hears ==
    ASSUME EditInv, NEW c, NEW a \in answers, Is(c, a), a.got = "text", FileOf(c) \notin mixed
    PROVE  IF a.step = "write"
           THEN a.text = disk[FileOf(c)] /\ a.text = AsWritten(Sent(c))
           ELSE a.text = normalizeLineEndingsToLF(disk[FileOf(c)]) /\ a.text.base # NoFile
<1>1. a.call = c /\ a.step = call[c].step /\ Heard(a)
  BY IsFacts
<1> QED
  BY <1>1 DEF Heard

LEMMA HearsEdits ==
    ASSUME EditInv, NEW c, NEW a \in answers, Is(c, a), a.got = "text", FileOf(c) \notin mixed,
           a.step = "read"
    PROVE  a.text.base = disk[FileOf(c)].base /\ a.text.edits = disk[FileOf(c)].edits
           /\ a.text.base # NoFile
<1>1. a.text = normalizeLineEndingsToLF(disk[FileOf(c)]) /\ a.text.base # NoFile
  BY Hears
<1>2. c \in Calls /\ TypeInv
  BY IsFacts DEF EditInv
<1>3. disk[FileOf(c)] \in Texts
  BY <1>2, CallTypes
<1> QED
  BY <1>1, <1>3, TextFacts

(* An old_string that is not in the file is excused.                       *)
LEMMA MissesAreExcused ==
    ASSUME EditInv, OneSpelling, NeedsEarlier, NEW c, NEW a \in answers, Is(c, a), a.got = "text",
           a.step = "read", call[c].tool = "PatchEdit", FileOf(c) \notin mixed, ~Occurs(c, a.text)
    PROVE  Excused(c)
<1>1. /\ TypeInv /\ OrderInv /\ QueueInv /\ DiskInv
      /\ c \in Calls /\ c \in Pending /\ call[c].step \in Hidden
  BY IsFacts DEF EditInv
<1>2. PICK f \in Files : f = FileOf(c)
  BY <1>1, CallTypes
<1>3. disk[f] \in Texts
  BY <1>1 DEF TypeInv
<1>4. a.text.base = disk[f].base /\ a.text.edits = disk[f].edits /\ a.text.base # NoFile
  BY <1>2, HearsEdits
<1>5. CASE disk[f].base # Original
  <2>1. disk[f].base \in Calls
    BY <1>3, <1>4, <1>5 DEF Texts
  <2>2. PICK w \in Calls : w = disk[f].base
    BY <2>1
  <2>3. call[w].tool = "Write" /\ FileOf(w) = f
    BY <1>1, <2>1, <2>2 DEF DiskInv
  <2>4. c \in Busy(f)
    BY <1>1, <1>2 DEF Busy
  <2>5. w <= c /\ w # c
    BY <1>1, <1>2, <2>1, <2>2, <2>3, <2>4 DEF DiskInv
  <2>6. w < c
    BY <1>1, <2>5, CallNumbers
  <2> QED
    BY <1>2, <2>3, <2>6 DEF Excused
<1>6. CASE disk[f].base = Original
  <2>1. PICK n \in Needs[c] : FileOf(n) = f /\ call[n].tool = "PatchEdit" /\ n \notin disk[f].edits
    BY <1>2, <1>4, <1>6 DEF Occurs
  <2>2. n \in Calls /\ n < c
    BY <1>1, NeedsAssumption DEF NeedsEarlier
  <2>3. call[n].step # "new" /\ n # c
    BY <1>1, <2>2, CallNumbers DEF OrderInv, Hidden
  <2>4. n \notin Pending
    BY <1>1, <1>2, <2>1, <2>3, OnePending
  <2>5. call[n].path = call[c].path
    <3>1. call[n].path \in Paths /\ call[c].path \in Paths
      BY <1>1, <2>2, CallTypes
    <3> QED
      BY <1>2, <2>1, <3>1 DEF OneSpelling, FileOf
  <2>6. call[n].step # "queued"
    <3> SUFFICES ASSUME call[n].step = "queued" PROVE FALSE
      OBVIOUS
    <3>1. call[c].path \in Paths
      BY <1>1, CallTypes
    <3>2. PICK i \in DOMAIN queue[call[c].path] : queue[call[c].path][i] = n
      BY <1>1, <2>2, <2>5 DEF QueueInv
    <3>3. InFlight(c, call[c].path)
      BY <1>1 DEF InFlight
    <3>4. c < n
      BY <1>1, <3>1, <3>2, <3>3 DEF QueueInv
    <3> QED
      BY <1>1, <2>2, <3>4, CallNumbers
  <2>7. call[n].step \in {"done", "dropped"}
    BY <1>1, <2>2, <2>3, <2>4, <2>6, CallTypes DEF Steps, Pending, Hidden
  <2>8. call[n].step = "done" => call[n].verdict \notin {"none", "success"}
    <3> SUFFICES ASSUME call[n].step = "done", call[n].verdict = "success" PROVE FALSE
      BY <1>1, <2>2 DEF OrderInv
    <3>1. Succeeded(n, f)
      BY <2>1 DEF Succeeded
    <3> QED
      BY <1>1, <1>2, <1>6, <2>1, <2>2, <3>1, CallNumbers DEF DiskInv
  <2> QED
    BY <1>2, <2>1, <2>7, <2>8 DEF Excused
<1> QED
  BY <1>5, <1>6

Answered(c, a) == (\E y : Goes(c, y, a)) \/ (\E y, next : Ends(c, y, a, next))

LEMMA PatchEditMoves ==
    ASSUME EditInv, OneSpelling, NeedsEarlier, NEW c \in Calls, NEW a \in answers,
           PatchEditAnswered(c, a)
    PROVE  Answered(c, a)
<1>1. Is(c, a) /\ Received(a) /\ call[c].tool = "PatchEdit"
  BY DEF PatchEditAnswered
<1>2. /\ TypeInv /\ OrderInv /\ AfterInv /\ ChainInv /\ call[c] \in Records
      /\ c \in Pending /\ a.step = call[c].step /\ a.path = call[c].path /\ a.text \in Texts
      /\ FileOf(c) \in Files /\ disk[FileOf(c)] \in Texts
  BY <1>1, IsFacts, CallTypes DEF EditInv
<1>3. [call[c] EXCEPT !.path = a.path] = call[c]
  BY <1>2 DEF Records
<1>4. call[c].verdict = "none"
  BY <1>2 DEF OrderInv, Pending, Hidden
<1>5. \A x \in Records :
         /\ Finish(c, x) /\ x.tool = call[c].tool /\ x.path = call[c].path /\ x.turn = call[c].turn
         /\ x.verdict # "none"
         /\ x.verdict = "success" => Knows(c, x)
         /\ x.verdict = "not_found" /\ FileOf(c) \notin mixed => Excused(c)
         => Answered(c, a)
  BY <1>1, FinishEnds DEF Answered
<1>6. ASSUME NEW v \in {"failed", "not_found", "unverified"},
             Finish(c, [call[c] EXCEPT !.verdict = v]),
             v = "not_found" /\ FileOf(c) \notin mixed => Excused(c)
      PROVE  Answered(c, a)
  <2>1. PICK x : x = [call[c] EXCEPT !.verdict = v]
    OBVIOUS
  <2>2. x \in Records /\ x.tool = call[c].tool /\ x.path = call[c].path /\ x.turn = call[c].turn
        /\ x.verdict = v
    BY <1>2, <2>1 DEF Records, Verdicts
  <2> QED
    BY <1>5, <1>6, <2>1, <2>2
<1>7. CASE a.step = "read"
  <2>1. CASE a.got # "text"
    <3>1. Finish(c, [call[c] EXCEPT !.verdict = "failed"])
      BY <1>7, <2>1 DEF PatchEditAnswered
    <3> QED
      BY <1>6, <3>1
  <2>2. CASE a.got = "text" /\ ~Occurs(c, a.text)
    <3>1. Finish(c, [call[c] EXCEPT !.verdict = "not_found"])
      BY <1>7, <2>2 DEF PatchEditAnswered
    <3>2. FileOf(c) \notin mixed => Excused(c)
      BY <1>1, <1>7, <2>2, MissesAreExcused
    <3> QED
      BY <1>6, <3>1, <3>2
  <2>3. CASE a.got = "text" /\ Occurs(c, a.text)
    <3>1. PICK t : t = computePatchEdit(c, a.text)
      OBVIOUS
    <3>2. t \in Texts /\ t.base = a.text.base /\ t.edits = a.text.edits \cup {c}
      <4> DEFINE e == IF NewEol[c] = "crlf" THEN "crlf" ELSE a.text.eol
                 u == a.text
                 es == u.edits \cup {c}
      <4>1. e \in Eols /\ es \in SUBSET Calls
        BY <1>2 DEF Eols, Texts
      <4>2. t = [u EXCEPT !.edits = es, !.eol = e]
        BY <3>1 DEF computePatchEdit
      <4>3. u \in Texts
        BY <1>2
      <4> HIDE DEF e, es, u
      <4>4. t \in Texts
        BY <4>1, <4>2, <4>3, ZenonT(30) DEF Texts
      <4>5. t.base = u.base /\ t.edits = es
        BY <4>2, <4>3 DEF Texts
      <4> QED
        BY <4>4, <4>5 DEF u, es
    <3>3. PICK y : y = GoOn(call[c], "write", t)
      OBVIOUS
    <3>4. Proceed(c, y, preparePatchEditWriteContentsForClient(t))
      BY <1>7, <2>3, <3>1, <3>3 DEF PatchEditAnswered, GoOn
    <3>5. y \in Records /\ y.tool = call[c].tool /\ y.path = call[c].path /\ y.turn = call[c].turn
          /\ y.step = "write" /\ y.after = t /\ y.verdict = "none"
      <4>1. "write" \in Steps
        BY DEF Steps
      <4> QED
        BY <1>2, <1>4, <3>2, <3>3, <4>1, GoneOn
    <3>6. y.after.base = Original /\ c \in y.after.edits
      BY <2>3, <3>2, <3>5 DEF Occurs
    <3>7. ASSUME FileOf(c) \notin mixed, NEW d \in Calls, Succeeded(d, FileOf(c))
          PROVE  d \in y.after.edits
      <4>1. PICK f \in Files : f = FileOf(c)
        BY <1>2
      <4>2. disk[f].base = Original /\ a.text.edits = disk[f].edits
        BY <1>1, <1>7, <2>3, <3>2, <3>5, <3>6, <3>7, <4>1, HearsEdits
      <4>3. d \in disk[f].edits
        BY <3>7, <4>1, <4>2, CallNumbers DEF EditInv, DiskInv
      <4> QED
        BY <3>2, <3>5, <4>2, <4>3
    <3>8. preparePatchEditWriteContentsForClient(t) = Told(y)
      BY <1>1, <3>5 DEF Told
    <3>9. preparePatchEditWriteContentsForClient(t) \in Texts
      BY <3>2, TextFacts
    <3>10. Goes(c, y, a)
      BY <1>1, <3>4, <3>5, <3>6, <3>7, <3>8, <3>9, ProceedGoes
    <3> QED
      BY <3>10 DEF Answered
  <2> QED
    BY <2>1, <2>2, <2>3
<1>8. CASE a.step = "write"
  <2>1. CASE a.got # "text"
    <3>1. Finish(c, [call[c] EXCEPT !.verdict = "failed"])
      BY <1>8, <2>1 DEF PatchEditAnswered
    <3> QED
      BY <1>6, <3>1
  <2>2. CASE a.got = "text" /\ ~Verified(call[c].after, a.text)
    <3>1. Finish(c, [[call[c] EXCEPT !.path = a.path] EXCEPT !.verdict = "unverified"])
      BY <1>8, <2>2 DEF PatchEditAnswered
    <3> QED
      BY <1>3, <1>6, <3>1
  <2>3. CASE a.got = "text" /\ Verified(call[c].after, a.text)
    <3>1. PICK y : y = GoOn(call[c], "post_read", a.text)
      OBVIOUS
    <3>2. Proceed(c, y, Empty)
      BY <1>3, <1>8, <2>3, <3>1 DEF PatchEditAnswered, GoOn
    <3>3. y \in Records /\ y.tool = call[c].tool /\ y.path = call[c].path /\ y.turn = call[c].turn
          /\ y.step = "post_read" /\ y.after = a.text /\ y.verdict = "none"
      <4>1. "post_read" \in Steps
        BY DEF Steps
      <4> QED
        BY <1>2, <1>4, <3>1, <4>1, GoneOn
    <3>4. Knows(c, y)
      <4> SUFFICES ASSUME FileOf(c) \notin mixed
                   PROVE  SameText(y.after, disk[FileOf(c)]) /\ c \in disk[FileOf(c)].edits
        BY DEF Knows
      <4>1. a.text = disk[FileOf(c)] /\ a.text = AsWritten(Sent(c))
        BY <1>1, <1>8, <2>3, Hears
      <4>2. c \in call[c].after.edits
        BY <1>1, <1>2, <1>8 DEF AfterInv
      <4>3. Sent(c) \in Texts /\ Sent(c).edits = call[c].after.edits
        BY <1>2, SentTexts
      <4>4. AsWritten(Sent(c)).edits = Sent(c).edits
        BY <4>3, TextFacts
      <4>5. SameText(a.text, a.text)
        BY DEF SameText
      <4> QED
        BY <3>3, <4>1, <4>2, <4>3, <4>4, <4>5
    <3>5. Empty \in Texts
      BY DEF Empty, Texts, Eols
    <3>6. Goes(c, y, a)
      BY <1>1, <3>2, <3>3, <3>4, <3>5, ProceedGoes
    <3> QED
      BY <3>6 DEF Answered
  <2> QED
    BY <2>1, <2>2, <2>3
<1>9. CASE a.step = "post_read"
  <2>1. FileOf(c) \notin mixed =>
          /\ SameText(call[c].after, disk[FileOf(c)]) /\ c \in disk[FileOf(c)].edits
    BY <1>1, <1>2, <1>9 DEF ChainInv, Chain
  <2>2. CASE a.got # "text"
    <3>1. PICK x : x = [call[c] EXCEPT !.verdict = "success"]
      OBVIOUS
    <3>2. x \in Records /\ x.tool = call[c].tool /\ x.path = call[c].path /\ x.turn = call[c].turn
          /\ x.verdict = "success" /\ x.after = call[c].after
      BY <1>2, <3>1 DEF Records, Verdicts
    <3>3. Finish(c, x)
      BY <1>9, <2>2, <3>1 DEF PatchEditAnswered
    <3>4. Knows(c, x)
      BY <2>1, <3>2 DEF Knows
    <3> QED
      BY <1>5, <3>2, <3>3, <3>4
  <2>3. CASE a.got = "text" /\ ~Verified(call[c].after, a.text)
    <3>1. Finish(c, [[call[c] EXCEPT !.path = a.path] EXCEPT !.verdict = "unverified"])
      BY <1>9, <2>3 DEF PatchEditAnswered
    <3> QED
      BY <1>3, <1>6, <3>1
  <2>4. CASE a.got = "text" /\ Verified(call[c].after, a.text)
    <3>1. PICK x : x = Judge(call[c], "success", a.text)
      OBVIOUS
    <3>2. x \in Records /\ x.tool = call[c].tool /\ x.path = call[c].path /\ x.turn = call[c].turn
          /\ x.verdict = "success" /\ x.after = a.text
      <4>1. "success" \in Verdicts
        BY DEF Verdicts
      <4> QED
        BY <1>2, <3>1, <4>1, Judged
    <3>3. Finish(c, x)
      BY <1>3, <1>9, <2>4, <3>1 DEF PatchEditAnswered, Judge
    <3>4. Knows(c, x)
      <4> SUFFICES ASSUME FileOf(c) \notin mixed
                   PROVE  SameText(a.text, disk[FileOf(c)]) /\ c \in disk[FileOf(c)].edits
        BY <3>2 DEF Knows
      <4>1. a.text = normalizeLineEndingsToLF(disk[FileOf(c)])
        BY <1>1, <1>9, <2>4, Hears
      <4> QED
        BY <1>2, <2>1, <4>1, SameAgain
    <3> QED
      BY <1>5, <3>2, <3>3, <3>4
  <2> QED
    BY <2>2, <2>3, <2>4
<1> QED
  BY <1>2, <1>7, <1>8, <1>9 DEF Pending, Hidden

(* What a Write reports is what it wrote, unless another changed the file. *)
LEMMA WriteReconciles ==
    ASSUME EditInv, NEW c \in Calls, NEW a \in answers, Is(c, a), a.got = "text",
           call[c].tool = "Write", a.step \in {"write", "post_read"}
    PROVE  LET t == reconcilePostWriteObservedContent(call[c].after, a.text)
           IN  t \in Texts /\ (FileOf(c) \notin mixed => SameText(t, disk[FileOf(c)]))
<1> DEFINE t == reconcilePostWriteObservedContent(call[c].after, a.text)
<1>1. /\ TypeInv /\ AfterInv /\ ChainInv /\ c \in Pending /\ a.step = call[c].step
      /\ a.text \in Texts /\ call[c].after \in Texts /\ disk[FileOf(c)] \in Texts
  BY IsFacts, CallTypes DEF EditInv
<1>2. t = call[c].after \/ t = a.text
  BY DEF reconcilePostWriteObservedContent
<1>3. SameText(call[c].after, a.text) => t = call[c].after
  BY DEF reconcilePostWriteObservedContent
<1> HIDE DEF t
<1>4. t \in Texts
  BY <1>1, <1>2
<1>5. ASSUME FileOf(c) \notin mixed
      PROVE  SameText(t, disk[FileOf(c)])
  <2>1. CASE a.step = "write"
    <3>1. a.text = disk[FileOf(c)] /\ a.text = AsWritten(Sent(c))
      BY <1>5, <2>1, Hears
    <3>2. call[c].after = WrittenBy(c)
      BY <1>1, <2>1 DEF AfterInv
    <3>3. Sent(c) = prepareWriteContentsForClient(WrittenBy(c))
      BY <3>2 DEF Sent
    <3>4. SameText(call[c].after, a.text)
      BY <3>1, <3>2, <3>3, NewTexts
    <3> QED
      BY <1>3, <3>1, <3>4
  <2>2. CASE a.step = "post_read"
    <3>1. SameText(call[c].after, disk[FileOf(c)])
      BY <1>1, <1>5, <2>2 DEF ChainInv, Chain
    <3>2. a.text = normalizeLineEndingsToLF(disk[FileOf(c)])
      BY <1>5, <2>2, Hears
    <3>3. SameText(a.text, disk[FileOf(c)])
      BY <1>1, <3>2, SameAgain
    <3> QED
      BY <1>2, <3>1, <3>3
  <2> QED
    BY <2>1, <2>2
<1> QED
  BY <1>4, <1>5 DEF t

LEMMA WriteMoves ==
    ASSUME EditInv, OneSpelling, NEW c \in Calls, NEW a \in answers, WriteAnswered(c, a)
    PROVE  Answered(c, a)
<1>1. Is(c, a) /\ Received(a) /\ call[c].tool = "Write"
  BY DEF WriteAnswered
<1>2. /\ TypeInv /\ OrderInv /\ ChainInv /\ call[c] \in Records
      /\ c \in Pending /\ a.step = call[c].step /\ a.path = call[c].path
  BY <1>1, IsFacts, CallTypes DEF EditInv
<1>3. [call[c] EXCEPT !.path = a.path] = call[c]
  BY <1>2 DEF Records
<1>4. call[c].verdict = "none"
  BY <1>2 DEF OrderInv, Pending, Hidden
<1>5. \A x \in Records :
         /\ Finish(c, x) /\ x.tool = call[c].tool /\ x.path = call[c].path /\ x.turn = call[c].turn
         /\ x.verdict \in {"failed", "success"}
         /\ x.verdict = "success" => Knows(c, x)
         => Answered(c, a)
  BY <1>1, FinishEnds DEF Answered
<1>6. ASSUME Finish(c, [call[c] EXCEPT !.verdict = "failed"])
      PROVE  Answered(c, a)
  <2>1. PICK x : x = [call[c] EXCEPT !.verdict = "failed"]
    OBVIOUS
  <2>2. x \in Records /\ x.tool = call[c].tool /\ x.path = call[c].path /\ x.turn = call[c].turn
        /\ x.verdict = "failed"
    BY <1>2, <2>1 DEF Records, Verdicts
  <2> QED
    BY <1>5, <1>6, <2>1, <2>2
<1>7. CASE a.step = "read"
  <2>1. CASE a.got = "refused"
    <3>1. Finish(c, [call[c] EXCEPT !.verdict = "failed"])
      BY <1>7, <2>1 DEF WriteAnswered
    <3> QED
      BY <1>6, <3>1
  <2>2. CASE a.got # "refused"
    <3>1. PICK y : y = GoOn(call[c], "write", WrittenBy(c))
      OBVIOUS
    <3>2. Proceed(c, y, prepareWriteContentsForClient(WrittenBy(c)))
      BY <1>7, <2>2, <3>1 DEF WriteAnswered, GoOn, WrittenBy
    <3>3. WrittenBy(c) \in Texts /\ prepareWriteContentsForClient(WrittenBy(c)) \in Texts
      BY NewTexts, TextFacts DEF prepareWriteContentsForClient
    <3>4. y \in Records /\ y.tool = call[c].tool /\ y.path = call[c].path /\ y.turn = call[c].turn
          /\ y.step = "write" /\ y.after = WrittenBy(c) /\ y.verdict = "none"
      <4>1. "write" \in Steps
        BY DEF Steps
      <4> QED
        BY <1>2, <1>4, <3>1, <3>3, <4>1, GoneOn
    <3>5. prepareWriteContentsForClient(WrittenBy(c)) = Told(y)
      BY <1>1, <3>4 DEF Told
    <3>6. Goes(c, y, a)
      BY <1>1, <3>2, <3>3, <3>4, <3>5, ProceedGoes
    <3> QED
      BY <3>6 DEF Answered
  <2> QED
    BY <2>1, <2>2
<1>8. CASE a.step = "write"
  <2>1. CASE a.got # "text"
    <3>1. Finish(c, [call[c] EXCEPT !.verdict = "failed"])
      BY <1>8, <2>1 DEF WriteAnswered
    <3> QED
      BY <1>6, <3>1
  <2>2. CASE a.got = "text"
    <3>1. PICK t : t = reconcilePostWriteObservedContent(call[c].after, a.text)
      OBVIOUS
    <3>2. t \in Texts /\ (FileOf(c) \notin mixed => SameText(t, disk[FileOf(c)]))
      BY <1>1, <1>8, <2>2, <3>1, WriteReconciles
    <3>3. PICK y : y = GoOn(call[c], "post_read", t)
      OBVIOUS
    <3>4. Proceed(c, y, Empty)
      BY <1>3, <1>8, <2>2, <3>1, <3>3 DEF WriteAnswered, GoOn
    <3>5. y \in Records /\ y.tool = call[c].tool /\ y.path = call[c].path /\ y.turn = call[c].turn
          /\ y.step = "post_read" /\ y.after = t /\ y.verdict = "none"
      <4>1. "post_read" \in Steps
        BY DEF Steps
      <4> QED
        BY <1>2, <1>4, <3>2, <3>3, <4>1, GoneOn
    <3>6. Knows(c, y)
      BY <1>1, <3>2, <3>5 DEF Knows
    <3>7. Empty \in Texts
      BY DEF Empty, Texts, Eols
    <3>8. Goes(c, y, a)
      BY <1>1, <3>4, <3>5, <3>6, <3>7, ProceedGoes
    <3> QED
      BY <3>8 DEF Answered
  <2> QED
    BY <2>1, <2>2
<1>9. CASE a.step = "post_read"
  <2>1. CASE a.got # "text"
    <3>1. PICK x : x = [call[c] EXCEPT !.verdict = "success"]
      OBVIOUS
    <3>2. x \in Records /\ x.tool = call[c].tool /\ x.path = call[c].path /\ x.turn = call[c].turn
          /\ x.verdict = "success" /\ x.after = call[c].after
      BY <1>2, <3>1 DEF Records, Verdicts
    <3>3. Finish(c, x)
      BY <1>9, <2>1, <3>1 DEF WriteAnswered
    <3>4. Knows(c, x)
      BY <1>1, <1>2, <1>9, <3>2 DEF Knows, ChainInv, Chain
    <3> QED
      BY <1>5, <3>2, <3>3, <3>4
  <2>2. CASE a.got = "text"
    <3>1. PICK t : t = reconcilePostWriteObservedContent(call[c].after, a.text)
      OBVIOUS
    <3>2. t \in Texts /\ (FileOf(c) \notin mixed => SameText(t, disk[FileOf(c)]))
      BY <1>1, <1>9, <2>2, <3>1, WriteReconciles
    <3>3. PICK x : x = Judge(call[c], "success", t)
      OBVIOUS
    <3>4. x \in Records /\ x.tool = call[c].tool /\ x.path = call[c].path /\ x.turn = call[c].turn
          /\ x.verdict = "success" /\ x.after = t
      <4>1. "success" \in Verdicts
        BY DEF Verdicts
      <4> QED
        BY <1>2, <3>2, <3>3, <4>1, Judged
    <3>5. Finish(c, x)
      BY <1>3, <1>9, <2>2, <3>1, <3>3 DEF WriteAnswered, Judge
    <3>6. Knows(c, x)
      BY <1>1, <3>2, <3>4 DEF Knows
    <3> QED
      BY <1>5, <3>4, <3>5, <3>6
  <2> QED
    BY <2>1, <2>2
<1> QED
  BY <1>2, <1>7, <1>8, <1>9 DEF Pending, Hidden

-----------------------------------------------------------------------------
(* The client answers, and what the calls are does not change.             *)
LEMMA CallsRest ==
    ASSUME EditInv, call' = call, queue' = queue, turn' = turn, mixed' = mixed
    PROVE  /\ OrderInv' /\ QueueInv' /\ AloneInv' /\ AfterInv' /\ MissedInv'
           /\ \A d \in Calls : FileOf(d)' = FileOf(d) /\ Sent(d)' = Sent(d)
           /\ \A f \in Files : Busy(f)' = Busy(f)
           /\ \A d \in Calls, f \in Files : Succeeded(d, f)' <=> Succeeded(d, f)
           /\ Pending' = Pending
<1>1. OrderInv' /\ AfterInv' /\ Pending' = Pending
  BY DEF EditInv, OrderInv, AfterInv, Pending
<1>2. \A d \in Calls, p \in Paths : InFlight(d, p)' <=> InFlight(d, p)
  BY <1>1 DEF InFlight
<1>3. QueueInv'
  BY <1>2 DEF EditInv, QueueInv
<1>4. /\ \A d \in Calls : FileOf(d)' = FileOf(d) /\ Sent(d)' = Sent(d)
      /\ \A f \in Files : Busy(f)' = Busy(f)
      /\ \A d \in Calls, f \in Files : Succeeded(d, f)' <=> Succeeded(d, f)
  BY DEF FileOf, Sent, Busy, Succeeded
<1>5. Kept
  BY DEF Kept
<1>6. AloneInv' /\ \A d \in Calls : Excused(d) => Excused(d)'
  BY <1>5, KeptFacts
<1>7. MissedInv'
  BY <1>4, <1>6 DEF EditInv, MissedInv
<1> QED
  BY <1>1, <1>3, <1>4, <1>6, <1>7

(* Request r is answered by a.                                             *)
Replies(r, a) ==
    /\ r \in asked /\ a \in Answers
    /\ a.call = r.call /\ a.turn = r.turn /\ a.step = r.step /\ a.path = r.path
    /\ asked' = asked \ {r} /\ answers' = answers \cup {a}
    /\ UNCHANGED <<call, queue, turn, mixed>>

LEMMA RepliesMessages ==
    ASSUME EditInv, NEW r, NEW a, Replies(r, a)
    PROVE  /\ TokenInv' /\ SentInv'
           /\ r.call \in Calls /\ r.call \in Pending /\ r.step = call[r.call].step
           /\ r.path = call[r.call].path /\ r \in Requests
           /\ r.step = "write" => r.text = Sent(r.call)
           /\ \A b \in answers : b.call \in Calls /\ b.call # r.call
<1>1. TypeInv /\ TokenInv /\ SentInv /\ r \in asked
  BY DEF EditInv, Replies
<1>2. r \in Requests /\ r.call \in Calls /\ r.step \in Hidden
  BY <1>1 DEF TypeInv, Requests
<1>3. r.step = call[r.call].step /\ r.path = call[r.call].path /\ r.turn = call[r.call].turn
  BY <1>1 DEF TokenInv
<1>4. r.call \in Pending
  BY <1>2, <1>3 DEF Pending
<1>5. \A b \in answers : b.call \in Calls /\ b.call # r.call
  BY <1>1 DEF TokenInv, TypeInv, Answers
<1>6. r.step = "write" => r.text = Sent(r.call)
  BY <1>1 DEF SentInv
<1>7. SentInv'
  <2>1. \A d \in Calls : Sent(d)' = Sent(d)
    BY DEF Replies, Sent
  <2>2. asked' \subseteq asked /\ \A s \in asked : s.call \in Calls
    BY <1>1 DEF Replies, TypeInv, Requests
  <2> QED
    BY <1>1, <2>1, <2>2 DEF SentInv
<1>8. TokenInv'
  <2>1. asked' = asked \ {r} /\ answers' = answers \cup {a} /\ call' = call
        /\ a.call = r.call /\ a.turn = r.turn /\ a.step = r.step /\ a.path = r.path
    BY DEF Replies
  <2>2. \A s \in asked' : s \in asked /\ s.call # r.call
    BY <1>1, <2>1 DEF TokenInv
  <2>3. \A s \in asked' : /\ s.step = call'[s.call].step /\ s.turn = call'[s.call].turn
                          /\ s.path = call'[s.call].path
    BY <1>1, <2>1 DEF TokenInv
  <2>4. \A b \in answers' : /\ call'[b.call].step \in {b.step, "dropped"}
                            /\ b.turn = call'[b.call].turn /\ b.path = call'[b.call].path
    BY <1>1, <1>3, <2>1 DEF TokenInv
  <2>5. \A s, t \in asked' : s.call = t.call => s = t
    BY <1>1, <2>1 DEF TokenInv
  <2>6. /\ \A b, e \in answers' : b.call = e.call => b = e
        /\ \A s \in asked', b \in answers' : s.call # b.call
    BY <1>1, <1>5, <2>1, <2>2 DEF TokenInv
  <2> QED
    BY <2>3, <2>4, <2>5, <2>6 DEF TokenInv
<1> QED
  BY <1>2, <1>3, <1>4, <1>5, <1>6, <1>7, <1>8

(* A reply that leaves the files alone.                                    *)
LEMMA RepliesKeeps ==
    ASSUME EditInv, NEW r, NEW a, Replies(r, a), disk' = disk, Heard(a)
    PROVE  EditInv'
<1>1. call' = call /\ queue' = queue /\ turn' = turn /\ mixed' = mixed
  BY DEF Replies
<1>2. TypeInv'
  BY DEF EditInv, TypeInv, Replies
<1>3. TokenInv' /\ SentInv'
  BY RepliesMessages
<1>4. OrderInv' /\ QueueInv' /\ AloneInv' /\ AfterInv' /\ MissedInv'
  BY <1>1, CallsRest
<1>5. DiskInv' /\ ChainInv'
  <2>1. DiskInv'
    BY <1>1, CallsRest DEF EditInv, DiskInv
  <2>2. \A d \in Calls : Chain(d)' <=> Chain(d)
    BY <1>1 DEF Chain, Pending, FileOf, Succeeded
  <2> QED
    BY <2>1, <2>2 DEF EditInv, ChainInv
<1>6. HeardInv'
  <2>1. answers' = answers \cup {a}
    BY DEF Replies
  <2>2. \A b \in answers' : Heard(b)' <=> Heard(b)
    BY <1>1 DEF Heard, FileOf, Sent
  <2> QED
    BY <2>1, <2>2 DEF EditInv, HeardInv
<1> QED
  BY <1>2, <1>3, <1>4, <1>5, <1>6 DEF EditInv

(* A write that takes effect.                                              *)
LEMMA WritesKeeps ==
    ASSUME EditInv, OneSpelling, NEW r, NEW a, Replies(r, a), r.step = "write",
           disk' = [disk EXCEPT ![FileAt[r.path]] = AsWritten(r.text)],
           a.got = "text" => a.text = AsWritten(r.text)
    PROVE  EditInv'
<1>1. /\ TypeInv /\ AfterInv /\ DiskInv /\ ChainInv /\ HeardInv /\ AloneInv
      /\ call' = call /\ queue' = queue /\ turn' = turn /\ mixed' = mixed
  BY DEF EditInv, Replies
<1>2. TokenInv' /\ SentInv'
  BY RepliesMessages
<1>3. OrderInv' /\ QueueInv' /\ AloneInv' /\ AfterInv' /\ MissedInv'
  BY <1>1, CallsRest
<1>4. PICK c \in Calls : c = r.call
  BY RepliesMessages
<1>5. /\ c \in Pending /\ call[c].step = "write" /\ r.path = call[c].path /\ r.text = Sent(c)
      /\ \A b \in answers : b.call \in Calls /\ b.call # c
  BY <1>4, RepliesMessages
<1>6. PICK f \in Files : f = FileOf(c)
  BY <1>1, CallTypes
<1>7. PICK t \in Texts : t = AsWritten(Sent(c))
  BY <1>1, SentTexts, TextFacts
<1>8. t.base = call[c].after.base /\ t.edits = call[c].after.edits
  BY <1>1, <1>7, SentTexts, TextFacts
<1>9. disk' = [disk EXCEPT ![f] = t]
  BY <1>5, <1>6, <1>7 DEF FileOf
<1>10. disk'[f] = t /\ \A g \in Files : g # f => disk'[g] = disk[g]
  BY <1>1, <1>9 DEF TypeInv
<1>11. /\ \A d \in Calls : FileOf(d)' = FileOf(d) /\ Sent(d)' = Sent(d)
       /\ \A g \in Files : Busy(g)' = Busy(g)
       /\ \A d \in Calls, g \in Files : Succeeded(d, g)' <=> Succeeded(d, g)
       /\ Pending' = Pending
  BY <1>1, CallsRest
<1>12. IF call[c].tool = "PatchEdit"
       THEN t.base = Original /\ c \in t.edits
       ELSE t.base = c
  <2>1. IF call[c].tool = "PatchEdit"
        THEN call[c].after.base = Original /\ c \in call[c].after.edits
        ELSE call[c].after = WrittenBy(c)
    BY <1>1, <1>5 DEF AfterInv
  <2>2. WrittenBy(c).base = c
    BY DEF WrittenBy
  <2> QED
    BY <1>8, <2>1, <2>2
<1>13. TypeInv'
  <2>1. disk' \in [Files -> Texts]
    BY <1>1, <1>9 DEF TypeInv
  <2>2. answers' \subseteq Answers /\ asked' \subseteq Requests
    BY <1>1 DEF Replies, TypeInv
  <2> QED
    BY <1>1, <2>1, <2>2 DEF TypeInv
<1>14. \A d \in Pending : d # c /\ FileOf(d) = f => f \in mixed
  BY <1>5, <1>6, OnePending
<1>15. DiskInv'
  <2> SUFFICES ASSUME NEW g \in Files
               PROVE  /\ disk'[g].base \in Calls => /\ call[disk'[g].base].tool = "Write"
                                                    /\ FileOf(disk'[g].base) = g
                                                    /\ call[disk'[g].base].step # "new"
                      /\ g \notin mixed =>
                            /\ \A d \in Calls : Succeeded(d, g) =>
                                  d \in disk'[g].edits \/ (disk'[g].base \in Calls /\ disk'[g].base > d)
                            /\ disk'[g].base \in Calls => \A d \in Busy(g) : disk'[g].base <= d
    BY <1>1, <1>11 DEF DiskInv
  <2>1. CASE g # f
    BY <1>1, <1>10, <2>1 DEF DiskInv
  <2>2. CASE g = f /\ call[c].tool = "PatchEdit"
    <3>1. disk'[g].base \notin Calls /\ disk'[g].edits = call[c].after.edits
      BY <1>8, <1>10, <1>12, <2>2, CallNumbers
    <3>2. g \notin mixed => \A d \in Calls : Succeeded(d, g) => d \in call[c].after.edits
      BY <1>1, <1>5, <1>6, <2>2 DEF ChainInv, Chain
    <3> QED
      BY <3>1, <3>2
  <2>3. CASE g = f /\ call[c].tool # "PatchEdit"
    <3>1. call[c].tool = "Write" /\ disk'[g].base = c
      BY <1>1, <1>10, <1>12, <2>3, CallTypes
    <3>2. ASSUME g \notin mixed
          PROVE  /\ \A d \in Calls : Succeeded(d, g) => c > d
                 /\ \A d \in Busy(g) : c <= d
      <4>1. \A d \in Calls : Succeeded(d, g) => d < c
        BY <1>1, <1>5, <1>6, <2>3, <3>1, <3>2 DEF ChainInv, Chain
      <4>2. c \in Busy(g)
        BY <1>5, <1>6, <2>3 DEF Busy, Hidden
      <4>3. \A d \in Busy(g) : d = c
        BY <1>1, <2>3, <3>2, <4>2 DEF AloneInv
      <4> QED
        BY <4>1, <4>3, CallNumbers
    <3> QED
      BY <1>5, <1>6, <2>3, <3>1, <3>2
  <2> QED
    BY <2>1, <2>2, <2>3
<1>16. ChainInv'
  <2> SUFFICES ASSUME NEW d \in Calls, d \in Pending, FileOf(d) \notin mixed
               PROVE  Chain(d)'
    BY <1>1, <1>11 DEF ChainInv, Chain
  <2>1. PICK g \in Files : g = FileOf(d)
    BY <1>1, CallTypes
  <2>2. Chain(d)
    BY <1>1 DEF ChainInv
  <2>3. \A e \in Calls : Succeeded(e, FileOf(d))' <=> Succeeded(e, FileOf(d))
    BY <1>1 DEF Succeeded, FileOf
  <2>4. CASE d = c
    BY <1>1, <1>5, <1>11, <2>2, <2>3, <2>4 DEF Chain
  <2>5. CASE d # c
    <3>1. disk'[FileOf(d)] = disk[FileOf(d)]
      BY <1>10, <1>14, <2>1, <2>5
    <3> QED
      BY <1>1, <1>11, <2>2, <2>3, <3>1 DEF Chain
  <2> QED
    BY <2>4, <2>5
<1>17. HeardInv'
  <2> SUFFICES ASSUME NEW b \in answers' PROVE Heard(b)'
    BY DEF HeardInv
  <2>1. answers' = answers \cup {a} /\ a.call = c /\ a.step = "write"
    BY <1>4 DEF Replies
  <2>2. CASE b = a
    <3>1. FileOf(a.call)' = f /\ Sent(a.call)' = Sent(c)
      BY <1>6, <1>11, <2>1
    <3>2. a.got = "text" => a.text = t
      BY <1>5, <1>7
    <3> QED
      BY <1>7, <1>10, <2>1, <2>2, <3>1, <3>2 DEF Heard
  <2>3. CASE b # a
    <3>1. b \in answers /\ b.call \in Calls /\ b.call # c /\ b.step \in Hidden
      BY <1>1, <1>5, <2>1, <2>3 DEF TypeInv, Answers
    <3>2. Heard(b)
      BY <1>1, <3>1 DEF HeardInv
    <3>3. CASE call[b.call].step = b.step /\ FileOf(b.call) \notin mixed
      <4>1. b.call \in Pending
        BY <3>1, <3>3 DEF Pending
      <4>2. FileOf(b.call) \in Files
        BY <1>1, <3>1, CallTypes
      <4>3. disk'[FileOf(b.call)] = disk[FileOf(b.call)]
        BY <1>10, <1>14, <3>1, <3>3, <4>1, <4>2
      <4> QED
        BY <1>1, <1>11, <3>1, <3>2, <4>3 DEF Heard
    <3>4. CASE ~(call[b.call].step = b.step /\ FileOf(b.call) \notin mixed)
      BY <1>1, <1>11, <3>1, <3>4 DEF Heard
    <3> QED
      BY <3>3, <3>4
  <2> QED
    BY <2>2, <2>3
<1> QED
  BY <1>2, <1>3, <1>13, <1>15, <1>16, <1>17 DEF EditInv

LEMMA ReplyRecords ==
    ASSUME EditInv, OneSpelling, NEW r \in asked, NEW q \in Spellings(r.path) \cup {r.path},
           NEW got \in {"text", "missing", "refused"}, NEW text \in Texts,
           Answer(r, q, got, text), UNCHANGED <<call, queue, turn, mixed>>
    PROVE  \E a : Replies(r, a) /\ a.got = got /\ a.text = text
<1>1. r \in Requests
  BY DEF EditInv, TypeInv
<1>2. q = r.path
  BY <1>1 DEF Spellings, OneSpelling, Requests
<1>3. PICK a : a = [call |-> r.call, turn |-> r.turn, step |-> r.step,
                    path |-> r.path, got |-> got, text |-> text]
  OBVIOUS
<1>4. a \in Answers
  BY <1>1, <1>3 DEF Requests, Answers
<1>5. asked' = asked \ {r} /\ answers' = answers \cup {a}
  BY <1>2, <1>3 DEF Answer
<1>6. a.call = r.call /\ a.turn = r.turn /\ a.step = r.step /\ a.path = r.path
      /\ a.got = got /\ a.text = text
  BY <1>3
<1> QED
  BY <1>4, <1>5, <1>6 DEF Replies

LEMMA ReadsKeep ==
    ASSUME EditInv, OneSpelling, NEW r \in asked, ClientReads(r)
    PROVE  EditInv'
<1>1. r \in Requests /\ TypeInv /\ TokenInv
  BY DEF EditInv, TypeInv
<1>2. r.step # "write" /\ UNCHANGED <<call, queue, disk, turn, mixed>>
  BY DEF ClientReads
<1>3. /\ r.call \in Calls /\ r.path = call[r.call].path
  BY <1>1 DEF TokenInv, Requests
<1>4. PICK f \in Files : f = FileAt[r.path] /\ f = FileOf(r.call)
  BY <1>1, <1>3, CallTypes DEF FileOf
<1>5. disk[f] \in Texts /\ Empty \in Texts
  BY <1>1 DEF TypeInv, Empty, Texts, Eols
<1>6. \A a : Replies(r, a) /\ a.got # "text" => Heard(a)
  BY DEF Heard
<1>7. CASE Answer(r, r.path, "missing", Empty) \/ Answer(r, r.path, "refused", Empty)
  <2>1. \E a : Replies(r, a) /\ a.got # "text"
    BY <1>2, <1>5, <1>7, ReplyRecords
  <2> QED
    BY <1>2, <1>6, <2>1, RepliesKeeps
<1>8. CASE /\ disk[f].base # NoFile
           /\ \E q \in Spellings(r.path) : Answer(r, q, "text", normalizeLineEndingsToLF(disk[f]))
  <2>1. PICK t \in Texts : t = normalizeLineEndingsToLF(disk[f])
    BY <1>5, TextFacts
  <2>2. t.base # NoFile
    BY <1>5, <1>8, <2>1, TextFacts
  <2>3. PICK q \in Spellings(r.path) : Answer(r, q, "text", t)
    BY <1>8, <2>1
  <2>4. PICK a : Replies(r, a) /\ a.got = "text" /\ a.text = t
    BY <1>2, <2>3, ReplyRecords
  <2>5. a.call = r.call /\ a.step # "write"
    BY <1>2, <2>4 DEF Replies
  <2>6. Heard(a)
    BY <1>4, <2>1, <2>2, <2>4, <2>5 DEF Heard
  <2> QED
    BY <1>2, <2>4, <2>6, RepliesKeeps
<1> QED
  BY <1>4, <1>7, <1>8 DEF ClientReads

LEMMA WritesKeep ==
    ASSUME EditInv, OneSpelling, NEW r \in asked, ClientWrites(r)
    PROVE  EditInv'
<1>1. r \in Requests
  BY DEF EditInv, TypeInv
<1>2. r.step = "write" /\ UNCHANGED <<call, queue, turn, mixed>>
  BY DEF ClientWrites
<1>3. AsWritten(r.text) \in Texts /\ Empty \in Texts
  BY <1>1, TextFacts DEF Requests, Empty, Texts, Eols
<1>4. CASE /\ disk' = [disk EXCEPT ![FileAt[r.path]] = AsWritten(r.text)]
           /\ \/ \E q \in Spellings(r.path) : Answer(r, q, "text", AsWritten(r.text))
              \/ Answer(r, r.path, "refused", Empty)
  <2>1. \E a : Replies(r, a) /\ (a.got = "text" => a.text = AsWritten(r.text))
    <3>1. CASE \E q \in Spellings(r.path) : Answer(r, q, "text", AsWritten(r.text))
      BY <1>2, <1>3, <3>1, ReplyRecords
    <3>2. CASE Answer(r, r.path, "refused", Empty)
      <4>1. PICK a : Replies(r, a) /\ a.got = "refused"
        BY <1>2, <1>3, <3>2, ReplyRecords
      <4> QED
        BY <4>1
    <3> QED
      BY <1>4, <3>1, <3>2
  <2> QED
    BY <1>2, <1>4, <2>1, WritesKeeps
<1>5. CASE Answer(r, r.path, "refused", Empty) /\ UNCHANGED disk
  <2>1. PICK a : Replies(r, a) /\ a.got = "refused"
    BY <1>2, <1>3, <1>5, ReplyRecords
  <2>2. Heard(a)
    BY <2>1 DEF Heard
  <2> QED
    BY <1>5, <2>1, <2>2, RepliesKeeps
<1> QED
  BY <1>4, <1>5 DEF ClientWrites

-----------------------------------------------------------------------------
(* A run intent drops the calls in flight; none is asked for or queued.    *)
LEMMA RerunKeeps ==
    ASSUME EditInv, Quirks = {}, handleRunIntent
    PROVE  EditInv'
<1>1. /\ TypeInv /\ OrderInv /\ QueueInv /\ TokenInv /\ DiskInv /\ AfterInv /\ MissedInv
      /\ asked = {} /\ \A p \in Paths : queue[p] = <<>>
      /\ UNCHANGED <<queue, disk, asked, answers, mixed>>
      /\ turn < MaxTurns /\ turn' = turn + 1
      /\ call' = [c \in Calls |-> IF c \in Pending THEN [call[c] EXCEPT !.step = "dropped"] ELSE call[c]]
  BY DEF EditInv, handleRunIntent
<1>2. \A d \in Calls :
         /\ d \notin Pending => call'[d] = call[d]
         /\ d \in Pending => call'[d].step = "dropped"
         /\ call'[d] \in Records /\ call'[d].tool = call[d].tool /\ call'[d].path = call[d].path
         /\ call'[d].turn = call[d].turn /\ call'[d].verdict = call[d].verdict
  <2> SUFFICES ASSUME NEW d \in Calls
               PROVE  /\ d \notin Pending => call'[d] = call[d]
                      /\ d \in Pending => call'[d].step = "dropped"
                      /\ call'[d] \in Records /\ call'[d].tool = call[d].tool
                      /\ call'[d].path = call[d].path /\ call'[d].turn = call[d].turn
                      /\ call'[d].verdict = call[d].verdict
    OBVIOUS
  <2>1. call[d] \in Records /\ "dropped" \in Steps
    BY <1>1 DEF TypeInv, Steps
  <2>2. call'[d] = IF d \in Pending THEN [call[d] EXCEPT !.step = "dropped"] ELSE call[d]
    BY <1>1
  <2> QED
    BY <2>1, <2>2 DEF Records
<1>3. \A d \in Calls : call[d].step # "queued"
  <2> SUFFICES ASSUME NEW d \in Calls, call[d].step = "queued" PROVE FALSE
    OBVIOUS
  <2>1. call[d].path \in Paths /\ \E i \in DOMAIN queue[call[d].path] : queue[call[d].path][i] = d
    BY <1>1, CallTypes DEF QueueInv
  <2>2. queue[call[d].path] = <<>> /\ DOMAIN <<>> = {}
    BY <1>1, <2>1
  <2> QED
    BY <2>1, <2>2
<1>4. \A d \in Calls : call'[d].step \notin Hidden \cup {"queued"}
  BY <1>2, <1>3 DEF Pending, Hidden
<1>5. /\ Pending' = {} /\ \A f \in Files : Busy(f)' = {}
      /\ \A d \in Calls, p \in Paths : ~InFlight(d, p)'
  BY <1>4 DEF Pending, Busy, InFlight
<1>6. \A d \in Calls : FileOf(d)' = FileOf(d)
  BY <1>2 DEF FileOf
<1>7. Kept
  BY <1>2, <1>4 DEF Kept, Pending, Hidden
<1>8. TypeInv'
  <2>1. call' \in [Calls -> Records]
    BY <1>1, <1>2
  <2>2. turn' \in 1 .. MaxTurns
    BY <1>1, BoundsAssumption DEF TypeInv
  <2> QED
    BY <1>1, <2>1, <2>2 DEF TypeInv
<1>9. OrderInv'
  <2>1. \A d \in Calls : /\ call'[d].step = "new" <=> call[d].step = "new"
                         /\ call'[d].tool = call[d].tool
                         /\ call'[d].verdict # "none" <=> call'[d].step = "done"
    BY <1>1, <1>2, <1>7 DEF OrderInv, Kept, Pending, Hidden
  <2> QED
    BY <1>1, <2>1 DEF OrderInv
<1>10. QueueInv'
  <2>1. \A p \in Paths : queue'[p] = <<>> /\ DOMAIN queue'[p] = {}
    BY <1>1
  <2>2. \A d \in Calls : call'[d].step # "queued" /\ call'[d].path \in Paths
    BY <1>2, <1>4 DEF Records
  <2> QED
    BY <1>5, <2>1, <2>2 DEF QueueInv
<1>11. TokenInv'
  <2>1. asked' = {} /\ answers' = answers
    BY <1>1
  <2>2. \A a \in answers : /\ a.call \in Calls
                           /\ call[a.call].step \in {a.step, "dropped"}
                           /\ a.turn = call[a.call].turn /\ a.path = call[a.call].path
    BY <1>1 DEF TypeInv, TokenInv, Answers
  <2>3. \A a \in answers : call'[a.call].step \in {a.step, "dropped"}
    BY <1>2, <2>2
  <2>4. \A a \in answers : a.turn = call'[a.call].turn /\ a.path = call'[a.call].path
    BY <1>2, <2>2
  <2>5. \A a, b \in answers : a.call = b.call => a = b
    BY <1>1 DEF TokenInv
  <2> QED
    BY <2>1, <2>3, <2>4, <2>5 DEF TokenInv
<1>12. AloneInv' /\ SentInv' /\ ChainInv'
  BY <1>1, <1>5 DEF AloneInv, SentInv, ChainInv, Chain
<1>13. AfterInv' /\ HeardInv'
  <2>1. AfterInv'
    BY <1>4 DEF AfterInv, Hidden
  <2>2. \A a \in answers : a.call \in Calls /\ a.step \in Hidden
    BY <1>1 DEF TypeInv, Answers
  <2>3. HeardInv'
    BY <1>1, <1>4, <2>2 DEF HeardInv, Heard
  <2> QED
    BY <2>1, <2>3
<1>14. DiskInv'
  <2>1. \A d \in Calls, f \in Files : Succeeded(d, f)' <=> Succeeded(d, f)
    BY <1>2, <1>6 DEF Succeeded
  <2> QED
    BY <1>1, <1>5, <1>6, <1>7, <2>1 DEF DiskInv, Kept
<1>15. MissedInv'
  <2>1. \A d \in Calls : Excused(d) => Excused(d)'
    BY <1>1, <1>7, KeptFacts
  <2> QED
    BY <1>1, <1>2, <1>6, <2>1 DEF MissedInv
<1> QED
  BY <1>8, <1>9, <1>10, <1>11, <1>12, <1>13, <1>14, <1>15 DEF EditInv

(* An answer that nobody waits for is put away.                            *)
LEMMA LateKeeps ==
    ASSUME EditInv, NEW a \in answers, LateAnswer(a)
    PROVE  EditInv'
<1>1. /\ answers' \subseteq answers
      /\ call' = call /\ queue' = queue /\ asked' = asked /\ disk' = disk /\ turn' = turn
      /\ mixed' = mixed
  BY DEF LateAnswer, Received
<1>2. OrderInv' /\ QueueInv' /\ AloneInv' /\ AfterInv' /\ MissedInv'
  BY <1>1, CallsRest
<1>3. TypeInv' /\ TokenInv'
  BY <1>1 DEF EditInv, TypeInv, TokenInv
<1>4. SentInv' /\ DiskInv'
  BY <1>1, CallsRest DEF EditInv, SentInv, DiskInv, TypeInv, Requests
<1>5. ChainInv'
  <2>1. \A d \in Calls : Chain(d)' <=> Chain(d)
    BY <1>1 DEF Chain, Pending, FileOf, Succeeded
  <2> QED
    BY <2>1 DEF EditInv, ChainInv
<1>6. HeardInv'
  <2>1. \A b : Heard(b)' <=> Heard(b)
    BY <1>1 DEF Heard, FileOf, Sent
  <2> QED
    BY <1>1, <2>1 DEF EditInv, HeardInv
<1> QED
  BY <1>2, <1>3, <1>4, <1>5, <1>6 DEF EditInv

-----------------------------------------------------------------------------
(* The invariant, and what follows from it.                                *)
LEMMA EditInvInit ==
    ASSUME Init PROVE EditInv
<1> DEFINE q == CHOOSE r \in Paths : TRUE
<1>1. Untouched = [tool |-> "PatchEdit", path |-> q, turn |-> 0, step |-> "new",
                   after |-> Empty, verdict |-> "none"]
  BY DEF Untouched
<1>2. /\ q \in Paths /\ Empty \in Texts /\ 0 \in 0 .. MaxTurns /\ 1 \in 1 .. MaxTurns
      /\ "new" \in Steps /\ "none" \in Verdicts
  BY BoundsAssumption DEF Empty, Texts, Eols, Steps, Verdicts
<1> HIDE DEF q
<1>3. Untouched \in Records /\ Untouched.step = "new" /\ Untouched.verdict = "none"
      /\ Untouched.tool = "PatchEdit"
  BY <1>1, <1>2 DEF Records
<1>4. \A c \in Calls : call[c] = Untouched
  BY DEF Init
<1>5. \A p \in Paths : queue[p] = <<>> /\ DOMAIN queue[p] = {}
  BY DEF Init
<1>6. asked = {} /\ answers = {} /\ mixed = {} /\ turn = 1
  BY DEF Init
<1>7. \A f \in Files : disk[f] \in Texts /\ disk[f].base \in {NoFile, Original}
  BY DEF Init, Texts, Eols, Empty
<1>8. TypeInv
  <2>1. call \in [Calls -> Records]
    BY <1>3 DEF Init
  <2>2. queue \in [Paths -> Seq(Calls)]
    BY DEF Init
  <2>3. disk \in [Files -> Texts]
    BY <1>7 DEF Init
  <2> QED
    BY <1>2, <1>6, <2>1, <2>2, <2>3 DEF TypeInv
<1>9. OrderInv /\ MissedInv /\ AfterInv
  BY <1>3, <1>4 DEF OrderInv, MissedInv, AfterInv
<1>10. Pending = {} /\ \A f \in Files : Busy(f) = {}
  BY <1>3, <1>4 DEF Pending, Busy, Hidden
<1>11. QueueInv
  <2>1. \A c \in Calls : call[c].step # "queued" /\ call[c].path \in Paths
    BY <1>3, <1>4 DEF Records
  <2> QED
    BY <1>5, <1>10, <2>1 DEF QueueInv, InFlight
<1>12. TokenInv /\ SentInv /\ HeardInv /\ AloneInv /\ ChainInv
  BY <1>6, <1>10 DEF TokenInv, SentInv, HeardInv, AloneInv, ChainInv, Chain
<1>13. DiskInv
  <2>1. \A f \in Files : disk[f].base \notin Calls
    BY <1>7, CallNumbers
  <2>2. \A d \in Calls, f \in Files : ~Succeeded(d, f)
    BY <1>3, <1>4 DEF Succeeded
  <2> QED
    BY <2>1, <2>2 DEF DiskInv
<1> QED
  BY <1>8, <1>9, <1>11, <1>12, <1>13 DEF EditInv

LEMMA EditInvNext ==
    ASSUME EditInv, OneSpelling, NeedsEarlier, Quirks = {}, [Next]_vars
    PROVE  EditInv'
<1>1. CASE UNCHANGED vars
  <2>1. /\ call' = call /\ queue' = queue /\ disk' = disk /\ asked' = asked /\ answers' = answers
        /\ turn' = turn /\ mixed' = mixed
    BY <1>1 DEF vars
  <2>2. OrderInv' /\ QueueInv' /\ AloneInv' /\ AfterInv' /\ MissedInv'
    BY <2>1, CallsRest
  <2>3. TypeInv' /\ TokenInv' /\ SentInv' /\ DiskInv'
    BY <2>1, CallsRest DEF EditInv, TypeInv, TokenInv, SentInv, DiskInv, Requests
  <2>4. /\ \A d \in Calls : Chain(d)' <=> Chain(d)
        /\ \A b : Heard(b)' <=> Heard(b)
    BY <2>1 DEF Chain, Pending, FileOf, Succeeded, Heard, Sent
  <2> QED
    BY <2>1, <2>2, <2>3, <2>4 DEF EditInv, ChainInv, HeardInv
<1>2. ASSUME NEW c \in Calls,
             \/ handlePatchEditToolInvocation(c)
             \/ MalformedPatchEdit(c)
             \/ handleWriteToolInvocation(c)
      PROVE  EditInv'
  <2>1. \E y : Begins(c, y)
    BY <1>2, PatchEditBegins, MalformedBegins, WriteBegins DEF EditInv
  <2> QED
    BY <2>1, BeginsKeeps
<1>3. ASSUME NEW c \in Calls, Handle(c)
      PROVE  EditInv'
  <2>1. PICK a \in answers : Answered(c, a)
    BY <1>3, PatchEditMoves, WriteMoves DEF Handle
  <2> QED
    BY <2>1, GoesKeeps, EndsKeeps DEF Answered
<1>4. CASE handleRunIntent
  BY <1>4, RerunKeeps
<1>5. ASSUME NEW r \in asked, ClientReads(r) \/ ClientWrites(r)
      PROVE  EditInv'
  BY <1>5, ReadsKeep, WritesKeep
<1>6. ASSUME NEW a \in answers, LateAnswer(a)
      PROVE  EditInv'
  BY <1>6, LateKeeps
<1> QED
  BY <1>1, <1>2, <1>3, <1>4, <1>5, <1>6 DEF Next

LEMMA EditInvGives ==
    ASSUME EditInv PROVE EditsBuildUp
<1>1. NoEditLost
  <2>1. DiskInv /\ \A c \in Calls : FileOf(c) \in Files
    BY CallTypes DEF EditInv
  <2> QED
    BY <2>1 DEF NoEditLost, DiskInv, Succeeded
<1>2. EditsInOrder
  BY DEF EditInv, MissedInv, Excused, EditsInOrder
<1> QED
  BY <1>1, <1>2 DEF EditsBuildUp

LEMMA EditInvTypes ==
    ASSUME EditInv PROVE TypeOK
<1>1. TypeInv /\ QueueInv
  BY DEF EditInv
<1>2. {c \in Calls : call[c].step = "queued"}
        = UNION {{queue[p][i] : i \in DOMAIN queue[p]} : p \in Paths}
  <2>1. ASSUME NEW c \in Calls, call[c].step = "queued"
        PROVE  \E p \in Paths : \E i \in DOMAIN queue[p] : queue[p][i] = c
    <3>1. call[c].path \in Paths
      BY <1>1, CallTypes
    <3> QED
      BY <1>1, <2>1, <3>1 DEF QueueInv
  <2>2. ASSUME NEW p \in Paths, NEW i \in DOMAIN queue[p]
        PROVE  queue[p][i] \in Calls /\ call[queue[p][i]].step = "queued"
    <3>1. queue[p][i] \in Calls
      BY <1>1 DEF TypeInv
    <3>2. call[queue[p][i]].path = p
      BY <1>1 DEF QueueInv
    <3> QED
      BY <1>1, <3>1, <3>2 DEF QueueInv
  <2> QED
    BY <2>1, <2>2
<1> QED
  BY <1>1, <1>2 DEF TypeOK, TypeInv, Records, Verdicts

(* What a call reports is in the file when it does.                        *)
LEMMA ReportsAreTruthful ==
    ASSUME EditInv, OneSpelling, NeedsEarlier, Quirks = {}, [Next]_vars, NEW c \in Calls,
           call[c].verdict # "success", call'[c].verdict = "success", FileOf(c) \notin mixed
    PROVE  SameText(call'[c].after, disk[FileOf(c)])
<1>1. call' # call
  OBVIOUS
<1>2. ASSUME NEW d \in Calls,
             \/ handlePatchEditToolInvocation(d)
             \/ MalformedPatchEdit(d)
             \/ handleWriteToolInvocation(d)
      PROVE  FALSE
  <2>1. PICK y : Begins(d, y)
    BY <1>2, PatchEditBegins, MalformedBegins, WriteBegins DEF EditInv
  <2>2. y.verdict # "success"
    BY <2>1 DEF Begins, Untold
  <2> QED
    BY <2>1, <2>2, BeginsFacts
<1>3. ASSUME NEW d \in Calls, Handle(d)
      PROVE  SameText(call'[c].after, disk[FileOf(c)])
  <2>1. PICK a \in answers : Answered(d, a)
    BY <1>3, PatchEditMoves, WriteMoves DEF Handle
  <2>2. CASE \E y : Goes(d, y, a)
    BY <2>2, GoesFacts
  <2>3. CASE \E y, next : Ends(d, y, a, next)
    <3>1. PICK y, next : Ends(d, y, a, next)
      BY <2>3
    <3>2. c = d /\ call'[c] = y
      BY <3>1, EndsFacts
    <3>3. Knows(c, y)
      BY <3>1, <3>2 DEF Ends
    <3> QED
      BY <3>2, <3>3 DEF Knows
  <2> QED
    BY <2>1, <2>2, <2>3 DEF Answered
<1>4. CASE handleRunIntent
  BY <1>4 DEF handleRunIntent, EditInv, TypeInv, Records
<1>5. ~UNCHANGED vars
  BY <1>1 DEF vars
<1>6. \A r \in asked : ~ClientReads(r) /\ ~ClientWrites(r)
  BY <1>1 DEF ClientReads, ClientWrites
<1>7. \A a \in answers : ~LateAnswer(a)
  BY <1>1 DEF LateAnswer
<1> QED
  BY <1>2, <1>3, <1>4, <1>5, <1>6, <1>7 DEF Next

LEMMA Reached ==
    OneSpelling /\ NeedsEarlier /\ Quirks = {} => (Spec => []EditInv)
<1> SUFFICES ASSUME OneSpelling, NeedsEarlier, Quirks = {} PROVE Spec => []EditInv
  OBVIOUS
<1>1. EditInv /\ [Next]_vars => EditInv'
  BY EditInvNext
<1> QED
  BY <1>1, EditInvInit, PTL DEF Spec

(* Every call is where the actor and its queue have it, with a verdict     *)
(* only once it has ended (handlePatchEditToolInvocation,                  *)
(* handleWriteToolInvocation and their exec results).                      *)
THEOREM EditsTypeCorrect ==
    OneSpelling /\ NeedsEarlier /\ Quirks = {} => (Spec => []TypeOK)
<1> SUFFICES ASSUME OneSpelling, NeedsEarlier, Quirks = {} PROVE Spec => []TypeOK
  OBVIOUS
<1>1. EditInv => TypeOK
  BY EditInvTypes
<1> QED
  BY <1>1, Reached, PTL

(* The edits of a file build on each other: what a PatchEdit reported as   *)
(* done stays in the file until a later Write replaces it, and an edit     *)
(* whose old_string earlier edits wrote finds it, unless one of those did  *)
(* not succeed (startOrQueuePatchEditOperation and                         *)
(* takeNextQueuedPatchEditOperation).                                      *)
THEOREM EditsDoBuildUp ==
    OneSpelling /\ NeedsEarlier /\ Quirks = {} => (Spec => []EditsBuildUp)
<1> SUFFICES ASSUME OneSpelling, NeedsEarlier, Quirks = {} PROVE Spec => []EditsBuildUp
  OBVIOUS
<1>1. EditInv => EditsBuildUp
  BY EditInvGives
<1> QED
  BY <1>1, Reached, PTL

(* The text a call reports is that of the file, up to CRLF and LF, at the  *)
(* moment it does (reconcilePatchEditObservedContent and                   *)
(* reconcilePostWriteObservedContent).                                     *)
THEOREM ReportsMatchTheFile ==
    OneSpelling /\ NeedsEarlier /\ Quirks = {} => (Spec => ReportIsTruthful)
<1> SUFFICES ASSUME OneSpelling, NeedsEarlier, Quirks = {} PROVE Spec => ReportIsTruthful
  OBVIOUS
<1>1. EditInv /\ [Next]_vars =>
        [\A c \in Calls :
            (call[c].verdict # "success" /\ call'[c].verdict = "success" /\ FileOf(c) \notin mixed)
            => SameText(call'[c].after, disk[FileOf(c)])]_vars
  BY ReportsAreTruthful
<1> QED
  BY <1>1, Reached, PTL DEF ReportIsTruthful, Spec
=============================================================================
