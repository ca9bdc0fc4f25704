------------------------- MODULE ShellSessionsProofs -------------------------
(***************************************************************************)
(* Theorems about ShellSessions for any shells and any limits: a call has  *)
(* one result, the end of a background command is not lost, and no output  *)
(* is shown twice.                                                         *)
(***************************************************************************)
EXTENDS ShellSessions, SequenceTheorems, TLAPS

Chunks == Seq(Nat)

Events == {"start", "rejected", "permission_denied", "throw", "out", "backgrounded",
           "forced", "exit", "task_done", "close", "deadline_fired", "close_fired"}

Messages == [shell : Shells, ev : Events, chunk : Nat]

Commands == [state : {"off", "asked", "running", "background", "ended"},
             printed : Nat, stream : {"open", "closed"}]
Files == [out : Chunks, ended : BOOLEAN]
PendingExecs == [state : {"none", "done"} \cup Open, out : Chunks, scheduled : BOOLEAN]
Results == [verdict : Verdicts \cup {"incomplete"}, out : Chunks]
BackgroundShells == [status : {"none", "running", "backgrounded"} \cup Terminal,
                     out : Chunks, offset : Nat]

TypeOK ==
    /\ proc \in [Shells -> Commands]
    /\ via \in [Shells -> Vias]
    /\ file \in [Shells -> Files]
    /\ inbox \in Seq(Messages)
    /\ pending \in [Shells -> PendingExecs]
    /\ timers \subseteq {"deadline", "close"} \X Shells
    /\ result \in [Shells -> Seq(Results)]
    /\ bg \in [Shells -> BackgroundShells]
    /\ known \subseteq Shells
    /\ waiting \subseteq Shells
    /\ seen \in [Shells -> Chunks]

(* A call that was not made is not pending.                                *)
CallInv ==
    \A s \in Shells :
        /\ proc[s].state = "off" => pending[s].state = "none"
        /\ pending[s].state = "done" => Len(result[s]) = 1
        /\ pending[s].state # "done" => result[s] = <<>>

(* The messages of a call that wait for the actor.                         *)
At(i, s, kinds) == inbox[i].shell = s /\ inbox[i].ev \in kinds
Waits(s, kinds) == \E i \in DOMAIN inbox : At(i, s, kinds)

Ends == {"exit", "task_done"}

(* The command went to the background, and the server knows or will hear.  *)
Moved(s) == s \in known \/ Waits(s, {"backgrounded"})

ToldBackground(s) == \E i \in DOMAIN result[s] : result[s][i].verdict = "backgrounded"

(* What takes the shell out of its terminal state waits in front of an end; *)
(* and the shell is at its end, or an end waits.                           *)
EndOK(s) ==
    /\ ToldBackground(s) => s \in known
    /\ Moved(s) => proc[s].state \in {"background", "ended"}
    /\ proc[s].state = "background" => proc[s].stream = "open"
    /\ Moved(s) /\ proc[s].state = "ended" =>
          /\ \A i \in DOMAIN inbox : At(i, s, {"out", "backgrounded", "forced"}) =>
                \E j \in DOMAIN inbox : j > i /\ At(j, s, Ends)
          /\ s \in known => bg[s].status \in Terminal \/ Waits(s, Ends)

EndInv == \A s \in Shells : EndOK(s)

Rising(q) == \A i, j \in DOMAIN q : i < j => q[i] < q[j]
Within(q, n) == \A i \in DOMAIN q : q[i] <= n

(* The buffer of shell b, its terminal file's output f, and what was shown *)
(* of it, sn, when the command has printed n chunks.                       *)
BufferOK(b, f, sn, n) ==
    /\ Rising(b.out) /\ Within(b.out, n)
    /\ Rising(f) /\ Within(f, n)
    /\ Rising(sn) /\ Within(sn, n)
    /\ b.out = <<>> => b.offset = 0 /\ sn = <<>>
    /\ \A i \in DOMAIN sn, k \in DOMAIN b.out : k > b.offset => sn[i] < b.out[k]

(* Over the stream the chunks come in order, above all that was heard.     *)
StreamHeard(s) ==
    via[s] = "stream" =>
        /\ file[s] = [out |-> <<>>, ended |-> FALSE]
        /\ s \notin known => bg[s].out = <<>>
        /\ \A i \in DOMAIN inbox : At(i, s, {"out"}) =>
              /\ inbox[i].chunk <= proc[s].printed
              /\ \A j \in DOMAIN inbox : j > i /\ At(j, s, {"out"}) =>
                    inbox[i].chunk < inbox[j].chunk
              /\ \A k \in DOMAIN bg[s].out : bg[s].out[k] < inbox[i].chunk
              /\ \A k \in DOMAIN seen[s] : seen[s][k] < inbox[i].chunk

(* Of a command whose output goes to its file nothing is heard once the    *)
(* server knows it is in the background.                                   *)
FileHeard(s) ==
    via[s] = "file" =>
        /\ s \in known => ~Waits(s, {"out"})
        /\ \A i \in DOMAIN inbox : At(i, s, {"backgrounded"}) =>
              \A j \in DOMAIN inbox : j > i => ~At(j, s, {"out"})

ShownInv ==
    \A s \in Shells : /\ BufferOK(bg[s], file[s].out, seen[s], proc[s].printed)
                      /\ StreamHeard(s) /\ FileHeard(s)

ShellInv == TypeOK /\ CallInv /\ EndInv

-----------------------------------------------------------------------------
(* Buffers: what is left of a buffer that was cut is its end.              *)
EndOf(r, out) ==
    /\ r \in Chunks
    /\ \E d \in Nat : /\ Len(out) = Len(r) + d
                      /\ \A k \in DOMAIN r : k + d \in DOMAIN out /\ r[k] = out[k + d]

LEMMA CutFacts ==
    ASSUME NEW out \in Chunks, NEW n \in Nat \ {0}
    PROVE  LET r == IF Len(out) <= n THEN out ELSE SubSeq(out, Len(out) - n + 1, Len(out)) IN
           EndOf(r, out) /\ (out # <<>> => r # <<>>)
<1>1. Len(out) \in Nat /\ DOMAIN out = 1..Len(out) /\ out \in Seq(Nat)
  BY LenProperties DEF Chunks
<1>2. EndOf(out, out)
  <2>1. \A k \in DOMAIN out : k + 0 \in DOMAIN out /\ out[k] = out[k + 0]
    BY <1>1
  <2>2. Len(out) = Len(out) + 0
    BY <1>1
  <2> QED
    BY <2>1, <2>2 DEF EndOf
<1>3. ASSUME ~(Len(out) <= n)
      PROVE  LET r == SubSeq(out, Len(out) - n + 1, Len(out)) IN EndOf(r, out) /\ r # <<>>
  <2> DEFINE d == Len(out) - n
             m == d + 1
             r == SubSeq(out, m, Len(out))
  <2>1. d \in Nat /\ Len(out) = n + d /\ m \in Int /\ Len(out) \in Int /\ m <= Len(out)
        /\ Len(out) - m + 1 = n /\ \A k \in 1..n : m + k - 1 = k + d /\ k + d \in 1..Len(out)
    BY <1>1, <1>3
  <2>2. \A i \in m .. Len(out) : out[i] \in Nat
    BY <1>1, <2>1, ElementOfSeq
  <2> HIDE DEF d, m
  <2>3. /\ r \in Seq(Nat) /\ Len(r) = n
        /\ \A i \in 1..n : r[i] = out[m + i - 1]
    BY <2>1, <2>2, SubSeqProperties
  <2> HIDE DEF r
  <2>4. DOMAIN r = 1..n
    BY <2>3, LenProperties
  <2>5. EndOf(r, out)
    BY <1>1, <2>1, <2>3, <2>4 DEF EndOf, Chunks
  <2>6. r # <<>>
    BY <2>3, EmptySeq
  <2> QED
    BY <2>5, <2>6 DEF r, m, d
<1> QED
  BY <1>2, <1>3

LEMMA ClampFacts ==
    ASSUME NEW out \in Chunks
    PROVE  LET r == clampShellBuffer(out) IN EndOf(r, out) /\ (out # <<>> => r # <<>>)
<1>1. BufferCap \in Nat \ {0}
  BY LimitsAssumption
<1> QED
  BY <1>1, CutFacts DEF clampShellBuffer

LEMMA TruncateFacts ==
    ASSUME NEW out \in Chunks
    PROVE  EndOf(truncateAwaitShellOutput(out), out)
<1>1. OutputLimit \in Nat \ {0}
  BY LimitsAssumption
<1> QED
  BY <1>1, CutFacts DEF truncateAwaitShellOutput

(* A message of the client is the last in the mailbox.                     *)
Added(s, events) ==
    /\ inbox' \in Seq(Messages)
    /\ Len(inbox') = Len(inbox) + Len(events)
    /\ \A i \in DOMAIN inbox : i \in DOMAIN inbox' /\ inbox'[i] = inbox[i]
    /\ \A i \in DOMAIN inbox' \ DOMAIN inbox :
          /\ i > Len(inbox) /\ i - Len(inbox) \in DOMAIN events
          /\ inbox'[i].shell = s /\ inbox'[i].ev = events[i - Len(inbox)]
          /\ inbox'[i].chunk = proc[s].printed + 1

LEMMA SentMessages ==
    ASSUME TypeOK, NEW s \in Shells, NEW events \in Seq(Events), Send(s, events)
    PROVE  Added(s, events) /\ UNCHANGED <<via, server>>
<1> DEFINE m == [i \in DOMAIN events |-> Event(s, events[i])]
<1>1. inbox' = inbox \o m /\ UNCHANGED <<via, server>>
  BY DEF Send
<1>2. /\ m \in Seq(Messages) /\ Len(m) = Len(events) /\ DOMAIN m = DOMAIN events
      /\ \A i \in DOMAIN events : m[i] = Event(s, events[i])
  <2>1. \A i \in DOMAIN events : Event(s, events[i]) \in Messages
    BY DEF Event, Messages, TypeOK, Commands
  <2>2. DOMAIN events = 1..Len(events) /\ Len(events) \in Nat
    OBVIOUS
  <2>3. m \in [1..Len(events) -> Messages]
    BY <2>1, <2>2
  <2>4. m \in Seq(Messages)
    BY <2>2, <2>3, SeqDef
  <2> QED
    BY <2>2, <2>3, <2>4, LenProperties
<1> HIDE DEF m
<1>3. inbox \in Seq(Messages)
  BY DEF TypeOK
<1>4. /\ inbox' \in Seq(Messages) /\ Len(inbox') = Len(inbox) + Len(m)
      /\ \A i \in 1 .. Len(inbox) + Len(m) :
            inbox'[i] = IF i <= Len(inbox) THEN inbox[i] ELSE m[i - Len(inbox)]
      /\ DOMAIN inbox' = 1..Len(inbox')
  <2>1. /\ inbox \o m \in Seq(Messages) /\ Len(inbox \o m) = Len(inbox) + Len(m)
        /\ \A i \in 1 .. Len(inbox) + Len(m) :
              (inbox \o m)[i] = IF i <= Len(inbox) THEN inbox[i] ELSE m[i - Len(inbox)]
    BY <1>2, <1>3, ConcatProperties
  <2>2. inbox' \in Seq(Messages)
    BY <1>1, <2>1
  <2> QED
    BY <1>1, <2>1, <2>2, LenProperties
<1>5. /\ Len(inbox) \in Nat /\ DOMAIN inbox = 1..Len(inbox)
      /\ Len(m) \in Nat /\ DOMAIN m = 1..Len(m)
  BY <1>2, <1>3, LenProperties
<1>6. ASSUME NEW i \in DOMAIN inbox' \ DOMAIN inbox
      PROVE  /\ i > Len(inbox) /\ i - Len(inbox) \in DOMAIN events
             /\ inbox'[i] = Event(s, events[i - Len(inbox)])
  <2>1. i \in 1..Len(inbox) + Len(m) /\ i \notin 1..Len(inbox)
    BY <1>4, <1>5, <1>6
  <2>2. ~(i <= Len(inbox)) /\ i > Len(inbox) /\ i - Len(inbox) \in 1..Len(m)
    BY <1>5, <2>1
  <2> QED
    BY <1>2, <1>4, <1>5, <2>1, <2>2
<1>7. \A i \in DOMAIN inbox : i \in DOMAIN inbox' /\ inbox'[i] = inbox[i]
  BY <1>4, <1>5
<1> QED
  BY <1>1, <1>2, <1>4, <1>6, <1>7 DEF Added, Event


-----------------------------------------------------------------------------
(* What a step of the client leaves of a command.                          *)
Command(s, q) ==
    /\ q \in Commands
    /\ proc' = [proc EXCEPT ![s] = q]

LEMMA CommandMoves ==
    ASSUME TypeOK, NEW s \in Shells, NEW q, Command(s, q)
    PROVE  /\ proc' \in [Shells -> Commands]
           /\ proc'[s] = q
           /\ \A t \in Shells \ {s} : proc'[t] = proc[t]
BY DEF TypeOK, Command

LEMMA ClientStates ==
    ASSUME TypeOK, NEW s \in Shells, NEW x \in {"running", "background", "ended"},
           proc' = [proc EXCEPT ![s].state = x]
    PROVE  \E q : /\ Command(s, q) /\ q.state = x
                  /\ q.printed = proc[s].printed /\ q.stream = proc[s].stream
<1> DEFINE q == [proc[s] EXCEPT !.state = x]
<1>1. proc' = [proc EXCEPT ![s] = q]
  OBVIOUS
<1>2. proc[s] \in Commands
  BY DEF TypeOK
<1>3. q \in Commands /\ q.state = x /\ q.printed = proc[s].printed /\ q.stream = proc[s].stream
  BY <1>2 DEF Commands
<1> QED
  BY <1>1, <1>3 DEF Command

(* A step of the client keeps the order in which the server hears of the   *)
(* background and of the end.                                              *)
LEMMA ClientStep ==
    ASSUME ShellInv, NEW s \in Shells, NEW events \in Seq(Events), Send(s, events),
           NEW q, Command(s, q), q.state # "off", file' \in [Shells -> Files],
           (\E k \in DOMAIN events : events[k] = "backgrounded") => q.state = "background",
           proc[s].state \in {"background", "ended"} => q.state \in {"background", "ended"},
           q.state = "background" => q.stream = "open",
           q.state = "ended" =>
               \/ proc[s].state \notin {"background", "ended"}
               \/ /\ \A k \in DOMAIN events : events[k] \notin {"out", "backgrounded", "forced"}
                  /\ \/ proc[s].state = "ended"
                     \/ \E k \in DOMAIN events : events[k] \in Ends
    PROVE  ShellInv'
<1>1. TypeOK /\ CallInv /\ EndInv
  BY DEF ShellInv
<1>2. Added(s, events) /\ UNCHANGED <<via, pending, timers, result, bg, known, waiting, seen>>
  BY <1>1, SentMessages DEF server
<1>3. /\ proc' \in [Shells -> Commands] /\ proc'[s] = q
      /\ \A t \in Shells \ {s} : proc'[t] = proc[t]
  BY <1>1, CommandMoves
<1>4. TypeOK'
  BY <1>1, <1>2, <1>3 DEF TypeOK, Added
<1>5. CallInv'
  BY <1>1, <1>2, <1>3 DEF CallInv, TypeOK
<1>6. /\ DOMAIN inbox \subseteq Nat /\ DOMAIN inbox' \subseteq Nat /\ Len(inbox) \in Nat
      /\ DOMAIN inbox = 1..Len(inbox)
  BY <1>1, <1>2, LenProperties DEF TypeOK, Added
<1>7. ASSUME NEW t \in Shells \ {s}
      PROVE  /\ \A K : \A i \in DOMAIN inbox' : At(i, t, K)' <=> i \in DOMAIN inbox /\ At(i, t, K)
             /\ \A i \in DOMAIN inbox : i \in DOMAIN inbox'
  BY <1>2, <1>7 DEF Added, At
<1>8. /\ \A K : \A i \in DOMAIN inbox : i \in DOMAIN inbox' /\ (At(i, s, K)' <=> At(i, s, K))
      /\ \A K : \A i \in DOMAIN inbox' \ DOMAIN inbox :
            At(i, s, K)' => \E k \in DOMAIN events : events[k] \in K
  BY <1>2 DEF Added, At
<1>9. ASSUME NEW K, NEW k \in DOMAIN events, events[k] \in K
      PROVE  \E i \in DOMAIN inbox' \ DOMAIN inbox : At(i, s, K)'
  <2>1. Len(inbox) + k \in DOMAIN inbox' \ DOMAIN inbox /\ (Len(inbox) + k) - Len(inbox) = k
    <3>1. k \in 1..Len(events) /\ Len(events) \in Nat /\ DOMAIN inbox' = 1..Len(inbox')
      BY <1>2, LenProperties DEF Added
    <3> QED
      BY <1>2, <1>6, <3>1 DEF Added
  <2> QED
    BY <1>2, <1>9, <2>1 DEF Added, At
<1>10. ASSUME NEW t \in Shells \ {s}
       PROVE  EndOK(t)'
  <2>1. EndOK(t) /\ proc'[t] = proc[t]
    BY <1>1, <1>3 DEF EndInv
  <2>2. Waits(t, {"backgrounded"})' <=> Waits(t, {"backgrounded"})
    BY <1>7, <1>10 DEF Waits
  <2>3. Waits(t, Ends)' <=> Waits(t, Ends)
    BY <1>7, <1>10 DEF Waits
  <2>4. ToldBackground(t)' <=> ToldBackground(t)
    BY <1>2 DEF ToldBackground
  <2> QED
    BY <1>2, <1>7, <1>10, <2>1, <2>2, <2>3, <2>4 DEF EndOK, Moved
<1>11. EndOK(s)'
  <2>1. EndOK(s) /\ proc'[s] = q
    BY <1>1, <1>3 DEF EndInv
  <2>2. ToldBackground(s)' <=> ToldBackground(s)
    BY <1>2 DEF ToldBackground
  <2>3. Moved(s)' => q.state = "background" \/ Moved(s)
    BY <1>2, <1>8 DEF Moved, Waits
  <2>4. ASSUME Moved(s)', q.state = "ended"
        PROVE  /\ \A i \in DOMAIN inbox' : At(i, s, {"out", "backgrounded", "forced"})' =>
                     \E j \in DOMAIN inbox' : j > i /\ At(j, s, Ends)'
               /\ s \in known => bg[s].status \in Terminal \/ Waits(s, Ends)'
    <3>1. Moved(s) /\ proc[s].state \in {"background", "ended"}
      BY <2>1, <2>3, <2>4 DEF EndOK
    <3>2. \A i \in DOMAIN inbox' : At(i, s, {"out", "backgrounded", "forced"})' =>
             i \in DOMAIN inbox /\ At(i, s, {"out", "backgrounded", "forced"})
      BY <1>8, <2>4, <3>1
    <3>3. CASE \E k \in DOMAIN events : events[k] \in Ends
      <4>1. PICK j \in DOMAIN inbox' \ DOMAIN inbox : At(j, s, Ends)'
        BY <1>9, <3>3
      <4>2. \A i \in DOMAIN inbox : j > i
        BY <1>6, <4>1
      <4> QED
        BY <3>2, <4>1, <4>2 DEF Waits
    <3>4. CASE proc[s].state = "ended"
      BY <1>8, <2>1, <3>1, <3>2, <3>4 DEF EndOK, Waits
    <3> QED
      BY <2>4, <3>1, <3>3, <3>4
  <2> QED
    BY <1>2, <2>1, <2>2, <2>3, <2>4 DEF EndOK
<1> QED
  BY <1>4, <1>5, <1>10, <1>11 DEF ShellInv, EndInv


(* What a step of the client adds is above all that was heard or shown.    *)
LEMMA WithinLater ==
    ASSUME NEW r \in Chunks, NEW n \in Nat, NEW m \in Nat, n <= m, Within(r, n)
    PROVE  Within(r, m)
<1>1. \A i \in DOMAIN r : r[i] \in Nat
  BY ElementOfSeq, LenProperties DEF Chunks
<1> QED
  BY <1>1 DEF Within

LEMMA RisingAppend ==
    ASSUME NEW r \in Chunks, NEW n \in Nat, Rising(r), Within(r, n)
    PROVE  Rising(Append(r, n + 1)) /\ Within(Append(r, n + 1), n + 1)
<1> DEFINE a == Append(r, n + 1)
<1>1. /\ a \in Seq(Nat) /\ Len(a) = Len(r) + 1 /\ a[Len(r) + 1] = n + 1
      /\ \A k \in 1..Len(r) : a[k] = r[k]
  BY AppendProperties DEF Chunks
<1>2. /\ DOMAIN r = 1..Len(r) /\ Len(r) \in Nat /\ DOMAIN a = 1..(Len(r) + 1)
      /\ \A k \in DOMAIN r : r[k] \in Nat /\ r[k] <= n
  BY <1>1, LenProperties, ElementOfSeq DEF Chunks, Within
<1> HIDE DEF a
<1>3. \A k \in DOMAIN a : (k \in DOMAIN r /\ a[k] = r[k]) \/ (k = Len(r) + 1 /\ a[k] = n + 1)
  BY <1>1, <1>2
<1>4. \A k \in DOMAIN a : a[k] <= n + 1
  BY <1>2, <1>3
<1>5. \A i, j \in DOMAIN a : i < j => a[i] < a[j]
  <2> SUFFICES ASSUME NEW i \in DOMAIN a, NEW j \in DOMAIN a, i < j PROVE a[i] < a[j]
    OBVIOUS
  <2>1. i \in DOMAIN r /\ a[i] = r[i] /\ r[i] \in Nat /\ r[i] <= n
    BY <1>2, <1>3
  <2>2. CASE j \in DOMAIN r /\ a[j] = r[j]
    BY <2>1, <2>2 DEF Rising
  <2>3. CASE a[j] = n + 1
    BY <2>1, <2>3
  <2> QED
    BY <1>3, <2>2, <2>3
<1> QED
  BY <1>4, <1>5 DEF Rising, Within, a

LEMMA BufferLater ==
    ASSUME NEW b \in BackgroundShells, NEW f, NEW sn \in Chunks, NEW n \in Nat, NEW m \in Nat,
           n <= m, BufferOK(b, f, sn, n), NEW g, Rising(g), Within(g, m)
    PROVE  BufferOK(b, g, sn, m)
<1>1. b.out \in Chunks
  BY DEF BackgroundShells
<1>2. Within(b.out, m) /\ Within(sn, m)
  BY <1>1, WithinLater DEF BufferOK
<1> QED
  BY <1>2 DEF BufferOK

LEMMA ClientShows ==
    ASSUME ShellInv, ShownInv, NEW s \in Shells, NEW events \in Seq(Events), Send(s, events),
           NEW q, Command(s, q), proc[s].printed <= q.printed,
           \A t \in Shells \ {s} : file'[t] = file[t],
           via[s] = "stream" => file'[s] = file[s],
           Rising(file'[s].out), Within(file'[s].out, q.printed),
           (\E k \in DOMAIN events : events[k] = "out") =>
               /\ DOMAIN events = {1} /\ q.printed = proc[s].printed + 1
               /\ via[s] = "file" => proc[s].state \notin {"background", "ended"}
    PROVE  ShownInv'
<1>1. TypeOK /\ EndInv
  BY DEF ShellInv
<1>2. Added(s, events) /\ UNCHANGED <<via, pending, timers, result, bg, known, waiting, seen>>
  BY <1>1, SentMessages DEF server
<1>3. /\ proc' \in [Shells -> Commands] /\ proc'[s] = q
      /\ \A t \in Shells \ {s} : proc'[t] = proc[t]
  BY <1>1, CommandMoves
<1>4. /\ DOMAIN inbox \subseteq Nat /\ DOMAIN inbox' \subseteq Nat /\ Len(inbox) \in Nat
      /\ DOMAIN inbox = 1..Len(inbox)
  BY <1>1, <1>2, LenProperties DEF TypeOK, Added
<1>5. \A i \in DOMAIN inbox : i \in DOMAIN inbox' /\ inbox'[i] = inbox[i]
  BY <1>2 DEF Added
<1>6. ASSUME NEW t \in Shells \ {s}
      PROVE  BufferOK(bg[t], file[t].out, seen[t], proc[t].printed)' /\ StreamHeard(t)' /\ FileHeard(t)'
  <2>1. \A K : \A i \in DOMAIN inbox' : At(i, t, K)' => i \in DOMAIN inbox /\ At(i, t, K)
    BY <1>2, <1>6 DEF Added, At
  <2>2. \A K : Waits(t, K)' => Waits(t, K)
    BY <2>1 DEF Waits
  <2>3. BufferOK(bg[t], file[t].out, seen[t], proc[t].printed) /\ StreamHeard(t) /\ FileHeard(t)
    BY DEF ShownInv
  <2>4. StreamHeard(t)'
    BY <1>2, <1>3, <1>5, <1>6, <2>1, <2>3 DEF StreamHeard
  <2>5. FileHeard(t)'
    BY <1>2, <1>5, <2>1, <2>2, <2>3 DEF FileHeard
  <2> QED
    BY <1>2, <1>3, <1>6, <2>3, <2>4, <2>5
<1>7. BufferOK(bg[s], file[s].out, seen[s], proc[s].printed)'
  <2>1. /\ bg[s] \in BackgroundShells /\ seen[s] \in Chunks
        /\ proc[s].printed \in Nat /\ q.printed \in Nat
    BY <1>1 DEF TypeOK, Commands, Command
  <2>2. BufferOK(bg[s], file[s].out, seen[s], proc[s].printed)
    BY DEF ShownInv
  <2>3. BufferOK(bg[s], file'[s].out, seen[s], q.printed)
    BY <2>1, <2>2, BufferLater
  <2> QED
    BY <1>2, <1>3, <2>3
<1>8. ASSUME NEW i \in DOMAIN inbox' \ DOMAIN inbox, At(i, s, {"out"})'
      PROVE  /\ inbox'[i].chunk = proc[s].printed + 1 /\ q.printed = proc[s].printed + 1
             /\ i = Len(inbox) + 1 /\ DOMAIN inbox' \ DOMAIN inbox = {i}
             /\ via[s] = "file" => ~Moved(s)
  <2>1. /\ i - Len(inbox) \in DOMAIN events /\ events[i - Len(inbox)] = "out"
        /\ inbox'[i].chunk = proc[s].printed + 1
    BY <1>2, <1>8 DEF Added, At
  <2>2. /\ DOMAIN events = {1} /\ q.printed = proc[s].printed + 1
        /\ via[s] = "file" => proc[s].state \notin {"background", "ended"}
    BY <2>1
  <2>3. \A j \in DOMAIN inbox' \ DOMAIN inbox : j = Len(inbox) + 1
    <3> TAKE j \in DOMAIN inbox' \ DOMAIN inbox
    <3>1. j - Len(inbox) = 1 /\ j \in Nat
      BY <1>2, <1>4, <2>2 DEF Added
    <3> QED
      BY <1>4, <3>1
  <2>4. via[s] = "file" => ~Moved(s)
    BY <1>1, <2>2 DEF EndInv, EndOK
  <2> QED
    BY <2>1, <2>2, <2>3, <2>4
<1>9. ASSUME NEW i \in DOMAIN inbox, NEW K
      PROVE  At(i, s, K)' <=> At(i, s, K)
  BY <1>5, <1>9 DEF At
<1>10. StreamHeard(s)'
  <2> SUFFICES ASSUME via[s] = "stream"
               PROVE  /\ file'[s] = [out |-> <<>>, ended |-> FALSE]
                      /\ s \notin known => bg[s].out = <<>>
                      /\ \A i \in DOMAIN inbox' : At(i, s, {"out"})' =>
                            /\ inbox'[i].chunk <= q.printed
                            /\ \A j \in DOMAIN inbox' : j > i /\ At(j, s, {"out"})' =>
                                  inbox'[i].chunk < inbox'[j].chunk
                            /\ \A k \in DOMAIN bg[s].out : bg[s].out[k] < inbox'[i].chunk
                            /\ \A k \in DOMAIN seen[s] : seen[s][k] < inbox'[i].chunk
    BY <1>2, <1>3 DEF StreamHeard
  <2>1. StreamHeard(s) /\ BufferOK(bg[s], file[s].out, seen[s], proc[s].printed)
    BY DEF ShownInv
  <2>2. /\ proc[s].printed \in Nat /\ q.printed \in Nat /\ \A i \in DOMAIN inbox : inbox[i].chunk \in Nat
        /\ \A k \in DOMAIN bg[s].out : bg[s].out[k] \in Nat
        /\ \A k \in DOMAIN seen[s] : seen[s][k] \in Nat
    <3>1. inbox \in Seq(Messages) /\ bg[s].out \in Seq(Nat) /\ seen[s] \in Seq(Nat)
      BY <1>1 DEF TypeOK, BackgroundShells, Chunks
    <3>2. \A i \in DOMAIN inbox : inbox[i] \in Messages
      BY <3>1, ElementOfSeq, LenProperties
    <3>3. /\ \A k \in DOMAIN bg[s].out : bg[s].out[k] \in Nat
          /\ \A k \in DOMAIN seen[s] : seen[s][k] \in Nat
      BY <3>1, ElementOfSeq, LenProperties
    <3> QED
      BY <1>1, <3>2, <3>3 DEF TypeOK, Commands, Command, Messages
  <2>3. ASSUME NEW i \in DOMAIN inbox, At(i, s, {"out"})
        PROVE  /\ inbox[i].chunk <= proc[s].printed /\ inbox[i].chunk <= q.printed
               /\ \A j \in DOMAIN inbox' : j > i /\ At(j, s, {"out"})' =>
                     inbox[i].chunk < inbox'[j].chunk
               /\ \A k \in DOMAIN bg[s].out : bg[s].out[k] < inbox[i].chunk
               /\ \A k \in DOMAIN seen[s] : seen[s][k] < inbox[i].chunk
    <3>1. inbox[i].chunk <= proc[s].printed
      BY <2>1, <2>3 DEF StreamHeard
    <3>2. inbox[i].chunk <= q.printed
      BY <2>2, <3>1
    <3>3. ASSUME NEW j \in DOMAIN inbox', j > i, At(j, s, {"out"})'
          PROVE  inbox[i].chunk < inbox'[j].chunk
      <4>1. CASE j \in DOMAIN inbox
        BY <1>5, <1>9, <2>1, <2>3, <3>3, <4>1 DEF StreamHeard
      <4>2. CASE j \notin DOMAIN inbox
        <5>1. inbox'[j].chunk = proc[s].printed + 1
          BY <1>8, <3>3, <4>2
        <5> QED
          BY <2>2, <3>1, <5>1
      <4> QED
        BY <4>1, <4>2
    <3> QED
      BY <2>1, <2>3, <3>1, <3>2, <3>3 DEF StreamHeard
  <2>4. ASSUME NEW i \in DOMAIN inbox' \ DOMAIN inbox, At(i, s, {"out"})'
        PROVE  /\ inbox'[i].chunk <= q.printed
               /\ \A j \in DOMAIN inbox' : ~(j > i)
               /\ \A k \in DOMAIN bg[s].out : bg[s].out[k] < inbox'[i].chunk
               /\ \A k \in DOMAIN seen[s] : seen[s][k] < inbox'[i].chunk
    <3>1. /\ inbox'[i].chunk = proc[s].printed + 1 /\ q.printed = proc[s].printed + 1
          /\ i = Len(inbox) + 1 /\ DOMAIN inbox' \ DOMAIN inbox = {i}
      BY <1>8, <2>4
    <3>2. \A j \in DOMAIN inbox' : ~(j > i)
      BY <1>4, <3>1
    <3>3. /\ \A k \in DOMAIN bg[s].out : bg[s].out[k] <= proc[s].printed
          /\ \A k \in DOMAIN seen[s] : seen[s][k] <= proc[s].printed
      BY <2>1 DEF BufferOK, Within
    <3>4. /\ \A k \in DOMAIN bg[s].out : bg[s].out[k] < proc[s].printed + 1
          /\ \A k \in DOMAIN seen[s] : seen[s][k] < proc[s].printed + 1
      BY <2>2, <3>3
    <3>5. inbox'[i].chunk <= q.printed
      BY <2>2, <3>1
    <3> QED
      BY <3>1, <3>2, <3>4, <3>5
  <2>5. file'[s] = [out |-> <<>>, ended |-> FALSE] /\ (s \notin known => bg[s].out = <<>>)
    BY <2>1 DEF StreamHeard
  <2>6. ASSUME NEW i \in DOMAIN inbox', At(i, s, {"out"})'
        PROVE  /\ inbox'[i].chunk <= q.printed
               /\ \A j \in DOMAIN inbox' : j > i /\ At(j, s, {"out"})' =>
                     inbox'[i].chunk < inbox'[j].chunk
               /\ \A k \in DOMAIN bg[s].out : bg[s].out[k] < inbox'[i].chunk
               /\ \A k \in DOMAIN seen[s] : seen[s][k] < inbox'[i].chunk
    <3>1. CASE i \in DOMAIN inbox
      <4>1. At(i, s, {"out"}) /\ inbox'[i] = inbox[i]
        BY <1>5, <1>9, <2>6, <3>1
      <4> QED
        BY <2>3, <3>1, <4>1
    <3>2. CASE i \notin DOMAIN inbox
      BY <2>4, <2>6, <3>2
    <3> QED
      BY <3>1, <3>2
  <2> QED
    BY <2>5, <2>6
<1>11. FileHeard(s)'
  <2> SUFFICES ASSUME via[s] = "file"
               PROVE  /\ s \in known => ~Waits(s, {"out"})'
                      /\ \A i \in DOMAIN inbox' : At(i, s, {"backgrounded"})' =>
                            \A j \in DOMAIN inbox' : j > i => ~At(j, s, {"out"})'
    BY <1>2 DEF FileHeard
  <2>1. FileHeard(s)
    BY DEF ShownInv
  <2>2. ASSUME s \in known, NEW i \in DOMAIN inbox', At(i, s, {"out"})'
        PROVE  FALSE
    <3>1. CASE i \in DOMAIN inbox
      BY <1>9, <2>1, <2>2, <3>1 DEF FileHeard, Waits
    <3>2. CASE i \notin DOMAIN inbox
      BY <1>8, <2>2, <3>2 DEF Moved
    <3> QED
      BY <3>1, <3>2
  <2>3. ASSUME NEW i \in DOMAIN inbox', At(i, s, {"backgrounded"})',
               NEW j \in DOMAIN inbox', j > i, At(j, s, {"out"})'
        PROVE  FALSE
    <3>1. CASE j \in DOMAIN inbox
      <4>1. i \in DOMAIN inbox
        BY <1>2, <1>4, <2>3, <3>1 DEF Added
      <4> QED
        BY <1>9, <2>1, <2>3, <3>1, <4>1 DEF FileHeard
    <3>2. CASE j \notin DOMAIN inbox
      <4>1. ~Moved(s) /\ DOMAIN inbox' \ DOMAIN inbox = {j}
        BY <1>8, <2>3, <3>2
      <4>2. i \in DOMAIN inbox
        BY <1>4, <2>3, <4>1
      <4> QED
        BY <1>9, <2>3, <4>1, <4>2 DEF Moved, Waits
    <3> QED
      BY <3>1, <3>2
  <2> QED
    BY <2>2, <2>3 DEF Waits
<1> QED
  BY <1>6, <1>7, <1>10, <1>11 DEF ShownInv

(* A step that prints nothing.                                             *)
LEMMA QuietStep ==
    ASSUME ShellInv, ShownInv, NEW s \in Shells, NEW events \in Seq(Events), Send(s, events),
           NEW q, Command(s, q), q.printed = proc[s].printed, file' = file,
           \A k \in DOMAIN events : events[k] # "out"
    PROVE  ShownInv'
<1>1. Rising(file[s].out) /\ Within(file[s].out, proc[s].printed)
  BY DEF ShownInv, BufferOK
<1>2. proc[s].printed <= q.printed
  BY DEF ShellInv, TypeOK, Commands
<1>3. /\ \A t \in Shells \ {s} : file'[t] = file[t]
      /\ via[s] = "stream" => file'[s] = file[s]
      /\ Rising(file'[s].out) /\ Within(file'[s].out, q.printed)
      /\ ~ \E k \in DOMAIN events : events[k] = "out"
  BY <1>1
<1> QED
  BY <1>2, <1>3, ClientShows

(* The clients' steps, one by one.                                         *)
LEMMA Pairs ==
    ASSUME NEW a \in Events, NEW b \in Events
    PROVE  /\ <<>> \in Seq(Events) /\ DOMAIN <<>> = {}
           /\ <<a>> \in Seq(Events) /\ DOMAIN <<a>> = {1} /\ <<a>>[1] = a
           /\ <<a, b>> \in Seq(Events) /\ DOMAIN <<a, b>> = {1, 2}
           /\ <<a, b>>[1] = a /\ <<a, b>>[2] = b
<1>1. <<>> \in Seq(Events) /\ <<a>> \in Seq(Events) /\ <<a, b>> \in Seq(Events)
  OBVIOUS
<1>2. Len(<<>>) = 0 /\ Len(<<a>>) = 1 /\ Len(<<a, b>>) = 2
  OBVIOUS
<1>3. 1..0 = {} /\ 1..1 = {1} /\ 1..2 = {1, 2}
  OBVIOUS
<1> QED
  BY <1>1, <1>2, <1>3, LenProperties

LEMMA StartKeeps ==
    ASSUME ShellInv, NEW s \in Shells, ClientStarts(s)
    PROVE  ShellInv' /\ (ShownInv => ShownInv')
<1>1. PICK ev \in {"start", "rejected", "permission_denied", "throw"} :
         /\ Send(s, <<ev>>)
         /\ proc' = [proc EXCEPT ![s].state = IF ev = "start" THEN "running" ELSE "ended"]
  BY DEF ClientStarts
<1> DEFINE x == IF ev = "start" THEN "running" ELSE "ended"
<1>2. x \in {"running", "background", "ended"} /\ x # "background"
  OBVIOUS
<1>3. TypeOK /\ proc[s].state = "asked" /\ file' = file
  BY DEF ClientStarts, ShellInv
<1> HIDE DEF x
<1>4. PICK q : Command(s, q) /\ q.state = x /\ q.printed = proc[s].printed
  BY <1>1, <1>2, <1>3, ClientStates DEF x
<1>5. <<ev>> \in Seq(Events) /\ \A k \in DOMAIN <<ev>> : <<ev>>[k] = ev
  BY Pairs DEF Events
<1>6. file' \in [Shells -> Files]
  BY <1>3 DEF TypeOK
<1> DEFINE events == <<ev>>
<1>7. /\ events \in Seq(Events) /\ Send(s, events)
      /\ \A k \in DOMAIN events : events[k] \notin {"out", "backgrounded"}
  BY <1>1, <1>5
<1> HIDE DEF events
<1>8. ShellInv'
  BY <1>2, <1>3, <1>4, <1>6, <1>7, ClientStep
<1>9. ShownInv => ShownInv'
  BY <1>3, <1>4, <1>7, QuietStep
<1> QED
  BY <1>8, <1>9

LEMMA PrintKeeps ==
    ASSUME ShellInv, NEW s \in Shells, ClientPrints(s)
    PROVE  ShellInv' /\ (ShownInv => ShownInv')
<1> DEFINE events == IF Streams(s) THEN <<"out">> ELSE <<>>
           n == proc[s].printed + 1
           q == [proc[s] EXCEPT !.printed = n]
           out == Append(file[s].out, n)
           f == [file[s] EXCEPT !.out = out]
<1>1. TypeOK /\ EndOK(s) /\ Send(s, events) /\ proc[s] \in Commands /\ file[s] \in Files
      /\ proc[s].state \in {"running", "background"}
  BY DEF ClientPrints, ShellInv, EndInv, TypeOK
<1>2. n \in Nat /\ out \in Chunks
  BY <1>1 DEF Commands, Files, Chunks
<1>3. /\ events \in Seq(Events) /\ \A k \in DOMAIN events : events[k] = "out"
      /\ ((\E k \in DOMAIN events : TRUE) => DOMAIN events = {1} /\ Streams(s))
  <2>1. "out" \in Events
    BY DEF Events
  <2>2. events = <<>> \/ (events = <<"out">> /\ Streams(s))
    OBVIOUS
  <2> HIDE DEF events
  <2> QED
    BY <2>1, <2>2, Pairs
<1>4. proc' = [proc EXCEPT ![s] = q]
  BY DEF ClientPrints
<1>5. file' = file \/ (file' = [file EXCEPT ![s] = f] /\ via[s] # "stream")
  BY DEF ClientPrints
<1> HIDE DEF n, out, events
<1>6. q \in Commands /\ q.state = proc[s].state /\ q.stream = proc[s].stream /\ q.printed = n
  BY <1>1, <1>2 DEF Commands
<1>7. f \in Files /\ f.out = out
  BY <1>1, <1>2 DEF Files
<1> HIDE DEF q, f
<1>8. file' \in [Shells -> Files]
  BY <1>1, <1>5, <1>7 DEF TypeOK
<1>9. Command(s, q)
  BY <1>4, <1>6 DEF Command
<1>10. q.state = "background" => q.stream = "open"
  BY <1>1, <1>6 DEF EndOK
<1>11. ShellInv'
  BY <1>1, <1>3, <1>6, <1>8, <1>9, <1>10, ClientStep
<1>12. ASSUME ShownInv PROVE ShownInv'
  <2>1. /\ \A t \in Shells \ {s} : file'[t] = file[t]
        /\ via[s] = "stream" => file'[s] = file[s]
        /\ file'[s] = file[s] \/ file'[s].out = out
    BY <1>1, <1>5, <1>7 DEF TypeOK
  <2>2. n = proc[s].printed + 1 /\ proc[s].printed \in Nat
    BY <1>1 DEF Commands, n
  <2>3. Rising(file[s].out) /\ Within(file[s].out, proc[s].printed) /\ file[s].out \in Chunks
    BY <1>1, <1>12 DEF ShownInv, BufferOK, Files
  <2>4. Rising(out) /\ Within(out, n)
    BY <2>2, <2>3, RisingAppend DEF out
  <2>5. Within(file[s].out, n)
    BY <2>2, <2>3, WithinLater
  <2>6. Rising(file'[s].out) /\ Within(file'[s].out, q.printed)
    BY <1>6, <2>1, <2>3, <2>4, <2>5
  <2>7. (\E k \in DOMAIN events : events[k] = "out") =>
           /\ DOMAIN events = {1} /\ q.printed = proc[s].printed + 1
           /\ via[s] = "file" => proc[s].state \notin {"background", "ended"}
    BY <1>1, <1>3, <1>6, <2>2 DEF Streams
  <2>8. proc[s].printed <= q.printed
    BY <1>6, <2>2
  <2> QED
    BY <1>1, <1>3, <1>9, <1>12, <2>1, <2>6, <2>7, <2>8, ClientShows
<1> QED
  BY <1>11, <1>12

LEMMA BackgroundKeeps ==
    ASSUME ShellInv, NEW s \in Shells, ClientBackgrounds(s)
    PROVE  ShellInv' /\ (ShownInv => ShownInv')
<1>1. PICK events \in {<<"backgrounded">>, <<"backgrounded", "forced">>, <<"forced", "backgrounded">>} :
         Send(s, events)
  BY DEF ClientBackgrounds
<1>2. /\ TypeOK /\ proc[s].state = "running" /\ proc[s].stream = "open" /\ file' = file
      /\ proc' = [proc EXCEPT ![s].state = "background"]
  BY DEF ClientBackgrounds, ShellInv
<1>3. events \in Seq(Events) /\ \A k \in DOMAIN events : events[k] # "out"
  <2>1. "backgrounded" \in Events /\ "forced" \in Events
    BY DEF Events
  <2>2. /\ <<"backgrounded">> \in Seq(Events) /\ <<"backgrounded", "forced">> \in Seq(Events)
        /\ <<"forced", "backgrounded">> \in Seq(Events)
    BY <2>1, Pairs
  <2>3. /\ \A k \in DOMAIN <<"backgrounded">> : <<"backgrounded">>[k] # "out"
        /\ \A k \in DOMAIN <<"backgrounded", "forced">> : <<"backgrounded", "forced">>[k] # "out"
        /\ \A k \in DOMAIN <<"forced", "backgrounded">> : <<"forced", "backgrounded">>[k] # "out"
    BY <2>1, Pairs
  <2> QED
    BY <1>1, <2>2, <2>3
<1>4. PICK q : /\ Command(s, q) /\ q.state = "background" /\ q.stream = proc[s].stream
               /\ q.printed = proc[s].printed
  BY <1>2, ClientStates
<1>5. file' \in [Shells -> Files]
  BY <1>2 DEF TypeOK
<1>6. ShellInv'
  BY <1>1, <1>2, <1>3, <1>4, <1>5, ClientStep
<1>7. ShownInv => ShownInv'
  BY <1>1, <1>2, <1>3, <1>4, QuietStep
<1> QED
  BY <1>6, <1>7

LEMMA EndKeeps ==
    ASSUME ShellInv, NEW s \in Shells, ClientEnds(s)
    PROVE  ShellInv' /\ (ShownInv => ShownInv')
<1>1. PICK told \in {<<>>, <<"task_done">>} :
         /\ (told = <<>> /\ proc[s].state = "background") => via[s] # "file"
         /\ Send(s, (IF Streams(s) THEN <<"exit">> ELSE <<>>) \o told)
  BY DEF ClientEnds
<1> DEFINE events == (IF Streams(s) THEN <<"exit">> ELSE <<>>) \o told
           f == [file[s] EXCEPT !.ended = TRUE]
<1>2. /\ TypeOK /\ EndOK(s) /\ Send(s, events) /\ file[s] \in Files
      /\ proc' = [proc EXCEPT ![s].state = "ended"]
      /\ file' = file \/ file' = [file EXCEPT ![s] = f]
  BY <1>1 DEF ClientEnds, ShellInv, EndInv, TypeOK
<1>3. /\ events \in Seq(Events)
      /\ \A k \in DOMAIN events : events[k] \in Ends
      /\ (Streams(s) \/ told # <<>>) => \E k \in DOMAIN events : events[k] \in Ends
  <2>1. /\ <<>> \o <<>> = <<>> /\ <<"exit">> \o <<>> = <<"exit">>
        /\ <<>> \o <<"task_done">> = <<"task_done">>
    OBVIOUS
  <2>2. \/ events = <<>> /\ ~Streams(s) /\ told = <<>>
        \/ events = <<"exit">> \/ events = <<"task_done">>
        \/ events = <<"exit">> \o <<"task_done">>
    BY <2>1
  <2> HIDE DEF events
  <2>3. "exit" \in Events /\ "task_done" \in Events /\ "exit" \in Ends /\ "task_done" \in Ends
    BY DEF Events, Ends
  <2>4. CASE events = <<>> /\ ~Streams(s) /\ told = <<>>
    BY <2>4, Pairs, <2>3
  <2>5. CASE events = <<"exit">>
    BY <2>5, Pairs, <2>3
  <2>6. CASE events = <<"task_done">>
    BY <2>6, Pairs, <2>3
  <2>7. CASE events = <<"exit">> \o <<"task_done">>
    <3>1. /\ <<"exit">> \in Seq(Events) /\ <<"task_done">> \in Seq(Events)
          /\ Len(<<"exit">>) = 1 /\ Len(<<"task_done">>) = 1
          /\ <<"exit">>[1] = "exit" /\ <<"task_done">>[1] = "task_done"
      BY <2>3, Pairs
    <3>2. /\ events \in Seq(Events) /\ Len(events) = 2
          /\ events[1] = "exit" /\ events[2] = "task_done"
      BY <2>7, <3>1, ConcatProperties
    <3>3. DOMAIN events = 1..2
      BY <3>2, LenProperties
    <3> QED
      BY <2>3, <3>2, <3>3
  <2> QED
    BY <2>2, <2>4, <2>5, <2>6, <2>7
<1> HIDE DEF events
<1>4. f \in Files /\ f.out = file[s].out
  BY <1>2 DEF Files
<1> HIDE DEF f
<1>5. file' \in [Shells -> Files]
  BY <1>2, <1>4 DEF TypeOK
<1>6. PICK q : Command(s, q) /\ q.state = "ended" /\ q.printed = proc[s].printed
  BY <1>2, ClientStates
<1>7. proc[s].state = "background" => Streams(s) \/ told # <<>>
  BY <1>1, <1>2 DEF Streams, EndOK
<1>8. proc[s].state \in {"running", "background"}
  BY DEF ClientEnds
<1>9. \A k \in DOMAIN events : events[k] \notin {"out", "backgrounded", "forced"}
  BY <1>3 DEF Ends
<1>10. q.state = "ended" =>
         \/ proc[s].state \notin {"background", "ended"}
         \/ /\ \A k \in DOMAIN events : events[k] \notin {"out", "backgrounded", "forced"}
            /\ \/ proc[s].state = "ended"
               \/ \E k \in DOMAIN events : events[k] \in Ends
  BY <1>3, <1>7, <1>8, <1>9
<1>11. ShellInv'
  BY <1>2, <1>3, <1>5, <1>6, <1>9, <1>10, ClientStep
<1>12. ASSUME ShownInv PROVE ShownInv'
  <2>1. /\ \A t \in Shells \ {s} : file'[t] = file[t]
        /\ file'[s].out = file[s].out
        /\ via[s] = "stream" => file'[s] = file[s]
    <3>1. \/ file' = file
          \/ via[s] # "stream" /\ file' = [file EXCEPT ![s] = f] /\ f.out = file[s].out
      BY <1>2, <1>4 DEF ClientEnds
    <3> QED
      BY <1>2, <3>1 DEF TypeOK
  <2>2. Rising(file[s].out) /\ Within(file[s].out, proc[s].printed)
    BY <1>12 DEF ShownInv, BufferOK
  <2>3. Rising(file'[s].out) /\ Within(file'[s].out, q.printed)
    BY <1>6, <2>1, <2>2
  <2>4. proc[s].printed <= q.printed
    BY <1>2, <1>6 DEF TypeOK, Commands
  <2>5. ~ \E k \in DOMAIN events : events[k] = "out"
    BY <1>9
  <2> QED
    BY <1>2, <1>3, <1>6, <1>12, <2>1, <2>3, <2>4, <2>5, ClientShows
<1> QED
  BY <1>11, <1>12

LEMMA CloseKeeps ==
    ASSUME ShellInv, NEW s \in Shells, ClientCloses(s)
    PROVE  ShellInv' /\ (ShownInv => ShownInv')
<1>1. PICK ev \in {"close", "throw"} : Send(s, <<ev>>)
  BY DEF ClientCloses
<1> DEFINE events == <<ev>>
           q == [proc[s] EXCEPT !.stream = "closed"]
<1>2. /\ TypeOK /\ proc[s] \in Commands /\ proc[s].state \in {"running", "ended"} /\ file' = file
      /\ proc' = [proc EXCEPT ![s] = q] /\ Send(s, events)
  BY <1>1 DEF ClientCloses, ShellInv, TypeOK
<1>3. events \in Seq(Events) /\ \A k \in DOMAIN events : events[k] = ev
  BY Pairs DEF Events
<1> HIDE DEF events
<1>4. q \in Commands /\ q.state = proc[s].state /\ q.printed = proc[s].printed
  BY <1>2 DEF Commands
<1> HIDE DEF q
<1>5. Command(s, q)
  BY <1>2, <1>4 DEF Command
<1>6. file' \in [Shells -> Files]
  BY <1>2 DEF TypeOK
<1>7. ShellInv'
  BY <1>2, <1>3, <1>4, <1>5, <1>6, ClientStep
<1>8. \A k \in DOMAIN events : events[k] # "out"
  BY <1>3
<1>9. ShownInv => ShownInv'
  BY <1>2, <1>3, <1>4, <1>5, <1>8, QuietStep
<1> QED
  BY <1>7, <1>9


-----------------------------------------------------------------------------
(* What the handler of a message leaves of its call and of its shell.      *)
CallStep(s) ==
    /\ pending' \in [Shells -> PendingExecs] /\ result' \in [Shells -> Seq(Results)]
    /\ \A t \in Shells \ {s} : pending'[t] = pending[t] /\ result'[t] = result[t]
    /\ pending[s].state = "none" => pending'[s].state = "none"
    /\ pending'[s].state = "done" => Len(result'[s]) = 1
    /\ pending'[s].state # "done" => result'[s] = <<>>

ShellStep(s, e) ==
    /\ bg' \in [Shells -> BackgroundShells] /\ known' \subseteq Shells
    /\ \A t \in Shells \ {s} : bg'[t] = bg[t] /\ (t \in known' <=> t \in known)
    /\ s \in known => s \in known'
    /\ s \in known' => s \in known \/ e.ev = "backgrounded"
    /\ e.ev \in Ends /\ s \in known' => bg'[s].status \in Terminal
    /\ bg[s].status \in Terminal /\ e.ev \notin {"out", "backgrounded", "forced"}
          => bg'[s].status \in Terminal
    /\ bg'[s].offset = bg[s].offset
    /\ \/ bg'[s].out = bg[s].out
       \/ /\ e.ev = "out" /\ s \in known
          /\ bg'[s].out = appendShellStreamBuffer(bg[s].out, e.chunk)

Handled(e) ==
    LET s == e.shell
    IN  /\ CallStep(s) /\ ShellStep(s, e)
        /\ timers' \subseteq {"deadline", "close"} \X Shells
        /\ ToldBackground(s)' => ToldBackground(s) \/ s \in known'

LEMMA CallStays ==
    ASSUME TypeOK, CallInv, NEW s \in Shells, UNCHANGED <<pending, result>>
    PROVE  CallStep(s) /\ (ToldBackground(s)' <=> ToldBackground(s))
BY DEF TypeOK, CallInv, CallStep, ToldBackground

LEMMA CallMoves ==
    ASSUME TypeOK, CallInv, NEW s \in Shells, Pending(s), NEW p \in PendingExecs,
           p.state \in Open, pending' = [pending EXCEPT ![s] = p], result' = result
    PROVE  CallStep(s) /\ (ToldBackground(s)' <=> ToldBackground(s))
BY DEF TypeOK, CallInv, CallStep, ToldBackground, Pending, Open

LEMMA Completes ==
    ASSUME TypeOK, CallInv, NEW s \in Shells, Pending(s),
           NEW verdict \in Verdicts \cup {"incomplete"}, Complete(s, verdict)
    PROVE  CallStep(s) /\ (ToldBackground(s)' => verdict = "backgrounded")
<1> DEFINE p == markExecCompleted(pending[s])
           w == [verdict |-> verdict, out |-> pending[s].out]
           r == Append(result[s], w)
<1>1. pending' = [pending EXCEPT ![s] = p] /\ result' = [result EXCEPT ![s] = r]
  BY DEF Complete
<1>2. p \in PendingExecs /\ p.state = "done" /\ w \in Results /\ w.verdict = verdict
  BY DEF TypeOK, PendingExecs, markExecCompleted, Results
<1>3. result[s] = <<>> /\ pending[s].state # "done" /\ pending[s].state # "none"
  BY DEF CallInv, Pending, Open
<1> HIDE DEF p, w
<1>4. r \in Seq(Results) /\ Len(r) = 1 /\ r[1] = w
  <2>1. result[s] \in Seq(Results) /\ Len(result[s]) = 0
    BY <1>3 DEF TypeOK
  <2> QED
    BY <1>2, <2>1, AppendProperties
<1>5. DOMAIN r = {1}
  BY <1>4, LenProperties
<1> HIDE DEF r
<1>6. CallStep(s)
  BY <1>1, <1>2, <1>3, <1>4 DEF CallStep, TypeOK
<1>7. result'[s] = r
  BY <1>1 DEF TypeOK
<1>8. ToldBackground(s)' => verdict = "backgrounded"
  BY <1>2, <1>4, <1>5, <1>7 DEF ToldBackground
<1> QED
  BY <1>6, <1>8

LEMMA ShellStays ==
    ASSUME TypeOK, NEW s \in Shells, NEW e, UNCHANGED <<bg, known>>,
           e.ev \in Ends => s \notin known
    PROVE  ShellStep(s, e)
BY DEF TypeOK, ShellStep

LEMMA BufferGrows ==
    ASSUME NEW out \in Chunks, NEW c \in Nat
    PROVE  LET a == Append(out, c) IN
           /\ a \in Chunks /\ EndOf(appendShellStreamBuffer(out, c), a)
           /\ appendShellStreamBuffer(out, c) # <<>>
           /\ Len(a) = Len(out) + 1 /\ a[Len(out) + 1] = c
           /\ \A k \in DOMAIN out : a[k] = out[k]
<1> DEFINE a == Append(out, c)
<1>1. /\ a \in Seq(Nat) /\ Len(a) = Len(out) + 1
      /\ \A k \in 1..Len(out) : a[k] = out[k]
      /\ a[Len(out) + 1] = c
  BY AppendProperties DEF Chunks
<1>2. DOMAIN out = 1..Len(out) /\ Len(out) \in Nat
  BY LenProperties DEF Chunks
<1>3. a # <<>> /\ a \in Chunks
  BY <1>1, <1>2 DEF Chunks
<1> HIDE DEF a
<1>4. EndOf(clampShellBuffer(a), a) /\ clampShellBuffer(a) # <<>>
  BY <1>3, ClampFacts
<1> QED
  BY <1>1, <1>2, <1>3, <1>4 DEF appendShellStreamBuffer, a

LEMMA ObservedShell ==
    ASSUME TypeOK, NEW e \in Messages, findsBackgroundShell(e.shell, e),
           bg' = [bg EXCEPT ![e.shell] = observeShellStream(ensureBackgroundShellState(@), e)],
           known' = known \cup {e.shell}, e.ev # "task_done",
           e.ev = "backgrounded" \/ e.shell \in known
    PROVE  ShellStep(e.shell, e)
<1> DEFINE s == e.shell
           b == ensureBackgroundShellState(bg[s])
           out == appendShellStreamBuffer(b.out, e.chunk)
           r == observeShellStream(b, e)
<1>1. s \in Shells /\ e.ev \in Events /\ e.chunk \in Nat
  BY DEF Messages
<1>2. bg[s] \in BackgroundShells
  BY <1>1 DEF TypeOK
<1>3. /\ b \in BackgroundShells /\ b.out = bg[s].out /\ b.offset = bg[s].offset
      /\ bg[s].status \in Terminal => b.status \in Terminal
  BY <1>2 DEF ensureBackgroundShellState, BackgroundShells, Terminal
<1>4. bg' = [bg EXCEPT ![s] = r]
  OBVIOUS
<1> HIDE DEF b
<1>5. out \in Chunks
  BY <1>1, <1>3, BufferGrows DEF BackgroundShells, EndOf
<1>6. r = CASE e.ev = "backgrounded" -> [b EXCEPT !.status = "backgrounded"]
            [] e.ev = "out"  -> [b EXCEPT !.out = out, !.status = "running"]
            [] e.ev = "exit" -> [b EXCEPT !.status = "completed"]
            [] e.ev \in {"rejected", "permission_denied"} -> [b EXCEPT !.status = e.ev]
            [] OTHER -> b
  BY DEF observeShellStream
<1>7. out = appendShellStreamBuffer(bg[s].out, e.chunk)
  BY <1>3
<1> HIDE DEF out
<1>8. /\ r \in BackgroundShells /\ r.offset = bg[s].offset
      /\ r.out = IF e.ev = "out" THEN out ELSE bg[s].out
      /\ e.ev = "exit" => r.status \in Terminal
      /\ bg[s].status \in Terminal /\ e.ev \notin {"out", "backgrounded"} => r.status \in Terminal
  <2>1. CASE e.ev = "out"
    <3>1. r = [b EXCEPT !.out = out, !.status = "running"]
      BY <1>6, <2>1
    <3> QED
      BY <1>3, <1>5, <2>1, <3>1, ZenonT(30) DEF BackgroundShells
  <2>2. CASE e.ev # "out"
    <3> HIDE DEF r
    <3> QED
      BY <1>3, <1>6, <2>2 DEF BackgroundShells, Terminal
  <2> QED
    BY <2>1, <2>2
<1> HIDE DEF r
<1>9. bg'[s] = r /\ bg' \in [Shells -> BackgroundShells] /\ \A t \in Shells \ {s} : bg'[t] = bg[t]
  BY <1>1, <1>4, <1>8 DEF TypeOK
<1>10. known' = known \cup {s} /\ known \subseteq Shells
  BY DEF TypeOK
<1> HIDE DEF s
<1>11. ShellStep(s, e)
  BY <1>1, <1>7, <1>8, <1>9, <1>10 DEF ShellStep, Ends, s
<1> QED
  BY <1>11 DEF s


(* The handlers, one by one.                                               *)
LEMMA ResultHandled ==
    ASSUME TypeOK, CallInv, NEW e \in Messages, handleExecResult(e)
    PROVE  Handled(e)
<1> DEFINE s == e.shell
<1>1. s \in Shells /\ e.chunk \in Nat
      /\ e.ev \in {"start", "out", "exit", "rejected", "permission_denied", "backgrounded"}
  BY DEF Messages, handleExecResult
<1>2. timers' \subseteq {"deadline", "close"} \X Shells
  BY DEF handleExecResult, TypeOK
<1>3. ShellStep(s, e) /\ (e.ev = "backgrounded" /\ Pending(s) => s \in known')
  <2>1. CASE findsBackgroundShell(s, e)
    <3>1. /\ bg' = [bg EXCEPT ![e.shell] = observeShellStream(ensureBackgroundShellState(@), e)]
          /\ known' = known \cup {e.shell}
      BY <2>1 DEF handleExecResult
    <3>2. e.ev = "backgrounded" \/ e.shell \in known
      BY <2>1 DEF findsBackgroundShell
    <3>3. findsBackgroundShell(e.shell, e) /\ e.ev # "task_done"
      BY <1>1, <2>1
    <3> QED
      BY <3>1, <3>2, <3>3, ObservedShell
  <2>2. CASE ~findsBackgroundShell(s, e)
    <3>1. UNCHANGED <<bg, known>>
      BY <2>2 DEF handleExecResult
    <3>2. s \notin known /\ ~(e.ev = "backgrounded" /\ Pending(s))
      BY <2>2 DEF findsBackgroundShell
    <3> QED
      BY <1>1, <3>1, <3>2, ShellStays
  <2> QED
    BY <2>1, <2>2
<1>4. CallStep(s) /\ (ToldBackground(s)' => ToldBackground(s) \/ (e.ev = "backgrounded" /\ Pending(s)))
  <2>1. CASE ~Pending(s)
    <3>1. UNCHANGED <<pending, result>>
      BY <2>1 DEF handleExecResult
    <3> QED
      BY <1>1, <3>1, CallStays
  <2>2. CASE Pending(s) /\ e.ev \in Verdicts
    <3>1. Complete(s, e.ev)
      BY <2>2 DEF handleExecResult
    <3> QED
      BY <1>1, <2>2, <3>1, Completes
  <2>3. CASE Pending(s) /\ e.ev \notin Verdicts
    <3> DEFINE p == applyExecProgress(pending[s], e)
               out == appendShellStreamBuffer(pending[s].out, e.chunk)
    <3>1. pending' = [pending EXCEPT ![s] = p] /\ result' = result
      BY <2>3 DEF handleExecResult
    <3>2. pending[s] \in PendingExecs /\ pending[s].out \in Chunks
      BY <1>1 DEF TypeOK, PendingExecs
    <3>3. out \in Chunks
      BY <1>1, <3>2, BufferGrows DEF EndOf
    <3>4. CASE e.ev = "out"
      <4>1. p = [pending[s] EXCEPT !.state = "streaming", !.out = out]
        BY <3>4 DEF applyExecProgress
      <4> HIDE DEF out
      <4>2. p \in PendingExecs /\ p.state = "streaming"
        BY <3>2, <3>3, <4>1, ZenonT(30) DEF PendingExecs, Open
      <4> HIDE DEF p
      <4>3. p.state \in Open
        BY <4>2 DEF Open
      <4> QED
        BY <1>1, <2>3, <3>1, <4>2, <4>3, CallMoves
    <3>5. CASE e.ev = "start"
      <4>1. p = [pending[s] EXCEPT !.state = "started"]
        BY <3>5 DEF applyExecProgress
      <4>2. p \in PendingExecs /\ p.state \in Open
        BY <3>2, <4>1 DEF PendingExecs, Open
      <4> HIDE DEF p
      <4> QED
        BY <1>1, <2>3, <3>1, <4>2, CallMoves
    <3> QED
      BY <1>1, <2>3, <3>4, <3>5 DEF Verdicts
  <2> QED
    BY <2>1, <2>2, <2>3
<1> HIDE DEF s
<1>5. ToldBackground(s)' => ToldBackground(s) \/ s \in known'
  BY <1>3, <1>4
<1> QED
  BY <1>2, <1>3, <1>4, <1>5 DEF Handled, s

LEMMA ControlHandled ==
    ASSUME TypeOK, CallInv, NEW e \in Messages, handleExecControl(e)
    PROVE  Handled(e)
<1> DEFINE s == e.shell
<1>1. s \in Shells /\ e.ev \in {"throw", "close"}
  BY DEF Messages, handleExecControl
<1>2. ShellStep(s, e)
  BY <1>1, ShellStays DEF handleExecControl, Ends
<1>3. timers' \subseteq {"deadline", "close"} \X Shells
  <2>1. timers' = timers \/ timers' = timers \cup {<<"close", s>>}
    BY DEF handleExecControl
  <2> QED
    BY <1>1, <2>1 DEF TypeOK
<1>4. CallStep(s) /\ (ToldBackground(s)' => ToldBackground(s))
  <2>1. CASE ~Pending(s)
    <3>1. UNCHANGED <<pending, result>>
      BY <2>1 DEF handleExecControl
    <3> QED
      BY <1>1, <3>1, CallStays
  <2>2. CASE Pending(s) /\ e.ev = "throw"
    <3>1. Complete(s, "throw")
      BY <2>2 DEF handleExecControl
    <3> QED
      BY <1>1, <2>2, <3>1, Completes DEF Verdicts
  <2>3. CASE Pending(s) /\ e.ev # "throw"
    <3> DEFINE p == [pending[s] EXCEPT !.state = "transport_closed", !.scheduled = TRUE]
    <3>1. pending' = [pending EXCEPT ![s].state = "transport_closed", ![s].scheduled = TRUE]
          /\ result' = result
      BY <2>3 DEF handleExecControl
    <3>2. pending[s] \in PendingExecs /\ pending \in [Shells -> PendingExecs]
      BY <1>1 DEF TypeOK
    <3>3. pending' = [pending EXCEPT ![s] = p]
      BY <1>1, <3>1, <3>2, ZenonT(30)
    <3>4. p \in PendingExecs /\ p.state = "transport_closed"
      BY <3>2, ZenonT(30) DEF PendingExecs, Open
    <3> HIDE DEF p
    <3>5. p.state \in Open
      BY <3>4 DEF Open
    <3> QED
      BY <1>1, <2>3, <3>1, <3>3, <3>4, <3>5, CallMoves
  <2> QED
    BY <2>1, <2>2, <2>3
<1> HIDE DEF s
<1> QED
  BY <1>2, <1>3, <1>4 DEF Handled, s

LEMMA TaskHandled ==
    ASSUME TypeOK, CallInv, NEW e \in Messages, observeBackgroundShell(e)
    PROVE  Handled(e)
<1> DEFINE s == e.shell
           x == IF e.ev = "forced" THEN "backgrounded" ELSE "completed"
           r == [bg[s] EXCEPT !.status = x]
<1>1. s \in Shells /\ e.ev \in {"forced", "task_done"}
      /\ UNCHANGED <<pending, result, timers, known>> /\ bg' = [bg EXCEPT ![s] = r]
  BY DEF Messages, observeBackgroundShell
<1>2. r \in BackgroundShells /\ r.out = bg[s].out /\ r.offset = bg[s].offset
      /\ r.status = x
  BY <1>1 DEF TypeOK, BackgroundShells, Terminal
<1> HIDE DEF r
<1>3. bg'[s] = r /\ bg' \in [Shells -> BackgroundShells] /\ \A t \in Shells \ {s} : bg'[t] = bg[t]
  BY <1>1, <1>2 DEF TypeOK
<1>4. ShellStep(s, e)
  BY <1>1, <1>2, <1>3 DEF ShellStep, Ends, Terminal, TypeOK
<1>5. CallStep(s) /\ (ToldBackground(s)' <=> ToldBackground(s))
  BY <1>1, CallStays
<1>6. timers' \subseteq {"deadline", "close"} \X Shells
  BY <1>1 DEF TypeOK
<1> HIDE DEF s
<1> QED
  BY <1>4, <1>5, <1>6 DEF Handled, s

LEMMA TimerHandled ==
    ASSUME TypeOK, CallInv, NEW e \in Messages, recoverShellWithoutTerminal(e)
    PROVE  Handled(e)
<1> DEFINE s == e.shell
<1>1. s \in Shells /\ e.ev \in {"deadline_fired", "close_fired"}
      /\ UNCHANGED <<bg, known, timers>>
  BY DEF Messages, recoverShellWithoutTerminal
<1>2. ShellStep(s, e)
  BY <1>1, ShellStays DEF Ends
<1>3. timers' \subseteq {"deadline", "close"} \X Shells
  BY <1>1 DEF TypeOK
<1>4. CallStep(s) /\ (ToldBackground(s)' => ToldBackground(s))
  <2>1. CASE UNCHANGED <<pending, result>>
    BY <1>1, <2>1, CallStays
  <2>2. CASE Pending(s) /\ Complete(s, "incomplete")
    BY <1>1, <2>2, Completes
  <2> QED
    BY <2>1, <2>2 DEF recoverShellWithoutTerminal
<1> HIDE DEF s
<1> QED
  BY <1>2, <1>3, <1>4 DEF Handled, s

(* The mailbox without its first message.                                  *)
LEMMA TailFacts ==
    ASSUME TypeOK, inbox # <<>>, inbox' = Tail(inbox)
    PROVE  /\ inbox' \in Seq(Messages) /\ Head(inbox) \in Messages /\ Head(inbox) = inbox[1]
           /\ 1 \in DOMAIN inbox
           /\ DOMAIN inbox \subseteq Nat /\ DOMAIN inbox' \subseteq Nat
           /\ \A i \in DOMAIN inbox' : i + 1 \in DOMAIN inbox /\ inbox'[i] = inbox[i + 1]
           /\ \A i \in DOMAIN inbox : i > 1 => i - 1 \in DOMAIN inbox' /\ inbox'[i - 1] = inbox[i]
<1>1. inbox \in Seq(Messages)
  BY DEF TypeOK
<1>2. /\ Head(inbox) \in Messages /\ Head(inbox) = inbox[1]
      /\ inbox' \in Seq(Messages) /\ Len(inbox') = Len(inbox) - 1
      /\ \A i \in 1..Len(inbox') : inbox'[i] = inbox[i + 1]
  <2>1. /\ Tail(inbox) \in Seq(Messages) /\ Len(Tail(inbox)) = Len(inbox) - 1
        /\ \A i \in 1..Len(Tail(inbox)) : Tail(inbox)[i] = inbox[i + 1]
        /\ Head(inbox) \in Messages /\ Head(inbox) = inbox[1]
    BY <1>1, HeadTailProperties
  <2> QED
    BY <2>1
<1>3. /\ DOMAIN inbox = 1..Len(inbox) /\ DOMAIN inbox' = 1..Len(inbox')
      /\ Len(inbox) \in Nat /\ Len(inbox') \in Nat
  BY <1>1, <1>2, LenProperties
<1>4. Len(inbox) # 0
  BY <1>1, EmptySeq
<1> QED
  BY <1>2, <1>3, <1>4

LEMMA HandlersKeep ==
    ASSUME ShellInv, ActorHandles, NEW e, e = Head(inbox), NEW s, s = e.shell
    PROVE  Handled(e) /\ ShellInv'
<1>1. TypeOK /\ CallInv /\ EndInv
  BY DEF ShellInv
<1>2. inbox # <<>> /\ inbox' = Tail(inbox) /\ UNCHANGED <<proc, via, file, waiting, seen>>
  BY DEF ActorHandles
<1>3. e \in Messages /\ e = inbox[1] /\ s \in Shells
  BY <1>1, <1>2, TailFacts DEF Messages
<1>4. Handled(e)
  <2>1. handleExecResult(e) \/ handleExecControl(e)
        \/ observeBackgroundShell(e) \/ recoverShellWithoutTerminal(e)
    BY DEF ActorHandles
  <2> QED
    BY <1>1, <1>3, <2>1, ResultHandled, ControlHandled, TaskHandled, TimerHandled
<1>5. CallStep(s) /\ ShellStep(s, e) /\ timers' \subseteq {"deadline", "close"} \X Shells
      /\ (ToldBackground(s)' => ToldBackground(s) \/ s \in known')
  BY <1>4 DEF Handled
<1>6. TypeOK'
  BY <1>1, <1>2, <1>5, TailFacts DEF TypeOK, CallStep, ShellStep
<1>7. CallInv'
  BY <1>1, <1>2, <1>3, <1>5 DEF CallInv, CallStep
<1>8. /\ \A t, K : \A i \in DOMAIN inbox' : i + 1 \in DOMAIN inbox /\ (At(i, t, K)' <=> At(i + 1, t, K))
      /\ \A t, K : \A i \in DOMAIN inbox : i > 1 => i - 1 \in DOMAIN inbox' /\ (At(i, t, K) <=> At(i - 1, t, K)')
      /\ \A t, K : At(1, t, K) => t = s /\ e.ev \in K
      /\ DOMAIN inbox \subseteq Nat /\ DOMAIN inbox' \subseteq Nat
  BY <1>1, <1>2, <1>3, TailFacts DEF At
<1>9. \A t, K : Waits(t, K)' => Waits(t, K)
  BY <1>8 DEF Waits
<1>10. \A t, K : Waits(t, K) => Waits(t, K)' \/ (t = s /\ e.ev \in K)
  <2> TAKE t, K
  <2> HAVE Waits(t, K)
  <2>1. PICK i \in DOMAIN inbox : At(i, t, K)
    BY DEF Waits
  <2>2. CASE i = 1
    BY <1>8, <2>1, <2>2
  <2>3. CASE i > 1
    BY <1>8, <2>1, <2>3 DEF Waits
  <2>4. i \in 1..Len(inbox)
    BY <1>1, LenProperties DEF TypeOK
  <2> QED
    BY <2>2, <2>3, <2>4
<1>11. \A t, K, J : \A i \in DOMAIN inbox' :
          (\E j \in DOMAIN inbox : j > i + 1 /\ At(j, t, J))
          => \E j \in DOMAIN inbox' : j > i /\ At(j, t, J)'
  <2> SUFFICES ASSUME NEW t, NEW J, NEW i \in DOMAIN inbox', NEW j \in DOMAIN inbox,
                      j > i + 1, At(j, t, J)
               PROVE  \E k \in DOMAIN inbox' : k > i /\ At(k, t, J)'
    OBVIOUS
  <2>1. i \in Nat /\ j \in Nat /\ j > 1 /\ j - 1 > i
    BY <1>8
  <2> QED
    BY <1>8, <2>1
<1>12. ASSUME NEW t \in Shells \ {s}
       PROVE  EndOK(t)'
  <2>1. EndOK(t) /\ proc' = proc
    BY <1>1, <1>2 DEF EndInv
  <2>2. bg'[t] = bg[t] /\ result'[t] = result[t] /\ (t \in known' <=> t \in known)
    BY <1>5 DEF CallStep, ShellStep
  <2>3. ToldBackground(t)' <=> ToldBackground(t)
    BY <2>2 DEF ToldBackground
  <2>4. \A K : Waits(t, K)' <=> Waits(t, K)
    BY <1>9, <1>10
  <2>5. ASSUME Moved(t)', proc[t].state = "ended",
               NEW i \in DOMAIN inbox', At(i, t, {"out", "backgrounded", "forced"})'
        PROVE  \E j \in DOMAIN inbox' : j > i /\ At(j, t, Ends)'
    <3>1. Moved(t)
      BY <2>2, <2>4, <2>5 DEF Moved
    <3>2. i + 1 \in DOMAIN inbox /\ At(i + 1, t, {"out", "backgrounded", "forced"})
      BY <1>8, <2>5
    <3>3. \E j \in DOMAIN inbox : j > i + 1 /\ At(j, t, Ends)
      BY <2>1, <2>5, <3>1, <3>2 DEF EndOK
    <3> QED
      BY <1>11, <3>3
  <2> QED
    BY <2>1, <2>2, <2>3, <2>4, <2>5 DEF EndOK, Moved
<1>13. EndOK(s)'
  <2>1. EndOK(s) /\ proc' = proc
    BY <1>1, <1>2, <1>3 DEF EndInv
  <2>2. Moved(s)' => Moved(s)
    <3>1. s \in known' => s \in known \/ Waits(s, {"backgrounded"})
      <4>1. s \in known' => s \in known \/ e.ev = "backgrounded"
        BY <1>5 DEF ShellStep
      <4>2. 1 \in DOMAIN inbox /\ inbox[1] = e
        BY <1>1, <1>2, <1>3, TailFacts
      <4>3. e.ev = "backgrounded" => At(1, s, {"backgrounded"})
        BY <4>2 DEF At
      <4> QED
        BY <4>1, <4>2, <4>3 DEF Waits
    <3> QED
      BY <1>9, <3>1 DEF Moved
  <2>3. ToldBackground(s)' => s \in known'
    BY <1>5, <2>1 DEF EndOK, ShellStep
  <2>4. ASSUME Moved(s)', proc[s].state = "ended",
               NEW i \in DOMAIN inbox', At(i, s, {"out", "backgrounded", "forced"})'
        PROVE  \E j \in DOMAIN inbox' : j > i /\ At(j, s, Ends)'
    <3>2. i + 1 \in DOMAIN inbox /\ At(i + 1, s, {"out", "backgrounded", "forced"})
      BY <1>8, <2>4
    <3>3. \E j \in DOMAIN inbox : j > i + 1 /\ At(j, s, Ends)
      BY <2>1, <2>2, <2>4, <3>2 DEF EndOK
    <3> QED
      BY <1>11, <3>3
  <2>5. ASSUME Moved(s)', proc[s].state = "ended", s \in known'
        PROVE  bg'[s].status \in Terminal \/ Waits(s, Ends)'
    <3>1. CASE e.ev \in Ends
      BY <1>5, <2>5, <3>1 DEF ShellStep
    <3>2. CASE e.ev \in {"out", "backgrounded", "forced"}
      <4>1. 1 \in DOMAIN inbox /\ At(1, s, {"out", "backgrounded", "forced"})
        BY <1>1, <1>2, <1>3, <3>2, TailFacts DEF At
      <4>2. PICK j \in DOMAIN inbox : j > 1 /\ At(j, s, Ends)
        BY <2>1, <2>2, <2>5, <4>1 DEF EndOK
      <4> QED
        BY <1>8, <4>2 DEF Waits
    <3>3. CASE e.ev \notin Ends \cup {"out", "backgrounded", "forced"}
      <4>1. s \in known
        BY <1>5, <2>5, <3>3 DEF ShellStep
      <4>2. bg[s].status \in Terminal \/ Waits(s, Ends)
        BY <2>1, <2>2, <2>5, <4>1 DEF EndOK
      <4>3. bg[s].status \in Terminal => bg'[s].status \in Terminal
        BY <1>5, <3>3 DEF ShellStep
      <4> QED
        BY <1>10, <3>3, <4>2, <4>3
    <3> QED
      BY <3>1, <3>2, <3>3
  <2> QED
    BY <2>1, <2>2, <2>3, <2>4, <2>5 DEF EndOK
<1> QED
  BY <1>4, <1>6, <1>7, <1>12, <1>13 DEF ShellInv, EndInv


-----------------------------------------------------------------------------
(* The other steps of the server.                                          *)
LEMMA TimerKeeps ==
    ASSUME ShellInv, NEW t \in timers, TimerFires(t)
    PROVE  ShellInv'
<1> DEFINE ev == IF t[1] = "close" THEN "close_fired" ELSE "deadline_fired"
           m == Event(t[2], ev)
<1>1. TypeOK /\ CallInv /\ EndInv
  BY DEF ShellInv
<1>2. /\ timers' \subseteq timers /\ inbox' = Append(inbox, m)
      /\ UNCHANGED <<proc, via, file, pending, result, bg, known, waiting, seen>>
  BY DEF TimerFires
<1>3. t[2] \in Shells /\ ev \in Events /\ ev \in {"close_fired", "deadline_fired"}
  BY <1>1 DEF TypeOK, Events
<1>4. m \in Messages /\ m.ev \in {"close_fired", "deadline_fired"}
  BY <1>1, <1>3 DEF Event, Messages, TypeOK, Commands
<1> HIDE DEF m
<1>5. /\ inbox' \in Seq(Messages)
      /\ DOMAIN inbox \subseteq DOMAIN inbox'
      /\ \A i \in DOMAIN inbox : inbox'[i] = inbox[i]
      /\ \A i \in DOMAIN inbox' \ DOMAIN inbox : inbox'[i] = m
  <2>1. inbox \in Seq(Messages)
    BY <1>1 DEF TypeOK
  <2>2. /\ Append(inbox, m) \in Seq(Messages) /\ Len(Append(inbox, m)) = Len(inbox) + 1
        /\ \A i \in 1..Len(inbox) : Append(inbox, m)[i] = inbox[i]
        /\ Append(inbox, m)[Len(inbox) + 1] = m
    BY <1>4, <2>1, AppendProperties
  <2>3. DOMAIN inbox = 1..Len(inbox) /\ Len(inbox) \in Nat
    BY <2>1, LenProperties
  <2>4. DOMAIN inbox' = 1..(Len(inbox) + 1) /\ inbox' \in Seq(Messages)
    BY <1>2, <2>2, LenProperties
  <2> QED
    BY <1>2, <2>2, <2>3, <2>4
<1>6. TypeOK' /\ CallInv'
  BY <1>1, <1>2, <1>5 DEF TypeOK, CallInv
<1>7. ASSUME NEW s \in Shells, NEW K \in SUBSET (Events \ {"close_fired", "deadline_fired"})
      PROVE  /\ \A i \in DOMAIN inbox' : At(i, s, K)' <=> i \in DOMAIN inbox /\ At(i, s, K)
             /\ Waits(s, K)' <=> Waits(s, K)
  BY <1>4, <1>5, <1>7 DEF At, Waits
<1>8. /\ {"backgrounded"} \in SUBSET (Events \ {"close_fired", "deadline_fired"})
      /\ Ends \in SUBSET (Events \ {"close_fired", "deadline_fired"})
      /\ {"out", "backgrounded", "forced"} \in SUBSET (Events \ {"close_fired", "deadline_fired"})
  BY DEF Events, Ends
<1>9. ASSUME NEW s \in Shells
      PROVE  EndOK(s)'
  <2>1. EndOK(s)
    BY <1>1 DEF EndInv
  <2>2. Moved(s)' <=> Moved(s)
    BY <1>2, <1>7, <1>8 DEF Moved
  <2>3. ToldBackground(s)' <=> ToldBackground(s)
    BY <1>2 DEF ToldBackground
  <2>4. Waits(s, Ends)' <=> Waits(s, Ends)
    BY <1>7, <1>8
  <2>5. ASSUME Moved(s), proc[s].state = "ended",
               NEW i \in DOMAIN inbox', At(i, s, {"out", "backgrounded", "forced"})'
        PROVE  \E j \in DOMAIN inbox' : j > i /\ At(j, s, Ends)'
    <3>1. i \in DOMAIN inbox /\ At(i, s, {"out", "backgrounded", "forced"})
      BY <1>7, <1>8, <2>5
    <3>2. PICK j \in DOMAIN inbox : j > i /\ At(j, s, Ends)
      BY <2>1, <2>5, <3>1 DEF EndOK
    <3> QED
      BY <1>5, <1>7, <1>8, <3>2
  <2> QED
    BY <1>2, <2>1, <2>2, <2>3, <2>4, <2>5 DEF EndOK
<1> QED
  BY <1>6, <1>9 DEF ShellInv, EndInv

LEMMA OpenKeeps ==
    ASSUME ShellInv, NEW s \in Shells, openShell(s)
    PROVE  ShellInv'
<1> DEFINE p == [pending[s] EXCEPT !.state = "opened"]
           q == [proc[s] EXCEPT !.state = "asked"]
<1>1. TypeOK /\ CallInv /\ EndInv
  BY DEF ShellInv
<1>2. /\ proc[s].state = "off" /\ proc' = [proc EXCEPT ![s] = q]
      /\ pending' = [pending EXCEPT ![s] = p]
      /\ timers' = timers \cup {<<"deadline", s>>}
      /\ UNCHANGED <<via, file, inbox, result, bg, known, waiting, seen>>
  BY DEF openShell, scheduleShellForegroundRecovery
<1>3. q \in Commands /\ q.state = "asked"
  BY <1>1 DEF TypeOK, Commands
<1>4. p \in PendingExecs /\ p.state = "opened"
  BY <1>1 DEF TypeOK, PendingExecs, Open
<1> HIDE DEF p, q
<1>5. TypeOK'
  BY <1>1, <1>2, <1>3, <1>4 DEF TypeOK
<1>6. CallInv'
  BY <1>1, <1>2, <1>3, <1>4 DEF CallInv, TypeOK
<1>7. EndInv'
  <2> SUFFICES ASSUME NEW t \in Shells PROVE EndOK(t)'
    BY DEF EndInv
  <2>1. EndOK(t)
    BY <1>1 DEF EndInv
  <2>2. Moved(t)' <=> Moved(t)
    BY <1>2 DEF Moved, Waits, At
  <2>3. proc'[t] = proc[t] \/ (t = s /\ proc'[t] = q)
    BY <1>1, <1>2 DEF TypeOK
  <2>4. \/ proc'[t].state = proc[t].state /\ proc'[t].stream = proc[t].stream
        \/ ~Moved(t) /\ proc'[t].state = "asked"
    <3>1. proc[s].state \notin {"background", "ended"}
      BY <1>2
    <3>2. t = s => ~Moved(t)
      BY <2>1, <3>1 DEF EndOK
    <3>3. t = s => proc'[t].state = "asked"
      BY <1>3, <2>3, <1>2, <1>1 DEF TypeOK
    <3> QED
      BY <2>3, <3>2, <3>3
  <2> QED
    BY <1>2, <2>1, <2>2, <2>4 DEF EndOK, ToldBackground, Waits, At
<1> QED
  BY <1>5, <1>6, <1>7 DEF ShellInv

(* What AwaitShell shows is the end of what the shell has.                 *)
LEMMA RefreshFacts ==
    ASSUME NEW b \in BackgroundShells, NEW f \in Files
    PROVE  LET r == refreshBackgroundShellFromTerminalFile(b, f) IN
           /\ r \in BackgroundShells /\ r.offset = b.offset
           /\ b.status \in Terminal => r.status \in Terminal
           /\ f = [out |-> <<>>, ended |-> FALSE] => r = b
           /\ r.out = b.out \/ (b.out = <<>> /\ f.out # <<>> /\ r.out = clampShellBuffer(f.out))
<1> DEFINE c == ensureBackgroundShellState(b)
           buf == clampShellBuffer(f.out)
           st == IF c.status \in Terminal THEN c.status ELSE "running"
           o == IF c.out = <<>> /\ f.out # <<>> THEN [c EXCEPT !.out = buf, !.status = st] ELSE c
           x == IF f.ended /\ o.status \notin Terminal THEN "completed" ELSE o.status
           r == refreshBackgroundShellFromTerminalFile(b, f)
<1>1. /\ c \in BackgroundShells /\ c.out = b.out /\ c.offset = b.offset
      /\ b.status \in Terminal => c.status \in Terminal
  BY DEF ensureBackgroundShellState, BackgroundShells, Terminal
<1>2. f.out \in Chunks
  BY DEF Files
<1>3. buf \in Chunks
  BY <1>2, ClampFacts DEF EndOf
<1>4. r = IF f = [out |-> <<>>, ended |-> FALSE] THEN b ELSE [o EXCEPT !.status = x]
  BY DEF refreshBackgroundShellFromTerminalFile
<1>5. st \in {"running", "backgrounded"} \cup Terminal /\ (b.status \in Terminal => st \in Terminal)
  BY <1>1 DEF Terminal
<1> HIDE DEF c, r, st
<1>6. /\ o \in BackgroundShells /\ o.offset = b.offset
      /\ b.status \in Terminal => o.status \in Terminal
      /\ o.out = b.out \/ (b.out = <<>> /\ f.out # <<>> /\ o.out = buf)
  <2>1. CASE c.out = <<>> /\ f.out # <<>>
    <3>1. o = [c EXCEPT !.out = buf, !.status = st]
      BY <2>1
    <3> HIDE DEF buf, o
    <3>2. o \in BackgroundShells /\ o.offset = c.offset /\ o.out = buf /\ o.status = st
      BY <1>1, <1>3, <1>5, <3>1, ZenonT(30) DEF BackgroundShells
    <3> QED
      BY <1>1, <1>5, <2>1, <3>2
  <2>2. CASE ~(c.out = <<>> /\ f.out # <<>>)
    BY <1>1, <2>2
  <2> QED
    BY <2>1, <2>2
<1> HIDE DEF o, buf
<1>7. x \in {"none", "running", "backgrounded"} \cup Terminal /\ (b.status \in Terminal => x \in Terminal)
  BY <1>6 DEF Terminal, BackgroundShells
<1> HIDE DEF x
<1>8. [o EXCEPT !.status = x] \in BackgroundShells
      /\ [o EXCEPT !.status = x].out = o.out /\ [o EXCEPT !.status = x].offset = o.offset
      /\ [o EXCEPT !.status = x].status = x
  BY <1>6, <1>7 DEF BackgroundShells
<1>9. /\ r \in BackgroundShells /\ r.offset = b.offset
      /\ b.status \in Terminal => r.status \in Terminal
      /\ f = [out |-> <<>>, ended |-> FALSE] => r = b
      /\ r.out = b.out \/ (b.out = <<>> /\ f.out # <<>> /\ r.out = buf)
  BY <1>4, <1>6, <1>7, <1>8
<1> QED
  BY <1>9 DEF r, buf

(* The chunks of a shell's output that the model has not been shown.       *)
LEMMA NewFacts ==
    ASSUME NEW out \in Chunks, NEW offset \in Nat
    PROVE  LET start == clampOffset(offset, Len(out))
               r == truncateAwaitShellOutput(SubSeq(out, start + 1, Len(out)))
           IN  /\ r \in Chunks
               /\ \E d \in Nat : \A k \in DOMAIN r :
                     k + d \in DOMAIN out /\ k + d > offset /\ r[k] = out[k + d]
<1> DEFINE start == clampOffset(offset, Len(out))
           m == start + 1
           sub == SubSeq(out, m, Len(out))
           r == truncateAwaitShellOutput(sub)
<1>1. Len(out) \in Nat /\ DOMAIN out = 1..Len(out) /\ out \in Seq(Nat)
  BY LenProperties DEF Chunks
<1>2. start \in Nat /\ start <= Len(out) /\ (start < Len(out) => start = offset)
  <2>1. start = IF offset > Len(out) THEN Len(out) ELSE offset
    BY DEF clampOffset
  <2> HIDE DEF start
  <2>2. CASE offset > Len(out)
    <3>1. start = Len(out)
      BY <2>1, <2>2
    <3>2. Len(out) \in Nat /\ Len(out) <= Len(out) /\ ~(Len(out) < Len(out))
      BY <1>1
    <3> QED
      BY <3>1, <3>2, Zenon
  <2>3. CASE ~(offset > Len(out))
    <3>1. start = offset
      BY <2>1, <2>3
    <3> QED
      BY <1>1, <2>3, <3>1
  <2> QED
    BY <2>2, <2>3
<1> HIDE DEF start
<1>3. m \in Int /\ Len(out) \in Int /\ (m <= Len(out) => Len(out) - m + 1 = Len(out) - start)
      /\ (~(m <= Len(out)) => start = Len(out))
      /\ \A i \in m .. Len(out) : out[i] \in Nat
  <2>1. \A i \in m .. Len(out) : i \in 1..Len(out)
    BY <1>1, <1>2
  <2>2. \A i \in m .. Len(out) : out[i] \in Nat
    BY <1>1, <2>1, ElementOfSeq
  <2>3. m \in Int /\ Len(out) \in Int
    BY <1>1, <1>2
  <2>4. /\ m <= Len(out) => Len(out) - m + 1 = Len(out) - start
        /\ ~(m <= Len(out)) => start = Len(out)
    <3>1. start \in Nat /\ start <= Len(out) /\ Len(out) \in Nat
      BY <1>1, <1>2
    <3>2. m = start + 1
      OBVIOUS
    <3> HIDE DEF m
    <3> QED
      BY <3>1, <3>2
  <2> QED
    BY <2>2, <2>3, <2>4
<1>4. \A k \in 1..(Len(out) - start) : m + k - 1 = k + start
  BY <1>1, <1>2
<1> HIDE DEF m
<1>5. /\ sub \in Seq(Nat) /\ Len(sub) = Len(out) - start
      /\ \A k \in 1..(Len(out) - start) : sub[k] = out[k + start]
  <2>1. /\ sub \in Seq(Nat)
        /\ Len(sub) = IF m <= Len(out) THEN Len(out) - m + 1 ELSE 0
        /\ \A k \in 1..(Len(out) - m + 1) : sub[k] = out[m + k - 1]
    BY <1>3, SubSeqProperties
  <2>2. CASE m <= Len(out)
    BY <1>3, <1>4, <2>1, <2>2
  <2>3. CASE ~(m <= Len(out))
    <3>1. Len(sub) = 0 /\ Len(out) - start = 0
      <4>1. Len(sub) = 0
        BY <2>1, <2>3
      <4> QED
        BY <1>1, <1>3, <2>3, <4>1
    <3> QED
      BY <2>1, <3>1
  <2> QED
    BY <2>2, <2>3
<1> HIDE DEF sub
<1>6. sub \in Chunks /\ EndOf(r, sub)
  BY <1>5, TruncateFacts DEF Chunks
<1>7. DOMAIN sub = 1..(Len(out) - start)
  BY <1>5, LenProperties
<1> HIDE DEF r
<1>8. PICK d \in Nat : \A k \in DOMAIN r : k + d \in DOMAIN sub /\ r[k] = sub[k + d]
  BY <1>6 DEF EndOf
<1>9. r \in Seq(Nat) /\ DOMAIN r = 1..Len(r)
  BY <1>6, LenProperties DEF EndOf, Chunks
<1>10. ASSUME NEW k \in DOMAIN r
       PROVE  /\ k + (d + start) \in DOMAIN out /\ k + (d + start) > offset
              /\ r[k] = out[k + (d + start)]
  <2>1. k \in Nat /\ k >= 1 /\ k + d \in 1..(Len(out) - start)
    BY <1>7, <1>8, <1>9
  <2>2. (k + d) + start = k + (d + start) /\ k + (d + start) \in 1..Len(out)
    BY <1>1, <1>2, <2>1
  <2>3. start < Len(out)
    BY <1>1, <1>2, <2>1
  <2>4. k + (d + start) > offset
    BY <1>2, <2>1, <2>3
  <2>5. sub[k + d] = out[(k + d) + start]
    BY <1>5, <2>1
  <2> QED
    BY <1>1, <1>8, <2>2, <2>4, <2>5
<1>11. d + start \in Nat
  BY <1>2
<1>12. r \in Chunks /\ \E x \in Nat : \A k \in DOMAIN r :
          k + x \in DOMAIN out /\ k + x > offset /\ r[k] = out[k + x]
  BY <1>9, <1>10, <1>11 DEF Chunks
<1> QED
  BY <1>12 DEF r, sub, m, start


(* AwaitShell shows the new end of the output, and keeps what it saw.      *)
Snapshot(s, b, shown) ==
    /\ b = refreshBackgroundShellFromTerminalFile(bg[s], file[s])
    /\ shown = truncateAwaitShellOutput(
                  SubSeq(b.out, clampOffset(b.offset, Len(b.out)) + 1, Len(b.out)))

LEMMA AwaitFacts ==
    ASSUME ShellInv, NEW s \in Shells, AwaitShellReturns(s),
           NEW b, NEW shown, Snapshot(s, b, shown)
    PROVE  /\ b \in BackgroundShells /\ shown \in Chunks
           /\ bg'[s] \in BackgroundShells /\ bg'[s].status = b.status /\ bg'[s].out = b.out
           /\ bg'[s].offset = Len(b.out) /\ seen'[s] = seen[s] \o shown
           /\ \A t \in Shells \ {s} : bg'[t] = bg[t] /\ seen'[t] = seen[t]
           /\ ShellInv'
<1> DEFINE r == [b EXCEPT !.offset = Len(b.out)]
<1>1. TypeOK /\ CallInv /\ EndInv
  BY DEF ShellInv
<1>2. /\ bg' = [bg EXCEPT ![s] = r] /\ seen' = [seen EXCEPT ![s] = seen[s] \o shown]
      /\ waiting' = {}
      /\ UNCHANGED <<proc, file, inbox, via, pending, timers, result, known>>
  BY DEF AwaitShellReturns, Snapshot, offsetAfterSnapshot, client
<1>3. bg[s] \in BackgroundShells /\ file[s] \in Files /\ seen[s] \in Chunks
  BY <1>1 DEF TypeOK
<1>4. b \in BackgroundShells /\ (bg[s].status \in Terminal => b.status \in Terminal)
  BY <1>3, RefreshFacts DEF Snapshot
<1>5. b.out \in Chunks /\ b.offset \in Nat
  BY <1>4 DEF BackgroundShells
<1>6. shown \in Chunks /\ Len(b.out) \in Nat
  BY <1>5, NewFacts, LenProperties DEF Snapshot, Chunks
<1>7. r \in BackgroundShells /\ r.status = b.status /\ r.out = b.out /\ r.offset = Len(b.out)
  BY <1>4, <1>6 DEF BackgroundShells
<1>8. seen[s] \o shown \in Chunks
  BY <1>3, <1>6, ConcatProperties DEF Chunks
<1> HIDE DEF r
<1>9. /\ bg'[s] = r /\ seen'[s] = seen[s] \o shown
      /\ \A t \in Shells \ {s} : bg'[t] = bg[t] /\ seen'[t] = seen[t]
  BY <1>1, <1>2 DEF TypeOK
<1>10. TypeOK'
  <2>1. bg' \in [Shells -> BackgroundShells] /\ seen' \in [Shells -> Chunks]
    <3> DEFINE w == seen[s] \o shown
    <3>1. w \in Chunks /\ seen' = [seen EXCEPT ![s] = w]
      BY <1>2, <1>8
    <3> HIDE DEF w
    <3> QED
      BY <1>1, <1>2, <1>7, <3>1 DEF TypeOK
  <2> QED
    BY <1>1, <1>2, <2>1 DEF TypeOK
<1>11. CallInv'
  BY <1>1, <1>2 DEF CallInv
<1>12. EndInv'
  <2> SUFFICES ASSUME NEW t \in Shells PROVE EndOK(t)'
    BY DEF EndInv
  <2>1. EndOK(t)
    BY <1>1 DEF EndInv
  <2>2. bg[t].status \in Terminal => bg'[t].status \in Terminal
    BY <1>4, <1>7, <1>9
  <2>3. (Moved(t)' <=> Moved(t)) /\ (ToldBackground(t)' <=> ToldBackground(t))
        /\ (Waits(t, Ends)' <=> Waits(t, Ends))
    BY <1>2 DEF Moved, ToldBackground, Waits, At
  <2> QED
    BY <1>2, <2>1, <2>2, <2>3 DEF EndOK, At
<1> QED
  BY <1>4, <1>6, <1>7, <1>9, <1>10, <1>11, <1>12 DEF ShellInv

LEMMA AwaitKeeps ==
    ASSUME ShellInv, NEW s \in Shells, AwaitShell(s)
    PROVE  ShellInv'
<1>1. TypeOK' /\ CallInv'
  BY DEF AwaitShell, ShellInv, TypeOK, CallInv
<1>2. EndInv'
  BY DEF AwaitShell, ShellInv, EndInv, EndOK, Moved, ToldBackground, Waits, At
<1> QED
  BY <1>1, <1>2 DEF ShellInv

LEMMA InitShells == Init => ShellInv
<1> SUFFICES ASSUME Init PROVE ShellInv
  OBVIOUS
<1>1. <<>> \in Chunks /\ <<>> \in Seq(Results) /\ inbox \in Seq(Messages)
  BY DEF Init, Chunks
<1>2. DOMAIN inbox = {}
  BY DEF Init
<1>3. TypeOK
  <2>1. proc \in [Shells -> Commands] /\ via \in [Shells -> Vias] /\ file \in [Shells -> Files]
    BY <1>1 DEF Init, Commands, Files
  <2>2. pending \in [Shells -> PendingExecs]
    BY <1>1 DEF Init, PendingExecs, NoExec
  <2>3. bg \in [Shells -> BackgroundShells]
    BY <1>1 DEF Init, BackgroundShells, NoShell
  <2>4. result \in [Shells -> Seq(Results)] /\ seen \in [Shells -> Chunks]
    BY <1>1 DEF Init
  <2> QED
    BY <1>1, <2>1, <2>2, <2>3, <2>4 DEF Init, TypeOK
<1>4. CallInv
  BY DEF Init, CallInv, NoExec
<1>5. EndInv
  <2> SUFFICES ASSUME NEW s \in Shells PROVE EndOK(s)
    BY DEF EndInv
  <2>1. ~Moved(s)
    BY <1>2 DEF Init, Moved, Waits
  <2>2. result[s] = <<>> /\ proc[s].state = "off"
    BY DEF Init
  <2>3. DOMAIN result[s] = {}
    BY <2>2
  <2>4. ~ToldBackground(s)
    BY <2>3 DEF ToldBackground
  <2> QED
    BY <2>1, <2>2, <2>4 DEF EndOK
<1> QED
  BY <1>3, <1>4, <1>5 DEF ShellInv


-----------------------------------------------------------------------------
LEMMA StepKeeps == ShellInv /\ [Next]_vars => ShellInv'
<1> SUFFICES ASSUME ShellInv, [Next]_vars PROVE ShellInv'
  OBVIOUS
<1>1. CASE UNCHANGED vars
  <2>1. TypeOK' /\ CallInv'
    BY <1>1 DEF ShellInv, TypeOK, CallInv, vars
  <2>2. EndInv'
    BY <1>1 DEF ShellInv, EndInv, EndOK, Moved, ToldBackground, Waits, At, vars
  <2> QED
    BY <2>1, <2>2 DEF ShellInv
<1>2. ASSUME NEW s \in Shells,
             \/ ClientStarts(s) \/ ClientPrints(s) \/ ClientBackgrounds(s)
             \/ ClientEnds(s) \/ ClientCloses(s)
      PROVE  ShellInv'
  BY <1>2, StartKeeps, PrintKeeps, BackgroundKeeps, EndKeeps, CloseKeeps
<1>3. ASSUME NEW s \in Shells, openShell(s) \/ AwaitShell(s)
      PROVE  ShellInv'
  BY <1>3, OpenKeeps, AwaitKeeps
<1>4. ASSUME NEW s \in Shells, AwaitShellReturns(s)
      PROVE  ShellInv'
  BY <1>4, AwaitFacts DEF Snapshot
<1>5. ASSUME NEW t \in timers, TimerFires(t)
      PROVE  ShellInv'
  BY <1>5, TimerKeeps
<1>6. CASE ActorHandles
  BY <1>6, HandlersKeep
<1> QED
  BY <1>1, <1>2, <1>3, <1>4, <1>5, <1>6 DEF Next

LEMMA ShellsStayOK == Spec => []ShellInv
<1> QED
  BY InitShells, StepKeeps, PTL DEF Spec

(* Whatever the client sends, in whatever order the timers fire, every     *)
(* record of a shell keeps its type.                                       *)
THEOREM ShellTypeCorrect == Spec => []TypeOK
<1>1. ShellInv => TypeOK
  BY DEF ShellInv
<1> QED
  BY <1>1, ShellsStayOK, PTL

(* A shell call is answered once at most, by the exit, by one of the two   *)
(* timers or by the closed stream; and the end of a command that the model *)
(* was told is in the background is not lost, although it arrives when the *)
(* call is long done.                                                      *)
THEOREM ShellsEndOnce == Spec => []EndIsKnownOnce
<1>1. ASSUME ShellInv PROVE EndIsKnownOnce
  <2>1. TypeOK /\ CallInv /\ EndInv
    BY <1>1 DEF ShellInv
  <2>2. OneResultPerShell
    <3> SUFFICES ASSUME NEW s \in Shells
                 PROVE  Len(result[s]) <= 1 /\ (pending[s].state = "done" <=> result[s] # <<>>)
      BY DEF OneResultPerShell
    <3>1. result[s] \in Seq(Results) /\ Len(<<>>) = 0
      BY <2>1 DEF TypeOK
    <3>2. CASE pending[s].state = "done"
      <4>1. Len(result[s]) = 1
        BY <2>1, <3>2 DEF CallInv
      <4>2. result[s] # <<>>
        BY <3>1, <4>1, EmptySeq
      <4> QED
        BY <3>2, <4>1, <4>2
    <3>3. CASE pending[s].state # "done"
      BY <2>1, <3>1, <3>3 DEF CallInv
    <3> QED
      BY <3>2, <3>3
  <2>3. BackgroundEndIsKnown
    <3> SUFFICES ASSUME NEW s \in Shells, ToldBackground(s), proc[s].state = "ended",
                        \A i \in DOMAIN inbox : inbox[i].shell # s
                 PROVE  bg[s].status \in Terminal
      BY DEF BackgroundEndIsKnown, ToldBackground
    <3>1. EndOK(s) /\ ~Waits(s, Ends)
      BY <2>1 DEF EndInv, Waits, At
    <3> QED
      BY <3>1 DEF EndOK, Moved
  <2> QED
    BY <2>2, <2>3 DEF EndIsKnownOnce
<1> QED
  BY <1>1, ShellsStayOK, PTL


-----------------------------------------------------------------------------
(* What is shown, chunk by chunk.                                          *)
LEMMA RisingEnd ==
    ASSUME NEW out \in Chunks, NEW r, EndOf(r, out), NEW n \in Nat,
           Rising(out), Within(out, n)
    PROVE  Rising(r) /\ Within(r, n)
<1>1. PICK d \in Nat : \A k \in DOMAIN r : k + d \in DOMAIN out /\ r[k] = out[k + d]
  BY DEF EndOf
<1>2. DOMAIN r \subseteq Nat /\ DOMAIN out \subseteq Nat
  <2>1. r \in Seq(Nat) /\ out \in Seq(Nat)
    BY DEF EndOf, Chunks
  <2>2. /\ DOMAIN r = 1..Len(r) /\ Len(r) \in Nat
        /\ DOMAIN out = 1..Len(out) /\ Len(out) \in Nat
    BY <2>1, LenProperties
  <2> QED
    BY <2>2
<1>3. \A i, j \in DOMAIN r : i < j => i + d < j + d
  BY <1>2
<1> QED
  BY <1>1, <1>3 DEF Rising, Within

LEMMA BufferHears ==
    ASSUME NEW b \in BackgroundShells, NEW f \in Chunks, NEW sn \in Chunks, NEW n \in Nat,
           BufferOK(b, f, sn, n), NEW c \in Nat, c <= n,
           \A k \in DOMAIN b.out : b.out[k] < c, \A k \in DOMAIN sn : sn[k] < c,
           NEW r \in BackgroundShells, r.offset = b.offset,
           r.out = appendShellStreamBuffer(b.out, c)
    PROVE  /\ BufferOK(r, f, sn, n)
           /\ \A k \in DOMAIN r.out : r.out[k] <= c
<1> DEFINE a == Append(b.out, c)
<1>1. b.out \in Chunks /\ b.offset \in Nat
  BY DEF BackgroundShells
<1>2. /\ a \in Chunks /\ EndOf(r.out, a) /\ r.out # <<>>
      /\ Len(a) = Len(b.out) + 1 /\ a[Len(b.out) + 1] = c
      /\ \A k \in DOMAIN b.out : a[k] = b.out[k]
  <2> DEFINE o == b.out
  <2>1. o \in Chunks
    BY <1>1
  <2> HIDE DEF o
  <2>2. /\ Append(o, c) \in Chunks /\ EndOf(appendShellStreamBuffer(o, c), Append(o, c))
        /\ appendShellStreamBuffer(o, c) # <<>>
        /\ Len(Append(o, c)) = Len(o) + 1 /\ Append(o, c)[Len(o) + 1] = c
        /\ \A k \in DOMAIN o : Append(o, c)[k] = o[k]
    BY <2>1, BufferGrows
  <2> QED
    BY <2>2 DEF o
<1> HIDE DEF a
<1>3. /\ DOMAIN b.out = 1..Len(b.out) /\ Len(b.out) \in Nat
      /\ DOMAIN a = 1..(Len(b.out) + 1)
      /\ \A k \in DOMAIN b.out : b.out[k] \in Nat
  BY <1>1, <1>2, LenProperties, ElementOfSeq DEF Chunks
<1>4. \A k \in DOMAIN a : k \in DOMAIN b.out \/ (k = Len(b.out) + 1 /\ a[k] = c)
  BY <1>2, <1>3
<1>5. Rising(a)
  <2> SUFFICES ASSUME NEW i \in DOMAIN a, NEW j \in DOMAIN a, i < j PROVE a[i] < a[j]
    BY DEF Rising
  <2>1. i \in DOMAIN b.out
    BY <1>3
  <2>2. CASE j \in DOMAIN b.out
    BY <1>2, <2>1, <2>2 DEF BufferOK, Rising
  <2>3. CASE a[j] = c
    BY <1>2, <2>1, <2>3
  <2> QED
    BY <1>4, <2>2, <2>3
<1>6. Within(a, c) /\ Within(a, n)
  <2>1. \A k \in DOMAIN a : a[k] <= c /\ a[k] <= n
    <3> TAKE k \in DOMAIN a
    <3>1. CASE k \in DOMAIN b.out
      <4>1. b.out[k] \in Nat /\ b.out[k] < c /\ a[k] = b.out[k]
        BY <1>2, <1>3, <3>1
      <4> QED
        BY <4>1
    <3>2. CASE a[k] = c
      BY <3>2
    <3> QED
      BY <1>4, <3>1, <3>2
  <2> QED
    BY <2>1 DEF Within
<1>7. Rising(r.out) /\ Within(r.out, n) /\ Within(r.out, c)
  BY <1>2, <1>5, <1>6, RisingEnd
<1>8. PICK d \in Nat : \A k \in DOMAIN r.out : k + d \in DOMAIN a /\ r.out[k] = a[k + d]
  BY <1>2 DEF EndOf
<1>9. ASSUME NEW i \in DOMAIN sn, NEW k \in DOMAIN r.out, k > r.offset
      PROVE  sn[i] < r.out[k]
  <2>1. r.out \in Seq(Nat)
    BY <1>2 DEF EndOf, Chunks
  <2>2. k \in Nat
    BY <2>1, LenProperties
  <2>3. k + d > b.offset /\ k + d \in DOMAIN a
    BY <1>1, <1>8, <1>9, <2>2
  <2>4. CASE k + d \in DOMAIN b.out
    BY <1>2, <1>8, <2>3, <2>4 DEF BufferOK
  <2>5. CASE a[k + d] = c
    BY <1>8, <2>5
  <2> QED
    BY <1>4, <2>3, <2>4, <2>5
<1> QED
  BY <1>2, <1>7, <1>9 DEF BufferOK, Within

LEMMA BufferRefreshed ==
    ASSUME NEW b \in BackgroundShells, NEW f \in Files, NEW sn \in Chunks, NEW n \in Nat,
           BufferOK(b, f.out, sn, n)
    PROVE  BufferOK(refreshBackgroundShellFromTerminalFile(b, f), f.out, sn, n)
<1> DEFINE r == refreshBackgroundShellFromTerminalFile(b, f)
<1>1. /\ r \in BackgroundShells /\ r.offset = b.offset
      /\ r.out = b.out \/ (b.out = <<>> /\ f.out # <<>> /\ r.out = clampShellBuffer(f.out))
  BY RefreshFacts
<1>2. f.out \in Chunks
  BY DEF Files
<1> HIDE DEF r
<1>3. ASSUME r.out = b.out
      PROVE  BufferOK(r, f.out, sn, n)
  BY <1>1, <1>3 DEF BufferOK
<1>4. ASSUME b.out = <<>> /\ f.out # <<>> /\ r.out = clampShellBuffer(f.out)
      PROVE  BufferOK(r, f.out, sn, n)
  <2>1. EndOf(r.out, f.out) /\ r.out # <<>>
    BY <1>2, <1>4, ClampFacts
  <2>2. Rising(r.out) /\ Within(r.out, n)
    BY <1>2, <2>1, RisingEnd DEF BufferOK
  <2>3. sn = <<>>
    BY <1>4 DEF BufferOK
  <2>4. DOMAIN sn = {}
    BY <2>3
  <2> QED
    BY <2>1, <2>2, <2>4 DEF BufferOK
<1> QED
  BY <1>1, <1>3, <1>4 DEF r

LEMMA BufferShown ==
    ASSUME NEW b \in BackgroundShells, NEW f \in Chunks, NEW sn \in Chunks, NEW n \in Nat,
           BufferOK(b, f, sn, n), NEW shown \in Chunks,
           NEW d \in Nat, \A k \in DOMAIN shown :
              k + d \in DOMAIN b.out /\ k + d > b.offset /\ shown[k] = b.out[k + d],
           NEW r, r.out = b.out, r.offset = Len(b.out)
    PROVE  /\ BufferOK(r, f, sn \o shown, n)
           /\ \A c : (\A k \in DOMAIN b.out : b.out[k] < c) /\ (\A k \in DOMAIN sn : sn[k] < c)
                     => \A k \in DOMAIN (sn \o shown) : (sn \o shown)[k] < c
<1> DEFINE w == sn \o shown
<1>1. sn \in Seq(Nat) /\ shown \in Seq(Nat) /\ b.out \in Seq(Nat) /\ b.offset \in Nat
  BY DEF Chunks, BackgroundShells
<1>2. /\ Len(sn) \in Nat /\ Len(shown) \in Nat /\ Len(b.out) \in Nat
      /\ DOMAIN sn = 1..Len(sn) /\ DOMAIN shown = 1..Len(shown) /\ DOMAIN b.out = 1..Len(b.out)
  BY <1>1, LenProperties
<1>3. /\ w \in Seq(Nat) /\ Len(w) = Len(sn) + Len(shown)
      /\ \A i \in 1..(Len(sn) + Len(shown)) :
            w[i] = IF i <= Len(sn) THEN sn[i] ELSE shown[i - Len(sn)]
  BY <1>1, ConcatProperties
<1>4. DOMAIN w = 1..(Len(sn) + Len(shown))
  BY <1>3, LenProperties
<1> HIDE DEF w
<1>5. \A i \in DOMAIN w : \/ i \in DOMAIN sn /\ w[i] = sn[i]
                          \/ /\ ~(i <= Len(sn)) /\ i - Len(sn) \in DOMAIN shown
                             /\ w[i] = shown[i - Len(sn)]
  BY <1>2, <1>3, <1>4
<1>6. Rising(w)
  <2> SUFFICES ASSUME NEW i \in DOMAIN w, NEW j \in DOMAIN w, i < j PROVE w[i] < w[j]
    BY DEF Rising
  <2>1. CASE i \in DOMAIN sn /\ w[i] = sn[i] /\ j \in DOMAIN sn /\ w[j] = sn[j]
    BY <2>1 DEF BufferOK, Rising
  <2>2. CASE /\ i \in DOMAIN sn /\ w[i] = sn[i]
             /\ j - Len(sn) \in DOMAIN shown /\ w[j] = shown[j - Len(sn)]
    <3>1. /\ (j - Len(sn)) + d \in DOMAIN b.out /\ (j - Len(sn)) + d > b.offset
          /\ w[j] = b.out[(j - Len(sn)) + d]
      BY <2>2
    <3> QED
      BY <2>2, <3>1 DEF BufferOK
  <2>3. CASE /\ i - Len(sn) \in DOMAIN shown /\ w[i] = shown[i - Len(sn)]
             /\ j - Len(sn) \in DOMAIN shown /\ w[j] = shown[j - Len(sn)]
    <3>1. /\ (i - Len(sn)) + d \in DOMAIN b.out /\ w[i] = b.out[(i - Len(sn)) + d]
          /\ (j - Len(sn)) + d \in DOMAIN b.out /\ w[j] = b.out[(j - Len(sn)) + d]
      BY <2>3
    <3>2. (i - Len(sn)) + d < (j - Len(sn)) + d
      BY <1>2, <1>4
    <3> QED
      BY <3>1, <3>2 DEF BufferOK, Rising
  <2>4. j \in DOMAIN sn => i \in DOMAIN sn /\ i <= Len(sn)
    BY <1>2, <1>4
  <2> QED
    BY <1>5, <2>1, <2>2, <2>3, <2>4
<1>7. Within(w, n)
  <2> SUFFICES ASSUME NEW i \in DOMAIN w PROVE w[i] <= n
    BY DEF Within
  <2>1. CASE i \in DOMAIN sn /\ w[i] = sn[i]
    BY <2>1 DEF BufferOK, Within
  <2>2. CASE i - Len(sn) \in DOMAIN shown /\ w[i] = shown[i - Len(sn)]
    BY <2>2 DEF BufferOK, Within
  <2> QED
    BY <1>5, <2>1, <2>2
<1>8. r.out = <<>> => r.offset = 0 /\ w = <<>>
  <2> SUFFICES ASSUME b.out = <<>> PROVE Len(b.out) = 0 /\ w = <<>>
    OBVIOUS
  <2>1. sn = <<>> /\ Len(b.out) = 0 /\ DOMAIN b.out = {}
    BY DEF BufferOK
  <2>2. DOMAIN shown = {}
    BY <2>1
  <2>3. Len(shown) = 0 /\ Len(sn) = 0
    BY <1>2, <2>1, <2>2
  <2>4. Len(w) = 0
    BY <1>3, <2>3
  <2> QED
    BY <1>3, <2>1, <2>4, EmptySeq
<1>9. \A k \in DOMAIN r.out : ~(k > r.offset)
  BY <1>2
<1>10. BufferOK(r, f, w, n)
  BY <1>6, <1>7, <1>8, <1>9 DEF BufferOK
<1>11. ASSUME NEW c, \A k \in DOMAIN b.out : b.out[k] < c, \A k \in DOMAIN sn : sn[k] < c,
              NEW k \in DOMAIN w
       PROVE  w[k] < c
  BY <1>5, <1>11
<1> QED
  BY <1>10, <1>11 DEF w


(* The steps of the server keep the order, too.                            *)
OnePath == "both" \notin Vias

LEMMA HandlersShow ==
    ASSUME OnePath, ShellInv, ShownInv, ActorHandles,
           NEW e, e = Head(inbox), NEW s, s = e.shell
    PROVE  ShownInv'
<1>1. TypeOK
  BY DEF ShellInv
<1>2. inbox # <<>> /\ inbox' = Tail(inbox) /\ UNCHANGED <<proc, via, file, waiting, seen>>
  BY DEF ActorHandles
<1>3. e \in Messages /\ e = inbox[1] /\ s \in Shells /\ 1 \in DOMAIN inbox /\ e.chunk \in Nat
  BY <1>1, <1>2, TailFacts DEF Messages
<1>4. ShellStep(s, e)
  BY HandlersKeep DEF Handled
<1>5. /\ \A t, K : \A i \in DOMAIN inbox' : i + 1 \in DOMAIN inbox /\ (At(i, t, K)' <=> At(i + 1, t, K))
      /\ \A i \in DOMAIN inbox' : i + 1 \in DOMAIN inbox /\ inbox'[i] = inbox[i + 1]
      /\ \A K : e.ev \in K => At(1, s, K)
      /\ DOMAIN inbox \subseteq Nat /\ DOMAIN inbox' \subseteq Nat
  BY <1>1, <1>2, <1>3, TailFacts DEF At
<1>6. /\ \A i, j \in DOMAIN inbox' : j > i => j + 1 > i + 1
      /\ \A i \in DOMAIN inbox' : i + 1 > 1
  BY <1>1, <1>2, TailFacts DEF TypeOK
<1>7. \A t, K : Waits(t, K)' => Waits(t, K)
  BY <1>5 DEF Waits
<1>8. ASSUME NEW t \in Shells \ {s}
      PROVE  BufferOK(bg[t], file[t].out, seen[t], proc[t].printed)' /\ StreamHeard(t)' /\ FileHeard(t)'
  <2>1. bg'[t] = bg[t] /\ (t \in known' <=> t \in known)
    BY <1>4 DEF ShellStep
  <2>2. BufferOK(bg[t], file[t].out, seen[t], proc[t].printed) /\ StreamHeard(t) /\ FileHeard(t)
    BY DEF ShownInv
  <2>3. BufferOK(bg[t], file[t].out, seen[t], proc[t].printed)'
    BY <1>2, <2>1, <2>2
  <2>4. StreamHeard(t)'
    BY <1>2, <1>5, <1>6, <2>1, <2>2 DEF StreamHeard
  <2>5. FileHeard(t)'
    BY <1>2, <1>5, <1>6, <1>7, <2>1, <2>2 DEF FileHeard
  <2> QED
    BY <2>3, <2>4, <2>5
<1>9. /\ BufferOK(bg[s], file[s].out, seen[s], proc[s].printed) /\ StreamHeard(s) /\ FileHeard(s)
      /\ bg[s] \in BackgroundShells /\ bg'[s] \in BackgroundShells
      /\ file[s].out \in Chunks /\ seen[s] \in Chunks /\ proc[s].printed \in Nat
  BY <1>1, <1>3, <1>4 DEF ShownInv, ShellStep, TypeOK, Files, Commands
<1>10. via[s] = "stream" \/ via[s] = "file"
  <2>1. via[s] \in Vias /\ via[s] # "both"
    BY <1>1, <1>3 DEF TypeOK, OnePath
  <2> QED
    BY <2>1, ViasAssumption
<1>11. CASE bg'[s].out = bg[s].out
  <2>1. BufferOK(bg'[s], file[s].out, seen[s], proc[s].printed)
    BY <1>4, <1>9, <1>11 DEF BufferOK, ShellStep
  <2>2. StreamHeard(s)'
    <3> SUFFICES ASSUME via[s] = "stream" PROVE StreamHeard(s)'
      BY <1>2 DEF StreamHeard
    <3>1. s \notin known' => bg'[s].out = <<>>
      BY <1>4, <1>9, <1>11 DEF StreamHeard, ShellStep
    <3> QED
      BY <1>2, <1>5, <1>6, <1>9, <1>11, <3>1 DEF StreamHeard
  <2>3. FileHeard(s)'
    <3> SUFFICES ASSUME via[s] = "file" PROVE FileHeard(s)'
      BY <1>2 DEF FileHeard
    <3>1. ASSUME s \in known' PROVE ~Waits(s, {"out"})'
      <4>1. CASE s \in known
        BY <1>7, <1>9, <4>1 DEF FileHeard
      <4>2. CASE e.ev = "backgrounded"
        <5>1. At(1, s, {"backgrounded"})
          BY <1>5, <4>2
        <5>2. \A j \in DOMAIN inbox : j > 1 => ~At(j, s, {"out"})
          BY <1>3, <1>9, <5>1 DEF FileHeard
        <5> QED
          BY <1>5, <1>6, <5>2 DEF Waits
      <4> QED
        BY <1>4, <3>1, <4>1, <4>2 DEF ShellStep
    <3> QED
      BY <1>2, <1>5, <1>6, <1>9, <3>1 DEF FileHeard
  <2> QED
    BY <1>2, <1>8, <2>1, <2>2, <2>3 DEF ShownInv
<1>12. CASE /\ e.ev = "out" /\ s \in known
            /\ bg'[s].out = appendShellStreamBuffer(bg[s].out, e.chunk)
  <2>1. At(1, s, {"out"})
    BY <1>5, <1>12
  <2>2. via[s] = "stream"
    BY <1>3, <1>9, <1>10, <1>12, <2>1 DEF FileHeard, Waits
  <2>3. /\ e.chunk <= proc[s].printed
        /\ \A j \in DOMAIN inbox : j > 1 /\ At(j, s, {"out"}) => e.chunk < inbox[j].chunk
        /\ \A k \in DOMAIN bg[s].out : bg[s].out[k] < e.chunk
        /\ \A k \in DOMAIN seen[s] : seen[s][k] < e.chunk
    BY <1>3, <1>9, <2>1, <2>2 DEF StreamHeard
  <2>4. bg'[s].offset = bg[s].offset
    BY <1>4 DEF ShellStep
  <2>5. /\ BufferOK(bg'[s], file[s].out, seen[s], proc[s].printed)
        /\ \A k \in DOMAIN bg'[s].out : bg'[s].out[k] <= e.chunk
    BY <1>3, <1>9, <1>12, <2>3, <2>4, BufferHears
  <2>6. StreamHeard(s)'
    <3>1. s \in known'
      BY <1>4, <1>12 DEF ShellStep
    <3>2. ASSUME NEW i \in DOMAIN inbox', At(i, s, {"out"})'
          PROVE  /\ inbox'[i].chunk <= proc[s].printed
                 /\ \A j \in DOMAIN inbox' : j > i /\ At(j, s, {"out"})' =>
                       inbox'[i].chunk < inbox'[j].chunk
                 /\ \A k \in DOMAIN bg'[s].out : bg'[s].out[k] < inbox'[i].chunk
                 /\ \A k \in DOMAIN seen[s] : seen[s][k] < inbox'[i].chunk
      <4>1. i + 1 \in DOMAIN inbox /\ At(i + 1, s, {"out"}) /\ inbox'[i] = inbox[i + 1] /\ i + 1 > 1
        BY <1>5, <1>6, <3>2
      <4>2. e.chunk < inbox'[i].chunk
        BY <2>3, <4>1
      <4>3. \A k \in DOMAIN bg'[s].out : bg'[s].out[k] < inbox'[i].chunk
        <5>1. inbox'[i].chunk \in Nat
          <6>1. inbox \in Seq(Messages) /\ DOMAIN inbox = 1..Len(inbox)
            BY <1>1, LenProperties DEF TypeOK
          <6>2. inbox[i + 1] \in Messages
            BY <4>1, <6>1, ElementOfSeq
          <6> QED
            BY <4>1, <6>2 DEF Messages
        <5>2. \A k \in DOMAIN bg'[s].out : bg'[s].out[k] \in Nat
          BY <1>9, ElementOfSeq, LenProperties DEF BackgroundShells, Chunks
        <5> QED
          BY <1>3, <2>5, <4>2, <5>1, <5>2
      <4> QED
        BY <1>5, <1>6, <1>9, <2>2, <3>2, <4>1, <4>3 DEF StreamHeard
    <3> QED
      BY <1>2, <1>9, <2>2, <3>1, <3>2 DEF StreamHeard
  <2>7. FileHeard(s)'
    BY <1>2, <2>2 DEF FileHeard
  <2> QED
    BY <1>2, <1>8, <2>5, <2>6, <2>7 DEF ShownInv
<1> QED
  BY <1>4, <1>11, <1>12 DEF ShellStep

LEMMA AwaitShows ==
    ASSUME ShellInv, ShownInv, NEW s \in Shells, AwaitShellReturns(s),
           NEW b, NEW shown, Snapshot(s, b, shown)
    PROVE  ShownInv'
<1>1. /\ b \in BackgroundShells /\ shown \in Chunks
      /\ bg'[s] \in BackgroundShells /\ bg'[s].out = b.out
      /\ bg'[s].offset = Len(b.out) /\ seen'[s] = seen[s] \o shown
      /\ \A t \in Shells \ {s} : bg'[t] = bg[t] /\ seen'[t] = seen[t]
  BY AwaitFacts
<1>2. UNCHANGED <<proc, file, inbox, via, known>>
  BY DEF AwaitShellReturns, client
<1>3. TypeOK
  BY DEF ShellInv
<1>4. /\ BufferOK(bg[s], file[s].out, seen[s], proc[s].printed) /\ StreamHeard(s)
      /\ bg[s] \in BackgroundShells /\ file[s] \in Files
      /\ file[s].out \in Chunks /\ seen[s] \in Chunks /\ proc[s].printed \in Nat
  BY <1>3 DEF ShownInv, TypeOK, Files, Commands
<1>5. BufferOK(b, file[s].out, seen[s], proc[s].printed)
  BY <1>4, BufferRefreshed DEF Snapshot
<1>6. PICK d \in Nat : \A k \in DOMAIN shown :
         k + d \in DOMAIN b.out /\ k + d > b.offset /\ shown[k] = b.out[k + d]
  BY <1>1, NewFacts DEF Snapshot, BackgroundShells
<1>7. /\ BufferOK(bg'[s], file[s].out, seen[s] \o shown, proc[s].printed)
      /\ \A c : (\A k \in DOMAIN b.out : b.out[k] < c) /\ (\A k \in DOMAIN seen[s] : seen[s][k] < c)
                => \A k \in DOMAIN (seen[s] \o shown) : (seen[s] \o shown)[k] < c
  <2> DEFINE f == file[s].out
             sn == seen[s]
             n == proc[s].printed
             r == bg'[s]
  <2>1. /\ f \in Chunks /\ sn \in Chunks /\ n \in Nat /\ BufferOK(b, f, sn, n)
        /\ r.out = b.out /\ r.offset = Len(b.out)
    BY <1>1, <1>4, <1>5
  <2> HIDE DEF f, sn, n, r
  <2>2. /\ BufferOK(r, f, sn \o shown, n)
        /\ \A c : (\A k \in DOMAIN b.out : b.out[k] < c) /\ (\A k \in DOMAIN sn : sn[k] < c)
                  => \A k \in DOMAIN (sn \o shown) : (sn \o shown)[k] < c
    <3>1. b \in BackgroundShells /\ shown \in Chunks
      BY <1>1
    <3>2. \A k \in DOMAIN shown :
             k + d \in DOMAIN b.out /\ k + d > b.offset /\ shown[k] = b.out[k + d]
      BY <1>6
    <3> QED
      BY <2>1, <3>1, <3>2, BufferShown, ZenonT(30)
  <2> QED
    BY <2>2 DEF f, sn, n, r
<1>8. ASSUME NEW t \in Shells
      PROVE  BufferOK(bg[t], file[t].out, seen[t], proc[t].printed)'
  BY <1>1, <1>2, <1>7 DEF ShownInv
<1>9. ASSUME NEW t \in Shells
      PROVE  FileHeard(t)'
  BY <1>2 DEF ShownInv, FileHeard, Waits, At
<1>10. ASSUME NEW t \in Shells
       PROVE  StreamHeard(t)'
  <2>1. CASE t # s
    BY <1>1, <1>2, <2>1 DEF ShownInv, StreamHeard, At
  <2>2. CASE t = s
    <3> SUFFICES ASSUME via[s] = "stream" PROVE StreamHeard(s)'
      BY <1>2, <2>2 DEF StreamHeard
    <3>1. b.out = bg[s].out
      BY <1>4, RefreshFacts DEF StreamHeard, Snapshot
    <3>2. seen'[s] = seen[s] \o shown /\ bg'[s].out = bg[s].out
      BY <1>1, <3>1
    <3>3. \A c : (\A k \in DOMAIN bg[s].out : bg[s].out[k] < c) /\ (\A k \in DOMAIN seen[s] : seen[s][k] < c)
                 => \A k \in DOMAIN seen'[s] : seen'[s][k] < c
      BY <1>7, <3>1, <3>2
    <3>4. ASSUME NEW i \in DOMAIN inbox, At(i, s, {"out"})
          PROVE  \A k \in DOMAIN seen'[s] : seen'[s][k] < inbox[i].chunk
      BY <1>4, <3>3, <3>4 DEF StreamHeard
    <3> QED
      BY <1>2, <1>4, <3>2, <3>4 DEF StreamHeard, At
  <2> QED
    BY <2>1, <2>2
<1> QED
  BY <1>8, <1>9, <1>10 DEF ShownInv

LEMMA OtherShows ==
    ASSUME ShellInv, ShownInv,
           \/ UNCHANGED vars
           \/ \E s \in Shells : openShell(s) \/ AwaitShell(s)
    PROVE  ShownInv'
<1>1. /\ UNCHANGED <<via, file, inbox, bg, known, seen>>
      /\ \A t \in Shells : proc'[t].printed = proc[t].printed
  <2>1. proc \in [Shells -> Commands]
    BY DEF ShellInv, TypeOK
  <2>2. ASSUME NEW s \in Shells, openShell(s) \/ AwaitShell(s)
        PROVE  /\ UNCHANGED <<via, file, inbox, bg, known, seen>>
               /\ proc' = proc \/ proc' = [proc EXCEPT ![s].state = "asked"]
    BY <2>2 DEF openShell, AwaitShell
  <2>3. ASSUME NEW s \in Shells, proc' = [proc EXCEPT ![s].state = "asked"]
        PROVE  \A t \in Shells : proc'[t].printed = proc[t].printed
    BY <2>1, <2>3 DEF Commands
  <2>4. CASE UNCHANGED vars
    BY <2>4 DEF vars
  <2> QED
    BY <2>2, <2>3, <2>4
<1> QED
  BY <1>1 DEF ShownInv, StreamHeard, FileHeard, Waits, At

LEMMA TimerShows ==
    ASSUME ShellInv, ShownInv, NEW x \in timers, TimerFires(x)
    PROVE  ShownInv'
<1> DEFINE m == Event(x[2], IF x[1] = "close" THEN "close_fired" ELSE "deadline_fired")
<1>1. /\ inbox' = Append(inbox, m) /\ UNCHANGED <<proc, via, file, bg, known, seen>>
      /\ m.ev \notin {"out", "backgrounded"}
  BY DEF TimerFires, Event
<1> HIDE DEF m
<1>2. /\ inbox \in Seq(Messages) /\ DOMAIN inbox = 1..Len(inbox) /\ Len(inbox) \in Nat
  BY LenProperties DEF ShellInv, TypeOK
<1>3. /\ \A i \in DOMAIN inbox : i \in DOMAIN inbox' /\ inbox'[i] = inbox[i]
      /\ \A i \in DOMAIN inbox' : i \in DOMAIN inbox \/ inbox'[i] = m
  <2>1. inbox \in Seq(Messages \cup {m}) /\ m \in Messages \cup {m}
    BY <1>2
  <2>2. /\ Append(inbox, m) \in Seq(Messages \cup {m}) /\ Len(Append(inbox, m)) = Len(inbox) + 1
        /\ \A i \in 1..Len(inbox) : Append(inbox, m)[i] = inbox[i]
        /\ Append(inbox, m)[Len(inbox) + 1] = m
    BY <2>1, AppendProperties
  <2>3. DOMAIN inbox' = 1..(Len(inbox) + 1)
    BY <1>1, <2>2, LenProperties
  <2> QED
    BY <1>1, <1>2, <2>2, <2>3
<1>4. ASSUME NEW t, NEW K \in SUBSET {"out", "backgrounded"}
      PROVE  \A i \in DOMAIN inbox' : At(i, t, K)' <=> i \in DOMAIN inbox /\ At(i, t, K)
  BY <1>1, <1>3, <1>4 DEF At
<1>5. {"out"} \in SUBSET {"out", "backgrounded"} /\ {"backgrounded"} \in SUBSET {"out", "backgrounded"}
  OBVIOUS
<1>6. \A t \in Shells : StreamHeard(t)'
  BY <1>1, <1>3, <1>4, <1>5 DEF ShownInv, StreamHeard
<1>7. \A t \in Shells : FileHeard(t)'
  BY <1>1, <1>3, <1>4, <1>5 DEF ShownInv, FileHeard, Waits
<1> QED
  BY <1>1, <1>6, <1>7 DEF ShownInv

LEMMA InitShown == Init => ShownInv
<1> SUFFICES ASSUME Init, NEW s \in Shells
             PROVE  /\ BufferOK(bg[s], file[s].out, seen[s], proc[s].printed)
                    /\ StreamHeard(s) /\ FileHeard(s)
  BY DEF ShownInv
<1>1. /\ DOMAIN inbox = {} /\ seen[s] = <<>> /\ bg[s] = NoShell /\ s \notin known
      /\ file[s] = [out |-> <<>>, ended |-> FALSE]
  BY DEF Init
<1>2. bg[s].out = <<>> /\ bg[s].offset = 0 /\ file[s].out = <<>>
  BY <1>1 DEF NoShell
<1>3. DOMAIN bg[s].out = {} /\ DOMAIN seen[s] = {} /\ DOMAIN file[s].out = {}
  BY <1>1, <1>2
<1> QED
  BY <1>1, <1>2, <1>3 DEF BufferOK, StreamHeard, FileHeard, Waits, Rising, Within

LEMMA StepShows ==
    ASSUME OnePath
    PROVE  ShellInv /\ ShownInv /\ [Next]_vars => ShownInv'
<1> SUFFICES ASSUME ShellInv, ShownInv, [Next]_vars PROVE ShownInv'
  OBVIOUS
<1>1. ASSUME NEW s \in Shells,
             \/ ClientStarts(s) \/ ClientPrints(s) \/ ClientBackgrounds(s)
             \/ ClientEnds(s) \/ ClientCloses(s)
      PROVE  ShownInv'
  BY <1>1, StartKeeps, PrintKeeps, BackgroundKeeps, EndKeeps, CloseKeeps
<1>2. ASSUME NEW s \in Shells, AwaitShellReturns(s)
      PROVE  ShownInv'
  BY <1>2, AwaitShows DEF Snapshot
<1>3. ASSUME NEW t \in timers, TimerFires(t)
      PROVE  ShownInv'
  BY <1>3, TimerShows
<1>4. CASE ActorHandles
  BY <1>4, HandlersShow
<1>5. CASE UNCHANGED vars \/ \E s \in Shells : openShell(s) \/ AwaitShell(s)
  BY <1>5, OtherShows
<1> QED
  BY <1>1, <1>2, <1>3, <1>4, <1>5 DEF Next

(* AwaitShell shows each chunk of a command's output once at most and in   *)
(* the order of printing, whatever is cut from the buffer between looks,   *)
(* as long as the output of a background command reaches the server on one *)
(* path: over the stream or from the terminal file, not on both.           *)
THEOREM OutputShownOnce ==
    ASSUME OnePath
    PROVE  Spec => []ShownOnceInOrder
<1>1. ShownInv => ShownOnceInOrder
  BY DEF ShownInv, ShownOnceInOrder, BufferOK, Rising
<1>2. Init => ShownInv
  BY InitShown
<1>3. ShellInv /\ ShownInv /\ [Next]_vars => ShownInv'
  BY StepShows
<1> QED
  BY <1>1, <1>2, <1>3, ShellsStayOK, PTL DEF Spec
=============================================================================
