------------------------ MODULE ConversationStoreProofs ------------------------
(***************************************************************************)
(* Theorems about ConversationStore: what a reload finds after a crash     *)
(* between the two files, for any number of turns, passes, calls and       *)
(* crashes.                                                                *)
(***************************************************************************)
EXTENDS ConversationStore, WellFoundedInduction, TLAPS

-----------------------------------------------------------------------------
(* Entries at positions.  A set of numbers that holds 0 and with each      *)
(* number the next one holds them all: induction over a history.           *)

LEMMA NatSetInduction ==
  ASSUME NEW S, 0 \in S, \A n \in Nat : n \in S => n + 1 \in S
  PROVE  Nat \subseteq S
<1> DEFINE T    == {n \in Nat : n \notin S}
           Less == {ss \in Nat \X Nat : ss[1] < ss[2]}
<1>1. SUFFICES ASSUME T # {} PROVE FALSE
  OBVIOUS
<1>2. IsWellFoundedOn(Less, Nat)
  BY NatLessThanWellFounded DEF OpToRel
<1>3. PICK x \in T : \A y \in T : ~(<<y, x>> \in Less)
  <2>1. T \subseteq Nat OBVIOUS
  <2> HIDE DEF T, Less
  <2> QED BY <1>1, <1>2, <2>1, WFMin
<1>4. x # 0 OBVIOUS
<1>5. x - 1 \in Nat /\ x - 1 < x BY <1>4
<1>6. x - 1 \notin T BY <1>3, <1>5
<1> QED BY <1>5, <1>6

UpTo(entries, positions, f, n) ==
    f = [i \in 0..n |-> IF i = 0 THEN <<>>
                        ELSE IF i \in positions THEN Append(f[i - 1], entries[i])
                        ELSE f[i - 1]]

LEMMA UpToExists ==
  ASSUME NEW entries, NEW positions, Len(entries) \in Nat
  PROVE  \E f : /\ UpTo(entries, positions, f, Len(entries))
               /\ entriesAt(entries, positions) = f[Len(entries)]
<1> DEFINE L == Len(entries)
           S == {n \in Nat : \E f : UpTo(entries, positions, f, n)}
<1>1. Nat \subseteq S
  <2>1. 0 \in S
    <3>1. UpTo(entries, positions, [i \in 0..0 |-> <<>>], 0) BY DEF UpTo
    <3> QED BY <3>1
  <2>2. ASSUME NEW n \in Nat, n \in S PROVE n + 1 \in S
    <3>1. PICK f : UpTo(entries, positions, f, n) BY <2>2
    <3>2. f = [i \in 0..n |-> IF i = 0 THEN <<>>
                              ELSE IF i \in positions THEN Append(f[i - 1], entries[i])
                              ELSE f[i - 1]]
      BY <3>1 DEF UpTo
    <3> DEFINE last == IF n + 1 \in positions THEN Append(f[n], entries[n + 1]) ELSE f[n]
               g == [i \in 0..(n + 1) |-> IF i = n + 1 THEN last ELSE f[i]]
    <3>3. \A i \in 0..(n + 1) : g[i] = IF i = 0 THEN <<>>
                                      ELSE IF i \in positions THEN Append(g[i - 1], entries[i])
                                      ELSE g[i - 1]
      <4> TAKE i \in 0..(n + 1)
      <4>1. CASE i = n + 1
        <5>1. g[i] = last /\ g[i - 1] = f[n] BY <4>1
        <5>2. i # 0 BY <4>1
        <5> HIDE DEF g
        <5> QED BY <4>1, <5>1, <5>2
      <4>2. CASE i # n + 1
        <5>1. i \in 0..n BY <4>2
        <5>2. g[i] = f[i] /\ (i # 0 => g[i - 1] = f[i - 1]) BY <5>1
        <5>3. f[i] = IF i = 0 THEN <<>>
                     ELSE IF i \in positions THEN Append(f[i - 1], entries[i])
                     ELSE f[i - 1]
          BY <3>2, <5>1
        <5> HIDE DEF g
        <5> QED BY <5>2, <5>3
      <4> QED BY <4>1, <4>2
    <3>4. g = [i \in 0..(n + 1) |-> g[i]] OBVIOUS
    <3> HIDE DEF g
    <3>5. UpTo(entries, positions, g, n + 1) BY <3>3, <3>4 DEF UpTo
    <3> QED BY <3>5
  <2> HIDE DEF S
  <2> QED BY <2>1, <2>2, NatSetInduction
<1>2. \E f : UpTo(entries, positions, f, L) BY <1>1
<1> DEFINE upTo == CHOOSE f : UpTo(entries, positions, f, L)
<1>3. UpTo(entries, positions, upTo, L) BY <1>2
<1>4. entriesAt(entries, positions) = upTo[L]
  BY DEF entriesAt, UpTo
<1> QED BY <1>3, <1>4

LEMMA UpToAt ==
  ASSUME NEW entries, NEW positions, NEW f, NEW n \in Nat, UpTo(entries, positions, f, n)
  PROVE  /\ f[0] = <<>>
         /\ \A i \in 1..n : f[i] = IF i \in positions THEN Append(f[i - 1], entries[i])
                                  ELSE f[i - 1]
<1>1. \A i \in 0..n : f[i] = IF i = 0 THEN <<>>
                            ELSE IF i \in positions THEN Append(f[i - 1], entries[i])
                            ELSE f[i - 1]
  BY Zenon DEF UpTo
<1>2. 0 \in 0..n OBVIOUS
<1>3. f[0] = <<>> BY <1>1, <1>2
<1>4. \A i \in 1..n : i \in 0..n /\ i # 0 OBVIOUS
<1> QED BY <1>1, <1>3, <1>4, Zenon

(* What is drawn up to a position: some of the entries before it, in their *)
(* order, and nothing drawn earlier is changed.                            *)
Drawn(S, entries, positions, f, n) ==
    /\ f[n] \in Seq(S) /\ Len(f[n]) <= n
    /\ \A j \in 1..Len(f[n]) : \E i \in positions : i \in 1..n /\ f[n][j] = entries[i]
    /\ \A m \in 0..n : /\ Len(f[m]) <= Len(f[n])
                       /\ \A j \in 1..Len(f[m]) : f[n][j] = f[m][j]

LEMMA AppendOne ==
  ASSUME NEW S, NEW s \in Seq(S), NEW x \in S
  PROVE  /\ Append(s, x) \in Seq(S) /\ Len(s) \in Nat /\ Len(Append(s, x)) = Len(s) + 1
         /\ Append(s, x)[Len(s) + 1] = x
         /\ \A j \in 1..Len(s) : Append(s, x)[j] = s[j]
OBVIOUS

LEMMA DrawnUpTo ==
  ASSUME NEW S, NEW entries \in Seq(S), NEW positions, NEW f,
         UpTo(entries, positions, f, Len(entries))
  PROVE  \A n \in 0..Len(entries) : Drawn(S, entries, positions, f, n)
<1> DEFINE L == Len(entries)
           T == {n \in Nat : n <= L => Drawn(S, entries, positions, f, n)}
<1>0. L \in Nat OBVIOUS
<1>1. 0 \in T
  <2>1. f[0] = <<>> BY UpToAt, <1>0
  <2>2. f[0] \in Seq(S) /\ Len(f[0]) = 0 BY <2>1
  <2>3. Drawn(S, entries, positions, f, 0) BY <2>2 DEF Drawn
  <2> QED BY <2>3
<1>2. ASSUME NEW n \in Nat, n \in T PROVE n + 1 \in T
  <2> SUFFICES ASSUME n + 1 <= L PROVE Drawn(S, entries, positions, f, n + 1) OBVIOUS
  <2>1. Drawn(S, entries, positions, f, n) BY <1>2, <1>0
  <2>2. f[n] \in Seq(S) /\ Len(f[n]) \in Nat /\ Len(f[n]) <= n BY <2>1 DEF Drawn
  <2>3. f[n + 1] = IF n + 1 \in positions THEN Append(f[n], entries[n + 1]) ELSE f[n]
    <3>1. n + 1 \in 1..L /\ (n + 1) - 1 = n BY <1>0
    <3> QED BY <3>1, UpToAt, <1>0
  <2>4. CASE n + 1 \notin positions
    <3>1. f[n + 1] = f[n] BY <2>3, <2>4
    <3>2. \A m \in 0..(n + 1) : m \in 0..n \/ m = n + 1 OBVIOUS
    <3>3. \A i \in 1..n : i \in 1..(n + 1) OBVIOUS
    <3> QED BY <2>1, <2>2, <3>1, <3>2, <3>3 DEF Drawn
  <2>5. CASE n + 1 \in positions
    <3> DEFINE s == f[n]
               x == entries[n + 1]
               t == f[n + 1]
    <3>1. x \in S BY <1>0
    <3>2. t = Append(s, x) BY <2>3, <2>5
    <3> HIDE DEF x
    <3>3. /\ t \in Seq(S) /\ Len(s) \in Nat /\ Len(t) = Len(s) + 1 /\ t[Len(s) + 1] = x
          /\ \A j \in 1..Len(s) : t[j] = s[j]
      BY <2>2, <3>1, <3>2, AppendOne
    <3>4. Len(t) <= n + 1 BY <2>2, <3>3
    <3>5. \A j \in 1..Len(t) : \E i \in positions : i \in 1..(n + 1) /\ t[j] = entries[i]
      <4> TAKE j \in 1..Len(t)
      <4>1. CASE j = Len(s) + 1
        <5>1. t[j] = entries[n + 1] BY <3>3, <4>1 DEF x
        <5>2. n + 1 \in 1..(n + 1) OBVIOUS
        <5> QED BY <2>5, <5>1, <5>2
      <4>2. CASE j \in 1..Len(s)
        <5>1. t[j] = s[j] BY <3>3, <4>2
        <5>2. PICK i \in positions : i \in 1..n /\ s[j] = entries[i] BY <2>1, <4>2 DEF Drawn
        <5>3. i \in 1..(n + 1) BY <5>2
        <5> QED BY <5>1, <5>2, <5>3
      <4> QED BY <3>3, <4>1, <4>2
    <3>6. \A m \in 0..(n + 1) : Len(f[m]) <= Len(t) /\ \A j \in 1..Len(f[m]) : t[j] = f[m][j]
      <4> TAKE m \in 0..(n + 1)
      <4>1. CASE m = n + 1 BY <3>3, <4>1
      <4>2. CASE m \in 0..n
        <5>1. Len(f[m]) <= Len(s) /\ \A j \in 1..Len(f[m]) : s[j] = f[m][j] BY <2>1, <4>2 DEF Drawn
        <5>2. \A j \in 1..Len(f[m]) : j \in 1..Len(s) BY <5>1, <3>3
        <5>3. \A j \in 1..Len(f[m]) : t[j] = f[m][j] BY <5>1, <5>2, <3>3
        <5> QED BY <5>1, <5>3, <3>3
      <4> QED BY <4>1, <4>2
    <3> QED BY <3>3, <3>4, <3>5, <3>6 DEF Drawn
  <2> QED BY <2>4, <2>5
<1> HIDE DEF T
<1>3. Nat \subseteq T BY <1>1, <1>2, NatSetInduction
<1>4. \A n \in 0..L : n \in T BY <1>3, <1>0
<1> QED BY <1>4 DEF T

LEMMA EntriesAtFacts ==
  ASSUME NEW S, NEW entries \in Seq(S), NEW positions
  PROVE  LET r == entriesAt(entries, positions)
         IN  /\ r \in Seq(S)
             /\ \A j \in 1..Len(r) : \E i \in positions : i \in 1..Len(entries) /\ r[j] = entries[i]
             /\ \A i \in positions : i \in 1..Len(entries) =>
                    \E j \in 1..Len(r) : r[j] = entries[i]
<1> DEFINE r == entriesAt(entries, positions)
           L == Len(entries)
<1>0. L \in Nat OBVIOUS
<1>1. PICK f : UpTo(entries, positions, f, L) /\ r = f[L]
  BY <1>0, UpToExists
<1>2. \A n \in 0..L : Drawn(S, entries, positions, f, n)
  BY <1>1, DrawnUpTo
<1>3. Drawn(S, entries, positions, f, L)
  BY <1>0, <1>2
<1> HIDE DEF r, L
<1>4. r \in Seq(S) /\ \A j \in 1..Len(r) : \E i \in positions : i \in 1..L /\ r[j] = entries[i]
  BY <1>1, <1>3, Zenon DEF Drawn
<1>5. ASSUME NEW i \in positions, i \in 1..L PROVE \E j \in 1..Len(r) : r[j] = entries[i]
  <2>1. f[i] = Append(f[i - 1], entries[i])
    BY <1>0, <1>1, <1>5, UpToAt
  <2>2. i - 1 \in 0..L /\ i \in 0..L
    BY <1>0, <1>5
  <2>3. f[i - 1] \in Seq(S) /\ f[i] \in Seq(S)
    BY <1>2, <2>2 DEF Drawn
  <2>4. entries[i] \in S
    BY <1>5 DEF L
  <2>5. /\ Len(f[i - 1]) \in Nat /\ Len(f[i]) = Len(f[i - 1]) + 1
        /\ f[i][Len(f[i - 1]) + 1] = entries[i]
    BY <2>1, <2>3, <2>4, AppendOne
  <2> DEFINE j == Len(f[i - 1]) + 1
  <2>6. j \in 1..Len(f[i]) /\ f[i][j] = entries[i]
    BY <2>5
  <2>7. Len(f[i]) <= Len(r) /\ r[j] = f[i][j]
    <3>1. \A m \in 0..L : Len(f[m]) <= Len(r) /\ \A k \in 1..Len(f[m]) : r[k] = f[m][k]
      BY <1>1, <1>3, Zenon DEF Drawn
    <3> HIDE DEF j
    <3> QED BY <2>2, <2>6, <3>1
  <2>8. Len(r) \in Nat BY <1>4
  <2>9. j \in 1..Len(r) BY <2>5, <2>7, <2>8
  <2> QED BY <2>6, <2>7, <2>9
<1> QED BY <1>4, <1>5 DEF r, L

(* The entries up to a position are the beginning of the history.          *)
LEMMA EntriesAtInitial ==
  ASSUME NEW S, NEW entries \in Seq(S), NEW positions, NEW k \in 0..Len(entries),
         \A i \in 1..Len(entries) : i \in positions <=> i <= k
  PROVE  LET r == entriesAt(entries, positions)
         IN  Len(r) = k /\ \A j \in 1..k : r[j] = entries[j]
<1> DEFINE r == entriesAt(entries, positions)
           L == Len(entries)
<1>0. L \in Nat /\ k \in Nat /\ k <= L OBVIOUS
<1>1. PICK f : UpTo(entries, positions, f, L) /\ r = f[L]
  BY <1>0, UpToExists
<1>2. \A n \in 0..L : f[n] \in Seq(S)
  BY <1>1, DrawnUpTo DEF Drawn
<1>a. /\ f[0] = <<>>
      /\ \A i \in 1..L : f[i] = IF i \in positions THEN Append(f[i - 1], entries[i]) ELSE f[i - 1]
  BY <1>0, <1>1, UpToAt
<1> DEFINE T == {n \in Nat : n <= k => Len(f[n]) = n /\ \A j \in 1..n : f[n][j] = entries[j]}
           U == {n \in Nat : k + n <= L => f[k + n] = f[k]}
<1>3. 0 \in T BY <1>a
<1>4. ASSUME NEW n \in Nat, n \in T PROVE n + 1 \in T
  <2> SUFFICES ASSUME n + 1 <= k
               PROVE  Len(f[n + 1]) = n + 1 /\ \A j \in 1..(n + 1) : f[n + 1][j] = entries[j]
    OBVIOUS
  <2>1. n + 1 \in 1..L /\ n + 1 \in positions /\ (n + 1) - 1 = n /\ n \in 0..L
    BY <1>0
  <2>2. f[n + 1] = Append(f[n], entries[n + 1])
    BY <1>a, <2>1
  <2>3. Len(f[n]) = n /\ \A j \in 1..n : f[n][j] = entries[j]
    BY <1>4, <1>0
  <2>4. f[n] \in Seq(S) /\ entries[n + 1] \in S
    BY <1>2, <2>1
  <2>5. /\ Len(f[n + 1]) = n + 1 /\ f[n + 1][n + 1] = entries[n + 1]
        /\ \A j \in 1..n : f[n + 1][j] = f[n][j]
    BY <2>2, <2>3, <2>4, AppendOne
  <2>6. \A j \in 1..(n + 1) : j = n + 1 \/ j \in 1..n OBVIOUS
  <2> QED BY <2>3, <2>5, <2>6
<1> HIDE DEF T
<1>5. Nat \subseteq T BY <1>3, <1>4, NatSetInduction
<1>6. 0 \in U BY <1>0
<1>7. ASSUME NEW n \in Nat, n \in U PROVE n + 1 \in U
  <2> SUFFICES ASSUME k + (n + 1) <= L PROVE f[k + (n + 1)] = f[k] OBVIOUS
  <2>1. k + (n + 1) \in 1..L /\ k + (n + 1) \notin positions /\ (k + (n + 1)) - 1 = k + n
    BY <1>0
  <2>2. f[k + n] = f[k] BY <1>7, <1>0
  <2> QED BY <1>a, <2>1, <2>2
<1> HIDE DEF U
<1>8. Nat \subseteq U BY <1>6, <1>7, NatSetInduction
<1>9. f[L] = f[k]
  <2>1. L - k \in Nat /\ k + (L - k) = L BY <1>0
  <2>2. L - k \in U BY <1>8, <2>1
  <2> QED BY <1>0, <2>1, <2>2 DEF U
<1>10. Len(f[k]) = k /\ \A j \in 1..k : f[k][j] = entries[j]
  BY <1>0, <1>5 DEF T
<1> QED BY <1>1, <1>9, <1>10
-----------------------------------------------------------------------------
(* The inductive invariant                                                 *)

EndKinds == {"done", "failed", "canceled"}
LiveStatus == {"running", "waiting_tool", "idle"}
Idle == {"none", "starting", "ending"}

IsEntry(e) ==
    /\ e = [kind |-> e.kind, turn |-> e.turn, request |-> e.request, call |-> e.call,
            covers |-> e.covers, policy |-> e.policy, seq |-> e.seq]
    /\ e.kind \in EntryKinds /\ e.turn \in 1..MaxTurn
    /\ e.request \in Nat /\ e.seq \in Nat
    /\ e.kind = "call" => e.call.turn = e.turn

Entries(c) ==
    /\ c \in Seq({c[i] : i \in DOMAIN c})
    /\ \A i \in DOMAIN c : IsEntry(c[i])

\* Numbers rise, and a later entry is of the same turn or of a later one.
InOrder(c) ==
    /\ \A i \in DOMAIN c : c[i].seq >= i
    /\ \A i, j \in DOMAIN c : i < j => c[i].seq < c[j].seq /\ c[i].turn <= c[j].turn

\* Where a turn's message stands there are two more entries of the turn: the
\* request of the run, and its prompt or the summary that took its place.
RunsWhole(c) ==
    \A i \in DOMAIN c : c[i].kind = "user" =>
        \E p, q \in DOMAIN c : /\ c[p].turn = c[i].turn /\ c[p].kind = "run"
                               /\ c[q].turn = c[i].turn /\ c[q].kind \notin {"user", "run"}

IsHistory(c) == Entries(c) /\ InOrder(c) /\ RunsWhole(c)

Ends(c) == {i \in DOMAIN c : c[i].turn = Last(c).turn /\ c[i].kind \in EndKinds}
EndFits(c, o) ==
    /\ o \in EndKinds \cup {"open"}
    /\ o = "open" => Ends(c) = {}
    /\ o # "open" => \E i \in Ends(c) : c[i].kind = o /\ \A j \in Ends(c) : j <= i

\* The status of the last turn comes from its entries, whatever it was before.
Active(c) ==
    \E i \in DOMAIN c : /\ c[i].turn = Last(c).turn
                        /\ c[i].kind \in {"user", "prompt", "run", "text", "result"}

Names(s, c) == s.turn = Last(c).turn /\ s.request = Last(c).request

IsRecord(s) ==
    s = [version |-> s.version, nextSeq |-> s.nextSeq, nextTurn |-> s.nextTurn,
         turn |-> s.turn, request |-> s.request, status |-> s.status]
IsState(s) ==
    /\ IsRecord(s)
    /\ s.version \in Nat /\ s.nextSeq \in Nat /\ s.nextTurn \in Nat
    /\ s.turn \in Nat /\ s.request \in Nat

HistoryInv ==
    /\ IsHistory(context)
    /\ paired \in BOOLEAN
    /\ state # NoState => IsState(state) /\ state.nextSeq > state.version
    /\ saving # NoState => IsState(saving) /\ saving.nextSeq > saving.version
    /\ outcome = "none" <=> state = NoState /\ saving = NoState
    /\ outcome # "none" => context # <<>> /\ EndFits(context, outcome)

IsActor(a) ==
    /\ DOMAIN a = {"pc", "turn", "request", "manual", "pass", "text", "called", "plan"}
    /\ a.pc \in Idle \cup {"ready", "streaming", "waiting", "hook", "summarizing",
                           "compacted", "closing", "failing"}
    /\ a.turn \in 0..MaxTurn /\ a.request \in Nat

ActorInv ==
    /\ IsActor(actor)
    /\ actor.pc # "none" =>
          outcome # "none" /\ (saving = NoState => paired /\ state # NoState)
    /\ actor.pc \notin Idle => outcome = "open" /\ Names(actor, context)
    /\ actor.pc \in {"hook", "summarizing"} => actor.plan.turn = actor.turn

BoundsInv ==
    /\ accepted \subseteq 1..MaxTurn
    /\ used \in [DOMAIN Bounds -> Nat] /\ \A b \in DOMAIN Bounds : used[b] <= Bounds[b]

(* What a reload finds rests on more: which request a state file names.    *)
StatusOf(o) == IF o = "open" THEN LiveStatus ELSE {o}

Fits(s, c, o) ==
    /\ s.version = Last(c).seq
    /\ Names(s, c)
    /\ s.status \in StatusOf(o)

\* A state file that is taken for the context's own either names a request the
\* context does not know, or the one that wrote last.
Credible(s, c, o) ==
    s.version = Last(c).seq =>
        /\ HasRequestEntry(c, s.turn, s.request) => Names(s, c)
        /\ o = "open" => s.status \in LiveStatus \/ Active(c)

StateInv ==
    /\ saving # NoState => Fits(saving, context, outcome)
    /\ state # NoState => Credible(state, context, outcome)
    /\ paired /\ state # NoState => Fits(state, context, outcome)

-----------------------------------------------------------------------------
(* Entries as they are written                                             *)

LEMMA SequenceOf ==
  ASSUME NEW n \in Nat, NEW d, d = [i \in 1..n |-> d[i]]
  PROVE  /\ d \in Seq({d[i] : i \in DOMAIN d})
         /\ Len(d) = n /\ DOMAIN d = 1..n
<1> DEFINE S == {d[i] : i \in 1..n}
<1>1. d \in [1..n -> S] OBVIOUS
<1> HIDE DEF S
<1>2. d \in Seq(S) BY <1>1
<1>3. DOMAIN d = 1..n BY <1>1
<1> QED BY <1>2, <1>3 DEF S

LEMMA EntriesAre ==
  ASSUME NEW c, Entries(c)
  PROVE  /\ Len(c) \in Nat /\ DOMAIN c = 1..Len(c)
         /\ c = [i \in 1..Len(c) |-> c[i]]
         /\ \A i \in 1..Len(c) : IsEntry(c[i])
         /\ c # <<>> <=> Len(c) > 0
         /\ Len(c) > 0 => Last(c) = c[Len(c)]
<1> DEFINE S == {c[i] : i \in DOMAIN c}
<1>1. c \in Seq(S) BY DEF Entries
<1> HIDE DEF S
<1>2. /\ Len(c) \in Nat /\ DOMAIN c = 1..Len(c) /\ c = [i \in 1..Len(c) |-> c[i]]
      /\ c # <<>> <=> Len(c) > 0
  BY <1>1
<1>3. Len(c) > 0 => Last(c) = c[Len(c)] BY DEF Last
<1> QED BY <1>2, <1>3 DEF Entries

LEMMA EntryRenumbered ==
  ASSUME NEW e, IsEntry(e), NEW n \in Nat
  PROVE  LET f == [e EXCEPT !.seq = n]
         IN  /\ IsEntry(f) /\ f.seq = n
             /\ f.kind = e.kind /\ f.turn = e.turn /\ f.request = e.request
<1>1. e = [kind |-> e.kind, turn |-> e.turn, request |-> e.request, call |-> e.call,
           covers |-> e.covers, policy |-> e.policy, seq |-> e.seq]
  BY DEF IsEntry
<1> DEFINE f == [kind |-> e.kind, turn |-> e.turn, request |-> e.request, call |-> e.call,
                 covers |-> e.covers, policy |-> e.policy, seq |-> n]
<1>2. [e EXCEPT !.seq = n] = f
  <2> DEFINE a == e.kind
             b == e.turn
             q == e.request
             h == e.call
             v == e.covers
             p == e.policy
             m == e.seq
  <2>1. e = [kind |-> a, turn |-> b, request |-> q, call |-> h,
             covers |-> v, policy |-> p, seq |-> m]
    BY <1>1
  <2> HIDE DEF a, b, q, h, v, p, m
  <2>2. [e EXCEPT !.seq = n] = [kind |-> a, turn |-> b, request |-> q, call |-> h,
                                covers |-> v, policy |-> p, seq |-> n]
    BY <2>1
  <2> QED BY <2>2 DEF a, b, q, h, v, p, m
<1>3. IsEntry(f) BY DEF IsEntry
<1> QED BY <1>2, <1>3

LEMMA EntryBy ==
  ASSUME NEW e, IsEntry(e), NEW r \in Nat
  PROVE  LET f == [e EXCEPT !.request = r]
         IN  /\ IsEntry(f) /\ f.request = r
             /\ f.kind = e.kind /\ f.turn = e.turn
<1>1. e = [kind |-> e.kind, turn |-> e.turn, request |-> e.request, call |-> e.call,
           covers |-> e.covers, policy |-> e.policy, seq |-> e.seq]
  BY DEF IsEntry
<1> DEFINE f == [kind |-> e.kind, turn |-> e.turn, request |-> r, call |-> e.call,
                 covers |-> e.covers, policy |-> e.policy, seq |-> e.seq]
<1>2. [e EXCEPT !.request = r] = f
  <2> DEFINE a == e.kind
             b == e.turn
             q == e.request
             h == e.call
             v == e.covers
             p == e.policy
             m == e.seq
  <2>1. e = [kind |-> a, turn |-> b, request |-> q, call |-> h,
             covers |-> v, policy |-> p, seq |-> m]
    BY <1>1
  <2> HIDE DEF a, b, q, h, v, p, m
  <2>2. [e EXCEPT !.request = r] = [kind |-> a, turn |-> b, request |-> r, call |-> h,
                                    covers |-> v, policy |-> p, seq |-> m]
    BY <2>1
  <2> QED BY <2>2 DEF a, b, q, h, v, p, m
<1>3. IsEntry(f) BY DEF IsEntry
<1> QED BY <1>2, <1>3

LEMMA NumberedAre ==
  ASSUME NEW c, Entries(c), NEW n \in Nat \ {0}
  PROVE  LET d == numbered(c, n)
         IN  /\ Entries(d) /\ Len(d) = Len(c)
             /\ \A i \in 1..Len(c) :
                    /\ d[i].seq = n + i - 1
                    /\ d[i].kind = c[i].kind /\ d[i].turn = c[i].turn
                    /\ d[i].request = c[i].request
<1> DEFINE d == numbered(c, n)
           L == Len(c)
<1>1. L \in Nat /\ DOMAIN c = 1..L /\ \A i \in 1..L : IsEntry(c[i])
  BY EntriesAre
<1>2. d = [i \in 1..L |-> [c[i] EXCEPT !.seq = n + i - 1]]
  BY <1>1 DEF numbered
<1> HIDE DEF d, L
<1>3. \A i \in 1..L : d[i] = [c[i] EXCEPT !.seq = n + i - 1]
  BY <1>2
<1>4. d = [i \in 1..L |-> d[i]]
  BY <1>2
<1>5. d \in Seq({d[i] : i \in DOMAIN d}) /\ Len(d) = L /\ DOMAIN d = 1..L
  BY <1>1, <1>4, SequenceOf
<1>6. \A i \in 1..L : /\ IsEntry(d[i]) /\ d[i].seq = n + i - 1
                      /\ d[i].kind = c[i].kind /\ d[i].turn = c[i].turn
                      /\ d[i].request = c[i].request
  <2> TAKE i \in 1..L
  <2>1. n + i - 1 \in Nat BY <1>1
  <2> DEFINE x == c[i]
             m == n + i - 1
             y == d[i]
  <2>2. IsEntry(x) BY <1>1
  <2>3. y = [x EXCEPT !.seq = m] BY <1>3
  <2> HIDE DEF x, m, y
  <2>4. /\ IsEntry(y) /\ y.seq = m /\ y.kind = x.kind /\ y.turn = x.turn
        /\ y.request = x.request
    BY <2>1, <2>2, <2>3, EntryRenumbered DEF m
  <2> QED BY <2>4 DEF x, m, y
<1> QED BY <1>5, <1>6 DEF Entries, d, L

LEMMA ByAre ==
  ASSUME NEW c, Entries(c), NEW r \in Nat
  PROVE  LET d == By(r, c)
         IN  /\ Entries(d) /\ Len(d) = Len(c)
             /\ \A i \in 1..Len(c) : /\ d[i].kind = c[i].kind /\ d[i].turn = c[i].turn
                                     /\ d[i].request = r
<1> DEFINE d == By(r, c)
           L == Len(c)
<1>1. L \in Nat /\ DOMAIN c = 1..L /\ \A i \in 1..L : IsEntry(c[i])
  BY EntriesAre
<1>2. d = [i \in 1..L |-> [c[i] EXCEPT !.request = r]]
  BY <1>1 DEF By
<1> HIDE DEF d, L
<1>3. \A i \in 1..L : d[i] = [c[i] EXCEPT !.request = r]
  BY <1>2
<1>4. d = [i \in 1..L |-> d[i]]
  BY <1>2
<1>5. d \in Seq({d[i] : i \in DOMAIN d}) /\ Len(d) = L /\ DOMAIN d = 1..L
  BY <1>1, <1>4, SequenceOf
<1>6. \A i \in 1..L : /\ IsEntry(d[i]) /\ d[i].request = r
                      /\ d[i].kind = c[i].kind /\ d[i].turn = c[i].turn
  <2> TAKE i \in 1..L
  <2> DEFINE x == c[i]
             y == d[i]
  <2>2. IsEntry(x) BY <1>1
  <2>3. y = [x EXCEPT !.request = r] BY <1>3
  <2> HIDE DEF x, y
  <2>4. IsEntry(y) /\ y.request = r /\ y.kind = x.kind /\ y.turn = x.turn
    BY <2>2, <2>3, EntryBy
  <2> QED BY <2>4 DEF x, y
<1> QED BY <1>5, <1>6 DEF Entries, d, L

LEMMA ConcatAre ==
  ASSUME NEW c, NEW d, Entries(c), Entries(d)
  PROVE  /\ Entries(c \o d) /\ Len(c \o d) = Len(c) + Len(d)
         /\ \A i \in 1..Len(c) : (c \o d)[i] = c[i]
         /\ \A i \in 1..Len(d) : (c \o d)[Len(c) + i] = d[i]
<1> DEFINE e == c \o d
           S == {c[i] : i \in DOMAIN c} \cup {d[i] : i \in DOMAIN d}
<1>1. c \in Seq(S) /\ d \in Seq(S)
  <2>1. c \in Seq({c[i] : i \in DOMAIN c}) /\ d \in Seq({d[i] : i \in DOMAIN d})
    BY DEF Entries
  <2>2. {c[i] : i \in DOMAIN c} \subseteq S /\ {d[i] : i \in DOMAIN d} \subseteq S OBVIOUS
  <2> HIDE DEF S
  <2> QED BY <2>1, <2>2
<1> HIDE DEF S
<1>2. /\ e \in Seq(S) /\ Len(e) = Len(c) + Len(d) /\ Len(c) \in Nat /\ Len(d) \in Nat
      /\ \A i \in 1..Len(c) : e[i] = c[i]
      /\ \A i \in 1..Len(d) : e[Len(c) + i] = d[i]
  BY <1>1
<1> HIDE DEF e
<1>3. Len(e) \in Nat /\ e = [i \in 1..Len(e) |-> e[i]] BY <1>2
<1>4. e \in Seq({e[i] : i \in DOMAIN e}) /\ DOMAIN e = 1..Len(e)
  BY <1>3, SequenceOf
<1>5. \A i \in 1..Len(e) : IsEntry(e[i])
  <2> TAKE i \in 1..Len(e)
  <2>1. CASE i \in 1..Len(c) BY <1>2, <2>1, EntriesAre
  <2>2. CASE i \notin 1..Len(c)
    <3>1. i - Len(c) \in 1..Len(d) /\ Len(c) + (i - Len(c)) = i BY <1>2, <2>2
    <3>2. e[i] = d[i - Len(c)] BY <1>2, <3>1
    <3> QED BY <3>1, <3>2, EntriesAre
  <2> QED BY <2>1, <2>2
<1> QED BY <1>2, <1>4, <1>5 DEF Entries, e

(* A state with some fields replaced, written out.                         *)
WithNumbers(s, n, m) == [s EXCEPT !.nextSeq = n, !.nextTurn = m]
WithRequest(s, v, turn, request, status) ==
    [s EXCEPT !.version = v, !.turn = turn, !.request = request, !.status = status]
WithRun(s, n, turn, request) ==
    [s EXCEPT !.nextSeq = n, !.turn = turn, !.request = request, !.status = "running"]

WithoutRequest(s) == [s EXCEPT !.turn = 0, !.request = 0, !.status = "idle"]
WithCurrent(s, turn, request) ==
    [s EXCEPT !.turn = turn, !.request = request, !.status = "running"]
WithSeq(s, n) == [s EXCEPT !.nextSeq = n]

LEMMA StateNumbered ==
  ASSUME NEW s, IsRecord(s), NEW n, NEW m
  PROVE  WithNumbers(s, n, m)
            = [version |-> s.version, nextSeq |-> n, nextTurn |-> m, turn |-> s.turn,
               request |-> s.request, status |-> s.status]
<1> DEFINE fields == {"version", "nextSeq", "nextTurn", "turn", "request", "status"}
           g == [i \in fields |-> IF i = "nextSeq" THEN n ELSE IF i = "nextTurn" THEN m ELSE s[i]]
<1>1. [s EXCEPT !.nextSeq = n, !.nextTurn = m] = g
  BY DEF IsRecord
<1>2. [version |-> s.version, nextSeq |-> n, nextTurn |-> m, turn |-> s.turn,
       request |-> s.request, status |-> s.status] = g
  BY DEF IsRecord
<1> QED BY <1>1, <1>2 DEF WithNumbers

LEMMA StateDerived ==
  ASSUME NEW s, IsRecord(s), NEW v, NEW turn, NEW request, NEW status
  PROVE  WithRequest(s, v, turn, request, status)
            = [version |-> v, nextSeq |-> s.nextSeq, nextTurn |-> s.nextTurn, turn |-> turn,
               request |-> request, status |-> status]
<1> DEFINE fields == {"version", "nextSeq", "nextTurn", "turn", "request", "status"}
           g == [i \in fields |-> IF i = "version" THEN v ELSE IF i = "turn" THEN turn
                                  ELSE IF i = "request" THEN request
                                  ELSE IF i = "status" THEN status ELSE s[i]]
<1>1. [s EXCEPT !.version = v, !.turn = turn, !.request = request, !.status = status] = g
  BY DEF IsRecord
<1>2. [version |-> v, nextSeq |-> s.nextSeq, nextTurn |-> s.nextTurn, turn |-> turn,
       request |-> request, status |-> status] = g
  BY DEF IsRecord
<1> QED BY <1>1, <1>2 DEF WithRequest

LEMMA StateRun ==
  ASSUME NEW s, IsRecord(s), NEW n, NEW turn, NEW request
  PROVE  WithRun(s, n, turn, request)
            = [version |-> s.version, nextSeq |-> n, nextTurn |-> s.nextTurn, turn |-> turn,
               request |-> request, status |-> "running"]
<1> DEFINE fields == {"version", "nextSeq", "nextTurn", "turn", "request", "status"}
           g == [i \in fields |-> IF i = "nextSeq" THEN n ELSE IF i = "turn" THEN turn
                                  ELSE IF i = "request" THEN request
                                  ELSE IF i = "status" THEN "running" ELSE s[i]]
<1>1. [s EXCEPT !.nextSeq = n, !.turn = turn, !.request = request, !.status = "running"] = g
  BY DEF IsRecord
<1>2. [version |-> s.version, nextSeq |-> n, nextTurn |-> s.nextTurn, turn |-> turn,
       request |-> request, status |-> "running"] = g
  BY DEF IsRecord
<1> QED BY <1>1, <1>2 DEF WithRun

LEMMA StateStale ==
  ASSUME NEW s, IsRecord(s)
  PROVE  WithoutRequest(s)
            = [version |-> s.version, nextSeq |-> s.nextSeq, nextTurn |-> s.nextTurn,
               turn |-> 0, request |-> 0, status |-> "idle"]
<1> DEFINE fields == {"version", "nextSeq", "nextTurn", "turn", "request", "status"}
           g == [i \in fields |-> IF i = "turn" THEN 0 ELSE IF i = "request" THEN 0
                                  ELSE IF i = "status" THEN "idle" ELSE s[i]]
<1>1. [s EXCEPT !.turn = 0, !.request = 0, !.status = "idle"] = g
  BY DEF IsRecord
<1>2. [version |-> s.version, nextSeq |-> s.nextSeq, nextTurn |-> s.nextTurn,
       turn |-> 0, request |-> 0, status |-> "idle"] = g
  BY DEF IsRecord
<1> QED BY <1>1, <1>2 DEF WithoutRequest

LEMMA StateSeq ==
  ASSUME NEW s, IsRecord(s), NEW n
  PROVE  WithSeq(s, n)
            = [version |-> s.version, nextSeq |-> n, nextTurn |-> s.nextTurn,
               turn |-> s.turn, request |-> s.request, status |-> s.status]
<1> DEFINE fields == {"version", "nextSeq", "nextTurn", "turn", "request", "status"}
           g == [i \in fields |-> IF i = "nextSeq" THEN n ELSE s[i]]
<1>1. [s EXCEPT !.nextSeq = n] = g
  BY DEF IsRecord
<1>2. [version |-> s.version, nextSeq |-> n, nextTurn |-> s.nextTurn,
       turn |-> s.turn, request |-> s.request, status |-> s.status] = g
  BY DEF IsRecord
<1> QED BY <1>1, <1>2 DEF WithSeq

LEMMA StateCurrent ==
  ASSUME NEW s, IsRecord(s), NEW turn, NEW request
  PROVE  WithCurrent(s, turn, request)
            = [version |-> s.version, nextSeq |-> s.nextSeq, nextTurn |-> s.nextTurn,
               turn |-> turn, request |-> request, status |-> "running"]
<1> DEFINE fields == {"version", "nextSeq", "nextTurn", "turn", "request", "status"}
           g == [i \in fields |-> IF i = "turn" THEN turn ELSE IF i = "request" THEN request
                                  ELSE IF i = "status" THEN "running" ELSE s[i]]
<1>1. [s EXCEPT !.turn = turn, !.request = request, !.status = "running"] = g
  BY DEF IsRecord
<1>2. [version |-> s.version, nextSeq |-> s.nextSeq, nextTurn |-> s.nextTurn,
       turn |-> turn, request |-> request, status |-> "running"] = g
  BY DEF IsRecord
<1> QED BY <1>1, <1>2 DEF WithCurrent

-----------------------------------------------------------------------------
(* What is derived from a history                                          *)

LEMMA HighestIs ==
  ASSUME NEW S, NEW n \in S, \A m \in S : m <= n, n \in Nat, \A m \in S : m \in Nat
  PROVE  Highest(S) = n
<1>1. n \in S \cup {0} /\ \A m \in S : m <= n
  OBVIOUS
<1>2. \A k \in S \cup {0} : (\A m \in S : m <= k) => k = n
  <2> TAKE k \in S \cup {0}
  <2> HAVE \A m \in S : m <= k
  <2>1. n <= k OBVIOUS
  <2>2. CASE k \in S
    BY <2>1, <2>2
  <2>3. CASE k = 0
    BY <2>1, <2>3
  <2> QED BY <2>2, <2>3
<1>3. Highest(S) = CHOOSE k \in S \cup {0} : \A m \in S : m <= k
  BY DEF Highest
<1> QED BY <1>1, <1>2, <1>3

LEMMA HigherOf ==
  ASSUME NEW a \in Nat, NEW b \in Nat
  PROVE  Highest({a, b}) \in Nat /\ Highest({a, b}) >= a /\ Highest({a, b}) >= b
<1>1. CASE a <= b
  <2>1. Highest({a, b}) = b
    BY <1>1, HighestIs
  <2> QED BY <1>1, <2>1
<1>2. CASE b <= a
  <2>1. Highest({a, b}) = a
    BY <1>2, HighestIs
  <2> QED BY <1>2, <2>1
<1> QED BY <1>1, <1>2

LEMMA LastIsHighest ==
  ASSUME NEW c, Entries(c), InOrder(c), Len(c) > 0
  PROVE  /\ contextVersionForEntries(c) = Last(c).seq
         /\ maxHistoryTurnSeq(c) = Last(c).turn
         /\ Last(c).seq \in Nat /\ Last(c).seq >= Len(c)
         /\ Last(c).turn \in 1..MaxTurn /\ Last(c).request \in Nat
         /\ \A i \in 1..Len(c) : c[i].seq <= Last(c).seq /\ c[i].turn <= Last(c).turn
<1> DEFINE L == Len(c)
<1>1. /\ L \in Nat /\ DOMAIN c = 1..L /\ L \in 1..L /\ Last(c) = c[L]
      /\ \A i \in 1..L : IsEntry(c[i])
  BY EntriesAre
<1>2. \A i \in 1..L : c[i].seq \in Nat /\ c[i].turn \in 1..MaxTurn /\ c[i].request \in Nat
  BY <1>1 DEF IsEntry
<1>3. MaxTurn \in Nat BY ConversationStoreAssumption
<1>4. \A i \in 1..L : c[i].seq <= c[L].seq /\ c[i].turn <= c[L].turn
  <2> TAKE i \in 1..L
  <2>1. CASE i = L BY <1>1, <1>2, <1>3, <2>1
  <2>2. CASE i < L
    <3>1. c[i].seq < c[L].seq /\ c[i].turn <= c[L].turn BY <1>1, <2>2 DEF InOrder
    <3> QED BY <1>1, <1>2, <3>1
  <2> QED BY <1>1, <2>1, <2>2
<1> HIDE DEF L
<1>5. Highest({c[i].seq : i \in 1..L}) = c[L].seq
  <2> DEFINE S == {c[i].seq : i \in 1..L}
             n == c[L].seq
  <2>1. n \in S /\ (\A m \in S : m <= n) /\ n \in Nat /\ \A m \in S : m \in Nat
    BY <1>1, <1>2, <1>4
  <2> HIDE DEF S, n
  <2> QED BY <2>1, HighestIs DEF S, n
<1>6. Highest({c[i].turn : i \in 1..L}) = c[L].turn
  <2> DEFINE S == {c[i].turn : i \in 1..L}
             n == c[L].turn
  <2>1. n \in S /\ (\A m \in S : m <= n) /\ n \in Nat /\ \A m \in S : m \in Nat
    BY <1>1, <1>2, <1>3, <1>4
  <2> HIDE DEF S, n
  <2> QED BY <2>1, HighestIs DEF S, n
<1>7. c[L].seq >= L BY <1>1 DEF InOrder
<1>8. contextVersionForEntries(c) = Last(c).seq /\ maxHistoryTurnSeq(c) = Last(c).turn
  BY <1>1, <1>5, <1>6 DEF contextVersionForEntries, maxHistoryTurnSeq
<1> QED BY <1>1, <1>2, <1>4, <1>7, <1>8 DEF L

(* The status of a request is that of its last turn's end, or a live one.  *)
LEMMA StatusFits ==
  ASSUME NEW c, Entries(c), NEW o, EndFits(c, o), NEW fallback,
         o = "open" => fallback \in LiveStatus \/ Active(c)
  PROVE  deriveRequestLoopStatus(c, Last(c).turn, fallback) \in StatusOf(o)
<1> DEFINE T == Last(c).turn
<1>0. DOMAIN c = 1..Len(c) /\ Len(c) \in Nat BY EntriesAre
<1>1. Ends(c) = {i \in DOMAIN c : c[i].turn = T /\ c[i].kind \in {"done", "failed", "canceled"}}
  BY DEF Ends, EndKinds
<1>2. deriveRequestLoopStatus(c, T, fallback) =
        CASE Ends(c) # {} -> c[Highest(Ends(c))].kind
          [] Ends(c) = {} /\ openCalls(c, T) # {} -> "waiting_tool"
          [] Ends(c) = {} /\ openCalls(c, T) = {}
                /\ KindsOf(c, T) \cap {"user", "prompt", "run", "text", "result"} # {} -> "running"
          [] OTHER -> fallback
  BY <1>1 DEF deriveRequestLoopStatus
<1>3. CASE o # "open"
  <2>1. PICK i \in Ends(c) : c[i].kind = o /\ \A j \in Ends(c) : j <= i
    BY <1>3 DEF EndFits
  <2>2. i \in Nat /\ \A j \in Ends(c) : j \in Nat BY <1>0 DEF Ends
  <2>3. Highest(Ends(c)) = i BY <2>1, <2>2, HighestIs
  <2>4. deriveRequestLoopStatus(c, T, fallback) = o
    BY <1>2, <2>1, <2>3
  <2> QED BY <1>3, <2>4 DEF StatusOf
<1>4. CASE o = "open"
  <2>1. Ends(c) = {} BY <1>4 DEF EndFits
  <2>2. CASE fallback \in LiveStatus
    BY <1>2, <1>4, <2>1, <2>2 DEF StatusOf, LiveStatus
  <2>3. CASE Active(c)
    <3>1. KindsOf(c, T) \cap {"user", "prompt", "run", "text", "result"} # {}
      <4>1. PICK i \in DOMAIN c : /\ c[i].turn = T
                                 /\ c[i].kind \in {"user", "prompt", "run", "text", "result"}
        BY <2>3 DEF Active
      <4>2. c[i].kind \in KindsOf(c, T) BY <4>1 DEF KindsOf
      <4> QED BY <4>1, <4>2
    <3> QED BY <1>2, <1>4, <2>1, <3>1 DEF StatusOf, LiveStatus
  <2> QED BY <1>4, <2>2, <2>3
<1> QED BY <1>3, <1>4

(* A state brought in line with a history.                                 *)
LEMMA Normalized ==
  ASSUME NEW c, Entries(c), InOrder(c), Len(c) > 0, NEW s, IsState(s)
  PROVE  LET l     == normalizeLoadedConversation(s, c)
             known == s.turn # 0 /\ HasRequestEntry(c, s.turn, s.request)
             fallback == IF s.turn = 0 \/ known THEN s.status ELSE "idle"
         IN  /\ l.version = Last(c).seq
             /\ l.nextSeq \in Nat /\ l.nextSeq >= s.nextSeq /\ l.nextSeq > Last(c).seq
             /\ l.nextTurn \in Nat /\ l.nextTurn > Last(c).turn
             /\ known => l.turn = s.turn /\ l.request = s.request
             /\ ~known => Names(l, c)
             /\ l.turn \in Nat /\ l.request \in Nat
             /\ IsRecord(l)
             /\ l.turn = Last(c).turn =>
                    l.status = deriveRequestLoopStatus(c, Last(c).turn, fallback)
<1> DEFINE l == normalizeLoadedConversation(s, c)
           found == HasRequestEntry(c, s.turn, s.request)
           known == s.turn # 0 /\ found
           v == contextVersionForEntries(c)
           t == maxHistoryTurnSeq(c)
           n == Highest({s.nextSeq, v + 1})
           m == Highest({s.nextTurn, t + 1})
           turn == IF known THEN s.turn ELSE Last(c).turn
           request == IF known THEN s.request ELSE Last(c).request
           fallback == IF s.turn = 0 \/ found THEN s.status ELSE "idle"
           status == IF turn = 0 THEN fallback ELSE deriveRequestLoopStatus(c, turn, fallback)
<1>1. /\ s.nextSeq \in Nat /\ s.nextTurn \in Nat /\ s.turn \in Nat /\ s.request \in Nat
      /\ IsRecord(s)
  BY DEF IsState
<1>2. /\ v = Last(c).seq /\ t = Last(c).turn /\ v \in Nat /\ t \in 1..MaxTurn
      /\ Last(c).request \in Nat
  BY LastIsHighest
<1>3. c # <<>> BY EntriesAre
<1>4. l = [version |-> v, nextSeq |-> n, nextTurn |-> m, turn |-> turn,
           request |-> request, status |-> status]
  <2> DEFINE r == WithNumbers(s, n, m)
  <2>1. r = [version |-> s.version, nextSeq |-> n, nextTurn |-> m, turn |-> s.turn,
             request |-> s.request, status |-> s.status]
    <3> HIDE DEF n, m
    <3> QED BY <1>1, StateNumbered
  <2>2. l = deriveConversationLoopState(r, c)
    BY DEF normalizeLoadedConversation, WithNumbers
  <2> HIDE DEF r, n, m, v, t
  <2>3. /\ r.turn = s.turn /\ r.request = s.request /\ r.status = s.status
        /\ r.nextSeq = n /\ r.nextTurn = m
    BY <2>1
  <2>4. deriveConversationLoopState(r, c) = WithRequest(r, v, turn, request, status)
    BY <1>3, <2>3 DEF deriveConversationLoopState, WithRequest, v
  <2> HIDE DEF turn, request, status
  <2>5. WithRequest(r, v, turn, request, status)
          = [version |-> v, nextSeq |-> n, nextTurn |-> m, turn |-> turn,
             request |-> request, status |-> status]
    <3>1. IsRecord(r) /\ r.nextSeq = n /\ r.nextTurn = m BY <2>1 DEF IsRecord
    <3> QED BY <3>1, StateDerived
  <2> QED BY <2>2, <2>4, <2>5
<1>5. n \in Nat /\ n >= s.nextSeq /\ n >= v + 1
  <2>1. v + 1 \in Nat BY <1>2
  <2> HIDE DEF v
  <2> QED BY <1>1, <2>1, HigherOf
<1>6. m \in Nat /\ m >= t + 1
  <2>1. t + 1 \in Nat BY <1>2
  <2> HIDE DEF t
  <2> QED BY <1>1, <2>1, HigherOf
<1>7. turn \in Nat /\ request \in Nat /\ Last(c).turn # 0
  BY <1>1, <1>2
<1> HIDE DEF l, v, t, n, m, status
<1>8. /\ l.version = v /\ l.nextSeq = n /\ l.nextTurn = m /\ l.turn = turn
      /\ l.request = request /\ l.status = status
  BY <1>4
<1>9. l.turn = Last(c).turn => l.status = deriveRequestLoopStatus(c, Last(c).turn, fallback)
  BY <1>7, <1>8 DEF status
<1>10. fallback = IF s.turn = 0 \/ known THEN s.status ELSE "idle"
  OBVIOUS
<1>11. l.nextSeq > Last(c).seq /\ l.nextTurn > Last(c).turn
  BY <1>2, <1>5, <1>6, <1>8
<1> HIDE DEF fallback
<1>12. known => l.turn = s.turn /\ l.request = s.request
  BY <1>8
<1>13. ~known => Names(l, c)
  BY <1>8 DEF Names
<1> HIDE DEF turn, request, found
<1>14. IsRecord(l)
  BY <1>4, <1>8 DEF IsRecord
<1>15. /\ l.version = Last(c).seq /\ l.nextSeq \in Nat /\ l.nextSeq >= s.nextSeq
       /\ l.nextTurn \in Nat /\ l.turn \in Nat /\ l.request \in Nat
  BY <1>2, <1>5, <1>6, <1>7, <1>8
<1> QED BY <1>9, <1>10, <1>11, <1>12, <1>13, <1>14, <1>15 DEF l, found

(* What is loaded from the two files.                                      *)
LEMMA FreshIs ==
  /\ Fresh = [version |-> 0, nextSeq |-> 1, nextTurn |-> 1, turn |-> 0,
              request |-> 0, status |-> "idle"]
  /\ IsState(Fresh)
<1> DEFINE fields == {"version", "nextSeq", "nextTurn", "turn", "request", "status"}
           s == [version |-> 0, nextSeq |-> 1, nextTurn |-> 1, turn |-> 0,
                 request |-> 0, status |-> "idle"]
           g == [i \in fields |-> IF i = "nextSeq" THEN 1 ELSE IF i = "nextTurn" THEN 1
                                  ELSE IF i = "status" THEN "idle" ELSE NoState[i]]
<1>1. [NoState EXCEPT !.nextSeq = 1, !.nextTurn = 1, !.status = "idle"] = g
  BY DEF NoState
<1>2. s = g
  BY DEF NoState
<1>3. Fresh = s
  BY <1>1, <1>2 DEF Fresh
<1>4. IsState(s)
  BY DEF IsState, IsRecord
<1> QED BY <1>3, <1>4

LEMMA LoadedFresh ==
  ASSUME state = NoState
  PROVE  LoadConversation = Fresh /\ StoredEntries = <<>>
BY DEF LoadConversation, StoredEntries

LEMMA Loaded ==
  ASSUME HistoryInv, saving = NoState, state # NoState
  PROVE  LET l == LoadConversation
         IN  /\ IsState(l) /\ l.nextSeq > Last(context).seq /\ l.nextSeq >= state.nextSeq
             /\ l.nextTurn > Last(context).turn
             /\ StateInv => Names(l, context) /\ l.status \in StatusOf(outcome)
<1> DEFINE c == context
           l == LoadConversation
           r == WithoutRequest(state)
           s == IF contextVersionMismatch THEN r ELSE state
           known == s.turn # 0 /\ HasRequestEntry(c, s.turn, s.request)
           fallback == IF s.turn = 0 \/ known THEN s.status ELSE "idle"
<1>1. /\ Entries(c) /\ InOrder(c) /\ Len(c) > 0 /\ EndFits(c, outcome)
      /\ IsState(state)
  BY EntriesAre DEF HistoryInv, IsHistory
<1>2. /\ IsState(r) /\ r.nextSeq = state.nextSeq /\ r.turn = 0 /\ r.status = "idle"
  <2>1. r = [version |-> state.version, nextSeq |-> state.nextSeq,
             nextTurn |-> state.nextTurn, turn |-> 0, request |-> 0, status |-> "idle"]
    BY <1>1, StateStale DEF IsState
  <2> HIDE DEF r
  <2> QED BY <1>1, <2>1 DEF IsState, IsRecord
<1>3. l = normalizeLoadedConversation(s, c)
  BY DEF LoadConversation, invalidateStaleRuntimeState, WithoutRequest
<1> HIDE DEF r
<1>4. IsState(s) /\ s.nextSeq = state.nextSeq
  BY <1>1, <1>2
<1> HIDE DEF l, s, c
<1>5. /\ l.version = Last(c).seq
      /\ l.nextSeq \in Nat /\ l.nextSeq >= s.nextSeq /\ l.nextSeq > Last(c).seq
      /\ l.nextTurn \in Nat /\ l.nextTurn > Last(c).turn
      /\ known => l.turn = s.turn /\ l.request = s.request
      /\ ~known => Names(l, c)
      /\ l.turn \in Nat /\ l.request \in Nat
      /\ IsRecord(l)
      /\ l.turn = Last(c).turn =>
            l.status = deriveRequestLoopStatus(c, Last(c).turn, fallback)
  <2> HIDE DEF known, fallback
  <2> QED BY <1>1, <1>3, <1>4, Normalized DEF known, fallback
<1>6. Last(c).seq \in Nat /\ contextVersionForEntries(c) = Last(c).seq
  BY <1>1, LastIsHighest
<1>7. ASSUME StateInv PROVE Names(l, c) /\ l.status \in StatusOf(outcome)
  <2>1. /\ known => Names(s, c)
        /\ outcome = "open" => fallback \in LiveStatus \/ Active(c)
    <3>1. CASE contextVersionMismatch
      <4>1. s.turn = 0 /\ s.status = "idle" BY <1>2, <3>1 DEF s
      <4> QED BY <4>1 DEF LiveStatus
    <3>2. CASE ~contextVersionMismatch
      <4>1. s = state /\ s.version = Last(c).seq
        BY <1>6, <3>2 DEF s, c, contextVersionMismatch
      <4>2. Credible(s, c, outcome) BY <1>7, <4>1 DEF StateInv, c
      <4>3. HasRequestEntry(c, s.turn, s.request) => Names(s, c)
        BY <4>1, <4>2 DEF Credible
      <4>4. outcome = "open" => s.status \in LiveStatus \/ Active(c)
        BY <4>1, <4>2 DEF Credible
      <4> QED BY <4>3, <4>4 DEF LiveStatus
    <3> QED BY <3>1, <3>2
  <2>2. Names(l, c)
    <3>1. CASE known
      <4>1. Names(s, c) BY <2>1, <3>1
      <4> QED BY <1>5, <3>1, <4>1 DEF Names
    <3> QED BY <1>5, <3>1
  <2> HIDE DEF known, fallback
  <2>3. l.status = deriveRequestLoopStatus(c, Last(c).turn, fallback)
    BY <1>5, <2>2 DEF Names
  <2>4. deriveRequestLoopStatus(c, Last(c).turn, fallback) \in StatusOf(outcome)
    BY <1>1, <2>1, StatusFits
  <2> QED BY <2>2, <2>3, <2>4
<1>8. IsState(l)
  BY <1>5, <1>6 DEF IsState
<1> QED BY <1>4, <1>5, <1>7, <1>8 DEF l, c

-----------------------------------------------------------------------------
(* Writing a history                                                       *)

\* New entries of one turn that go behind the ones that stand, with the
\* numbers from n on.
Joins(c, es, t, n) ==
    /\ IsHistory(c) /\ Entries(es) /\ Len(es) > 0 /\ RunsWhole(es)
    /\ \A i \in 1..Len(es) : es[i].turn = t
    /\ n \in Nat \ {0}
    /\ Len(c) > 0 => Last(c).turn <= t /\ n > Last(c).seq

Joined(c, es, r, n) == c \o numbered(By(r, es), n)

HasJoined(d, c, es, r, t, n) ==
    /\ IsHistory(d) /\ Len(d) > 0
    /\ Len(d) = Len(c) + Len(es) /\ Len(c) \in Nat /\ Len(es) \in Nat
    /\ Last(d).turn = t /\ Last(d).request = r /\ Last(d).seq >= n
    /\ \A i \in 1..Len(c) : d[i] = c[i]
    /\ \A i \in 1..Len(es) : d[Len(c) + i].kind = es[i].kind /\ d[Len(c) + i].turn = t

LEMMA Appended ==
  ASSUME NEW c, NEW es, NEW r \in Nat, NEW t, NEW n, Joins(c, es, t, n)
  PROVE  HasJoined(Joined(c, es, r, n), c, es, r, t, n)
<1> DEFINE b == By(r, es)
           m == numbered(b, n)
           d == c \o m
           L == Len(c)
           N == Len(es)
<1>0. /\ IsHistory(c) /\ Entries(es) /\ Len(es) > 0 /\ RunsWhole(es)
      /\ \A i \in 1..Len(es) : es[i].turn = t
      /\ n \in Nat \ {0}
      /\ Len(c) > 0 => Last(c).turn <= t /\ n > Last(c).seq
  BY DEF Joins
<1>1. Entries(c) /\ InOrder(c) /\ RunsWhole(c) BY <1>0 DEF IsHistory
<1>2. /\ Entries(b) /\ Len(b) = N
      /\ \A i \in 1..N : b[i].kind = es[i].kind /\ b[i].turn = es[i].turn /\ b[i].request = r
  BY <1>0, ByAre
<1> HIDE DEF b
<1>3. /\ Entries(m) /\ Len(m) = N
      /\ \A i \in 1..N : /\ m[i].seq = n + i - 1
                         /\ m[i].kind = es[i].kind /\ m[i].turn = t
                         /\ m[i].request = r
  <2>1. /\ Entries(m) /\ Len(m) = Len(b)
        /\ \A i \in 1..Len(b) :
              /\ m[i].seq = n + i - 1
              /\ m[i].kind = b[i].kind /\ m[i].turn = b[i].turn
              /\ m[i].request = b[i].request
    BY <1>0, <1>2, NumberedAre
  <2> QED BY <1>0, <1>2, <2>1
<1> HIDE DEF m
<1>4. /\ Entries(d) /\ Len(d) = L + N
      /\ \A i \in 1..L : d[i] = c[i]
      /\ \A i \in 1..N : d[L + i] = m[i]
  <2>1. Entries(c) /\ Entries(m) BY <1>1, <1>3
  <2>2. /\ Entries(d) /\ Len(d) = Len(c) + Len(m)
        /\ \A i \in 1..Len(c) : d[i] = c[i]
        /\ \A i \in 1..Len(m) : d[Len(c) + i] = m[i]
    BY <2>1, ConcatAre
  <2> QED BY <1>3, <2>2
<1>5. /\ L \in Nat /\ N \in Nat /\ DOMAIN c = 1..L /\ DOMAIN es = 1..N
      /\ Len(c) > 0 => Last(c) = c[L]
  BY <1>0, <1>1, EntriesAre
<1> HIDE DEF d
<1>6. DOMAIN d = 1..(L + N) /\ Last(d) = d[L + N] /\ Len(d) > 0
  BY <1>0, <1>4, <1>5, EntriesAre
<1> HIDE DEF L, N
<1>7. \A i \in 1..(L + N) : i \in 1..L \/ (i - L \in 1..N /\ L + (i - L) = i)
  BY <1>5
<1>a. N > 0 BY <1>0 DEF N
<1>8. \A i \in 1..N : /\ d[L + i].seq = n + i - 1
                      /\ d[L + i].kind = es[i].kind /\ d[L + i].turn = t
                      /\ d[L + i].request = r
  BY <1>3, <1>4
<1>9. Last(d).turn = t /\ Last(d).request = r /\ Last(d).seq >= n
  <2>1. N \in 1..N BY <1>5, <1>a
  <2>2. d[L + N].seq = n + N - 1 /\ d[L + N].turn = t /\ d[L + N].request = r
    BY <1>8, <2>1
  <2> QED BY <1>0, <1>5, <1>6, <1>a, <2>2
<1>10. Len(c) > 0 => /\ n > L
                     /\ \A i \in 1..L : /\ c[i].seq \in Nat /\ c[i].seq < n
                                        /\ c[i].turn \in Nat /\ c[i].turn <= t
  <2>1. ASSUME Len(c) > 0
        PROVE  /\ n > L
               /\ \A i \in 1..L : /\ c[i].seq \in Nat /\ c[i].seq < n
                                  /\ c[i].turn \in Nat /\ c[i].turn <= t
    <3>1. /\ Last(c).seq \in Nat /\ Last(c).seq >= L /\ Last(c).turn \in 1..MaxTurn
          /\ \A i \in 1..L : c[i].seq <= Last(c).seq /\ c[i].turn <= Last(c).turn
      BY <1>1, <2>1, LastIsHighest DEF L
    <3>2. \A i \in 1..L : c[i].seq \in Nat /\ c[i].turn \in 1..MaxTurn
      BY <1>1, EntriesAre DEF IsEntry, L
    <3>3. MaxTurn \in Nat BY ConversationStoreAssumption
    <3>4. \A i \in 1..N : es[i].turn \in 1..MaxTurn
      BY <1>0, <1>5, EntriesAre DEF IsEntry, N
    <3>5. t \in Nat
      <4>1. N \in 1..N BY <1>5, <1>a
      <4> QED BY <1>0, <3>3, <3>4, <4>1 DEF N
    <3>6. Last(c).turn <= t /\ n > Last(c).seq BY <1>0, <2>1
    <3>7. n > L BY <1>0, <1>5, <3>1, <3>6
    <3>8. ASSUME NEW i \in 1..L
          PROVE  c[i].seq < n /\ c[i].turn <= t
      <4> DEFINE q == c[i].seq
                 u == c[i].turn
                 qq == Last(c).seq
                 uu == Last(c).turn
      <4>1. q \in Nat /\ u \in Nat /\ qq \in Nat /\ uu \in Nat /\ q <= qq /\ u <= uu
        BY <3>1, <3>2, <3>3
      <4>2. uu <= t /\ n > qq BY <3>6
      <4> HIDE DEF q, u, qq, uu
      <4>3. q < n /\ u <= t BY <1>0, <3>5, <4>1, <4>2
      <4> QED BY <4>3 DEF q, u
    <3>9. \A i \in 1..L : c[i].seq \in Nat /\ c[i].turn \in Nat
      BY <3>2, <3>3
    <3> QED BY <3>7, <3>8, <3>9
  <2> QED BY <2>1
<1>11. InOrder(d)
  <2>1. \A i \in 1..(L + N) : d[i].seq >= i
    <3> TAKE i \in 1..(L + N)
    <3>1. CASE i \in 1..L
      BY <1>1, <1>4, <1>5, <3>1 DEF InOrder
    <3>2. CASE i \notin 1..L
      <4>1. i - L \in 1..N /\ L + (i - L) = i BY <1>7, <3>2
      <4>2. d[i].seq = n + (i - L) - 1 BY <1>8, <4>1
      <4>3. L > 0 => n > L BY <1>10 DEF L
      <4> QED BY <1>0, <1>5, <4>1, <4>2, <4>3
    <3> QED BY <3>1, <3>2
  <2>2. ASSUME NEW i \in 1..(L + N), NEW j \in 1..(L + N), i < j
        PROVE  d[i].seq < d[j].seq /\ d[i].turn <= d[j].turn
    <3>1. CASE j \in 1..L
      <4>1. i \in 1..L BY <2>2, <3>1, <1>5
      <4> QED BY <1>1, <1>4, <1>5, <2>2, <3>1, <4>1 DEF InOrder
    <3>2. CASE j \notin 1..L
      <4>1. j - L \in 1..N /\ L + (j - L) = j BY <1>7, <3>2
      <4>2. d[j].seq = n + (j - L) - 1 /\ d[j].turn = t BY <1>8, <4>1
      <4>3. CASE i \in 1..L
        <5>1. c[i].seq \in Nat /\ c[i].seq < n /\ c[i].turn <= t
          <6>1. L > 0 BY <1>5, <4>3
          <6> QED BY <1>10, <4>3, <6>1 DEF L
        <5>2. d[i] = c[i] BY <1>4, <4>3
        <5> QED BY <1>0, <1>5, <4>1, <4>2, <5>1, <5>2
      <4>4. CASE i \notin 1..L
        <5>1. i - L \in 1..N /\ L + (i - L) = i BY <1>7, <4>4
        <5>2. d[i].seq = n + (i - L) - 1 /\ d[i].turn = t BY <1>8, <5>1
        <5>3. t \in Nat
          <6>1. MaxTurn \in Nat BY ConversationStoreAssumption
          <6>2. \A k \in 1..N : es[k].turn \in 1..MaxTurn
            BY <1>0, <1>5, EntriesAre DEF IsEntry, N
          <6> QED BY <1>0, <5>1, <6>1, <6>2 DEF N
        <5> QED BY <1>0, <1>5, <2>2, <4>1, <4>2, <5>1, <5>2, <5>3
      <4> QED BY <4>3, <4>4
    <3> QED BY <3>1, <3>2
  <2> QED BY <1>6, <2>1, <2>2 DEF InOrder
<1>12. RunsWhole(d)
  <2> SUFFICES ASSUME NEW i \in 1..(L + N), d[i].kind = "user"
               PROVE  \E p, q \in 1..(L + N) :
                          /\ d[p].turn = d[i].turn /\ d[p].kind = "run"
                          /\ d[q].turn = d[i].turn /\ d[q].kind \notin {"user", "run"}
    BY <1>6 DEF RunsWhole
  <2>1. CASE i \in 1..L
    <3>1. c[i].kind = "user" BY <1>4, <2>1
    <3>2. PICK p, q \in 1..L : /\ c[p].turn = c[i].turn /\ c[p].kind = "run"
                               /\ c[q].turn = c[i].turn /\ c[q].kind \notin {"user", "run"}
      BY <1>1, <1>5, <2>1, <3>1 DEF RunsWhole
    <3>3. p \in 1..(L + N) /\ q \in 1..(L + N) BY <1>5
    <3>4. d[p] = c[p] /\ d[q] = c[q] /\ d[i] = c[i] BY <1>4, <2>1
    <3> QED BY <3>2, <3>3, <3>4
  <2>2. CASE i \notin 1..L
    <3>1. i - L \in 1..N /\ L + (i - L) = i BY <1>7, <2>2
    <3>2. es[i - L].kind = "user" /\ d[i].turn = t BY <1>8, <3>1
    <3>3. PICK p, q \in 1..N : /\ es[p].kind = "run"
                               /\ es[q].kind \notin {"user", "run"}
      BY <1>0, <1>5, <3>1, <3>2 DEF RunsWhole
    <3>4. L + p \in 1..(L + N) /\ L + q \in 1..(L + N) BY <1>5
    <3>5. /\ d[L + p].kind = es[p].kind /\ d[L + p].turn = t
          /\ d[L + q].kind = es[q].kind /\ d[L + q].turn = t
      BY <1>8
    <3> QED BY <3>2, <3>3, <3>4, <3>5
  <2> QED BY <2>1, <2>2
<1>13. IsHistory(d) BY <1>4, <1>11, <1>12 DEF IsHistory
<1>14. /\ \A i \in 1..Len(c) : d[i] = c[i]
       /\ \A i \in 1..Len(es) : d[Len(c) + i].kind = es[i].kind /\ d[Len(c) + i].turn = t
  BY <1>4, <1>8 DEF L, N
<1>15. Len(d) = Len(c) + Len(es) /\ Len(c) \in Nat /\ Len(es) \in Nat
  BY <1>4, <1>5 DEF L, N
<1>16. HasJoined(d, c, es, r, t, n) BY <1>6, <1>9, <1>13, <1>14, <1>15 DEF HasJoined
<1> QED BY <1>16 DEF d, m, b, Joined

\* A replacement is numbered from one.
LEMMA Replaced ==
  ASSUME NEW x, Entries(x), Len(x) > 0, RunsWhole(x),
         \A i, j \in 1..Len(x) : i < j => x[i].turn <= x[j].turn
  PROVE  LET d == numbered(x, 1)
         IN  /\ IsHistory(d) /\ Len(d) = Len(x) /\ Len(d) \in Nat
             /\ Last(d).seq = Len(x)
             /\ Last(d).turn = x[Len(x)].turn /\ Last(d).request = x[Len(x)].request
             /\ \A i \in 1..Len(x) : /\ d[i].kind = x[i].kind /\ d[i].turn = x[i].turn
                                     /\ d[i].request = x[i].request
<1> DEFINE d == numbered(x, 1)
           L == Len(x)
<1>1. /\ Entries(d) /\ Len(d) = L
      /\ \A i \in 1..L : /\ d[i].seq = 1 + i - 1
                         /\ d[i].kind = x[i].kind /\ d[i].turn = x[i].turn
                         /\ d[i].request = x[i].request
  BY NumberedAre
<1> HIDE DEF d
<1>2. L \in Nat /\ L \in 1..L /\ DOMAIN d = 1..L /\ Last(d) = d[L] /\ DOMAIN x = 1..L
  BY <1>1, EntriesAre
<1>3. InOrder(d)
  BY <1>1, <1>2 DEF InOrder
<1>4. RunsWhole(d)
  BY <1>1, <1>2 DEF RunsWhole
<1>5. Last(d).seq = L BY <1>1, <1>2
<1>6. IsHistory(d) BY <1>1, <1>3, <1>4 DEF IsHistory
<1>7. Last(d).turn = x[L].turn /\ Last(d).request = x[L].request
  BY <1>1, <1>2
<1> QED BY <1>1, <1>2, <1>5, <1>6, <1>7 DEF d

(* What a write leaves of the invariant.                                   *)
LEMMA HistoryWritten ==
  ASSUME HistoryInv, NEW c, NEW s, IsHistory(c), Len(c) > 0, IsState(s),
         WriteConversation(c, s), outcome' # "none", EndFits(c, outcome')
  PROVE  HistoryInv' /\ saving' # NoState /\ context' = c /\ paired' = FALSE
<1> DEFINE l == normalizeLoadedConversation(s, c)
<1>1. context' = c /\ paired' = FALSE /\ saving' = l /\ state' = state
  BY DEF WriteConversation
<1>2. Entries(c) /\ InOrder(c) BY DEF IsHistory
<1>3. /\ l.version = Last(c).seq /\ l.nextSeq \in Nat /\ l.nextSeq > Last(c).seq
      /\ l.nextTurn \in Nat /\ l.turn \in Nat /\ l.request \in Nat /\ IsRecord(l)
  BY <1>2, Normalized
<1> HIDE DEF l
<1>4. Last(c).seq \in Nat /\ Last(c).seq >= Len(c) /\ Len(c) \in Nat /\ c # <<>>
  BY <1>2, LastIsHighest, EntriesAre
<1>5. IsState(l) /\ l.nextSeq > l.version BY <1>3, <1>4 DEF IsState
<1>6. l # NoState
  <2>1. l.version # 0 BY <1>3, <1>4
  <2> QED BY <2>1 DEF NoState
<1>7. state' # NoState => IsState(state') /\ state'.nextSeq > state'.version
  BY <1>1 DEF HistoryInv
<1>8. HistoryInv' BY <1>1, <1>4, <1>5, <1>6, <1>7 DEF HistoryInv
<1> QED BY <1>1, <1>6, <1>8

LEMMA StateWritten ==
  ASSUME NEW c, NEW s, IsHistory(c), Len(c) > 0, IsState(s),
         WriteConversation(c, s), EndFits(c, outcome'),
         Names(s, c), outcome' = "open" => s.status \in LiveStatus \/ Active(c),
         state # NoState => Credible(state, c, outcome')
  PROVE  StateInv'
<1> DEFINE l == normalizeLoadedConversation(s, c)
           known == s.turn # 0 /\ HasRequestEntry(c, s.turn, s.request)
           fallback == IF s.turn = 0 \/ known THEN s.status ELSE "idle"
<1>1. context' = c /\ paired' = FALSE /\ saving' = l /\ state' = state
  BY DEF WriteConversation
<1>2. Entries(c) /\ InOrder(c) BY DEF IsHistory
<1>3. /\ l.version = Last(c).seq
      /\ known => l.turn = s.turn /\ l.request = s.request
      /\ ~known => Names(l, c)
      /\ l.turn = Last(c).turn => l.status = deriveRequestLoopStatus(c, Last(c).turn, fallback)
  <2> HIDE DEF known, fallback
  <2> QED BY <1>2, Normalized DEF known, fallback
<1>4. outcome' = "open" => fallback \in LiveStatus \/ Active(c)
  BY DEF LiveStatus
<1> HIDE DEF l, known, fallback
<1>5. Names(l, c)
  BY <1>3 DEF Names
<1>6. l.status \in StatusOf(outcome')
  <2>1. l.status = deriveRequestLoopStatus(c, Last(c).turn, fallback)
    BY <1>3, <1>5 DEF Names
  <2> DEFINE o == outcome'
  <2>2. EndFits(c, o) /\ (o = "open" => fallback \in LiveStatus \/ Active(c))
    BY <1>4
  <2> HIDE DEF o
  <2>3. deriveRequestLoopStatus(c, Last(c).turn, fallback) \in StatusOf(o)
    BY <1>2, <2>2, StatusFits
  <2> QED BY <2>1, <2>3 DEF o
<1>7. Fits(l, c, outcome') BY <1>3, <1>5, <1>6 DEF Fits
<1> QED BY <1>1, <1>7 DEF StateInv

\* A history that grew is ahead of every state file.
LEMMA GrownIsAhead ==
  ASSUME HistoryInv, saving = NoState, state # NoState, NEW c, NEW o,
         Last(c).seq >= LoadConversation.nextSeq, Last(c).seq \in Nat
  PROVE  Credible(state, c, o)
<1>1. LoadConversation.nextSeq >= state.nextSeq /\ IsState(LoadConversation)
  BY Loaded
<1>2. state.nextSeq > state.version /\ IsState(state)
  BY DEF HistoryInv
<1>3. LoadConversation.nextSeq \in Nat /\ state.nextSeq \in Nat /\ state.version \in Nat
  BY <1>1, <1>2 DEF IsState
<1>4. Last(c).seq # state.version
  BY <1>1, <1>2, <1>3
<1> QED BY <1>4 DEF Credible

-----------------------------------------------------------------------------
(* One entry of the turn that writes                                       *)

LEMMA EndsAppended ==
  ASSUME NEW c, NEW d, Entries(c), Entries(d), Len(c) > 0, Len(d) = Len(c) + 1,
         \A i \in 1..Len(c) : d[i] = c[i], Last(d).turn = Last(c).turn,
         EndFits(c, "open"), NEW o,
         \/ Last(d).kind \notin EndKinds /\ o = "open"
         \/ Last(d).kind \in EndKinds /\ o = Last(d).kind
  PROVE  EndFits(d, o)
<1>1. /\ DOMAIN c = 1..Len(c) /\ DOMAIN d = 1..Len(d) /\ Len(c) \in Nat
      /\ Last(d) = d[Len(d)]
  BY EntriesAre
<1>2. Ends(c) = {} BY DEF EndFits
<1>3. \A i \in 1..Len(c) : i \notin Ends(d)
  BY <1>1, <1>2 DEF Ends
<1>4. \A i \in Ends(d) : i = Len(d)
  <2>1. \A i \in Ends(d) : i \in 1..Len(d) BY <1>1 DEF Ends
  <2> QED BY <1>1, <1>3, <2>1
<1>5. CASE Last(d).kind \notin EndKinds
  <2>1. Ends(d) = {} BY <1>1, <1>4, <1>5 DEF Ends
  <2> QED BY <1>5, <2>1 DEF EndFits, EndKinds
<1>6. CASE Last(d).kind \in EndKinds
  <2>1. Len(d) \in Ends(d) BY <1>1, <1>6 DEF Ends
  <2>2. o \in EndKinds /\ o # "open" BY <1>6 DEF EndKinds
  <2>3. \A j \in Ends(d) : j <= Len(d) BY <1>1, <1>4
  <2> QED BY <1>1, <1>6, <2>1, <2>2, <2>3 DEF EndFits
<1> QED BY <1>5, <1>6

LEMMA OneEntry ==
  ASSUME NEW e, IsEntry(e), e.kind # "user"
  PROVE  Entries(<<e>>) /\ Len(<<e>>) = 1 /\ RunsWhole(<<e>>) /\ <<e>>[1] = e
<1>1. DOMAIN <<e>> = 1..1 /\ <<e>>[1] = e /\ Len(<<e>>) = 1 OBVIOUS
<1>2. <<e>> \in Seq({<<e>>[i] : i \in DOMAIN <<e>>}) BY <1>1
<1>3. Entries(<<e>>) BY <1>1, <1>2 DEF Entries
<1>4. RunsWhole(<<e>>) BY <1>1 DEF RunsWhole
<1> QED BY <1>1, <1>3, <1>4

LEMMA OneAppended ==
  ASSUME HistoryInv, ActorInv, actor.pc \notin Idle,
         NEW e, IsEntry(e), e.turn = actor.turn, e.kind # "user",
         AppendEntries(<<e>>),
         \/ e.kind \notin EndKinds /\ outcome' = "open"
         \/ e.kind \in EndKinds /\ outcome' = e.kind
  PROVE  /\ HistoryInv' /\ saving' # NoState /\ Names(actor, context')
         /\ StateInv => StateInv'
<1> DEFINE l == LoadConversation
           es == <<e>>
           d == context \o numbered(By(actor.request, es), l.nextSeq)
           s == WithSeq(l, l.nextSeq + 1)
<1>1. saving = NoState BY DEF AppendEntries, WriteConversation
<1>2. /\ state # NoState /\ paired /\ outcome = "open" /\ Names(actor, context)
      /\ actor.turn \in 0..MaxTurn /\ actor.request \in Nat
  BY <1>1 DEF ActorInv, IsActor, Idle
<1>3. /\ IsHistory(context) /\ Entries(context) /\ InOrder(context)
      /\ Len(context) > 0 /\ EndFits(context, "open")
  BY <1>2, EntriesAre DEF HistoryInv, IsHistory
<1>4. /\ IsState(l) /\ l.nextSeq > Last(context).seq /\ l.nextSeq >= state.nextSeq
      /\ StateInv => Names(l, context) /\ l.status \in StatusOf(outcome)
  BY <1>1, <1>2, Loaded
<1>5. Entries(es) /\ Len(es) = 1 /\ RunsWhole(es) /\ es[1] = e BY OneEntry
<1>6. WriteConversation(d, s)
  BY <1>2, <1>5 DEF AppendEntries, StoredEntries, WithSeq
<1> HIDE DEF es, l
<1>7. s = [version |-> l.version, nextSeq |-> l.nextSeq + 1, nextTurn |-> l.nextTurn,
           turn |-> l.turn, request |-> l.request, status |-> l.status]
  BY <1>4, StateSeq DEF IsState
<1> HIDE DEF s
<1>8. l.nextSeq \in Nat \ {0}
  <2>1. Last(context).seq \in Nat BY <1>3, LastIsHighest
  <2> QED BY <1>4, <2>1 DEF IsState
<1>9. IsState(s) /\ s.turn = l.turn /\ s.request = l.request /\ s.status = l.status
  BY <1>4, <1>7, <1>8 DEF IsState, IsRecord
<1>10. /\ IsHistory(d) /\ Len(d) > 0 /\ Len(d) = Len(context) + 1 /\ Len(context) \in Nat
       /\ Last(d).turn = actor.turn /\ Last(d).request = actor.request
       /\ Last(d).seq >= l.nextSeq
       /\ \A i \in 1..Len(context) : d[i] = context[i]
       /\ d[Len(context) + 1].kind = e.kind
  <2>1. \A i \in 1..Len(es) : es[i].turn = actor.turn BY <1>5
  <2>2. Last(context).turn <= actor.turn /\ l.nextSeq > Last(context).seq
    <3>1. Last(context).turn = actor.turn BY <1>2 DEF Names
    <3>2. MaxTurn \in Nat BY ConversationStoreAssumption
    <3> QED BY <1>2, <1>4, <3>1, <3>2
  <2> DEFINE c == context
             r == actor.request
             t == actor.turn
             n == l.nextSeq
             D == Joined(c, es, r, n)
  <2>3. Joins(c, es, t, n) /\ r \in Nat
    BY <1>2, <1>3, <1>5, <1>8, <2>1, <2>2 DEF Joins
  <2>4. d = D BY DEF Joined
  <2> HIDE DEF c, r, t, n, d
  <2>5. HasJoined(D, c, es, r, t, n)
    BY <2>3, Appended
  <2> HIDE DEF D
  <2>6. 1 \in 1..Len(es) BY <1>5
  <2> QED BY <1>5, <2>4, <2>5, <2>6 DEF c, r, t, n, HasJoined
<1> HIDE DEF d
<1>11. EndFits(d, outcome')
  <2>1. Entries(d) BY <1>10 DEF IsHistory
  <2>2. Last(d).kind = e.kind BY <1>10, <2>1, EntriesAre
  <2>3. Last(d).turn = Last(context).turn BY <1>2, <1>10 DEF Names
  <2> DEFINE o == outcome'
  <2>4. \/ Last(d).kind \notin EndKinds /\ o = "open"
        \/ Last(d).kind \in EndKinds /\ o = Last(d).kind
    BY <2>2
  <2> HIDE DEF o
  <2>5. EndFits(d, o) BY <1>3, <1>10, <2>1, <2>3, <2>4, EndsAppended
  <2> QED BY <2>5 DEF o
<1>12. outcome' # "none" BY DEF EndKinds
<1>13. HistoryInv' /\ saving' # NoState /\ context' = d
  BY <1>6, <1>9, <1>10, <1>11, <1>12, HistoryWritten
<1>14. Names(actor, context') BY <1>10, <1>13 DEF Names
<1>15. ASSUME StateInv PROVE StateInv'
  <2>1. Names(l, context) /\ l.status \in StatusOf("open") BY <1>2, <1>4, <1>15
  <2>2. Names(s, d) BY <1>2, <1>9, <1>10, <2>1 DEF Names
  <2>3. s.status \in LiveStatus BY <1>9, <2>1 DEF StatusOf
  <2> DEFINE o == outcome'
  <2>4. Credible(state, d, o)
    <3>1. Last(d).seq \in Nat BY <1>10, LastIsHighest DEF IsHistory
    <3>2. Last(d).seq >= LoadConversation.nextSeq BY <1>10 DEF l
    <3> HIDE DEF o
    <3> QED BY <1>1, <1>2, <3>1, <3>2, GrownIsAhead
  <2> QED BY <1>6, <1>9, <1>10, <1>11, <2>2, <2>3, <2>4, StateWritten
<1> QED BY <1>13, <1>14, <1>15

-----------------------------------------------------------------------------
(* A new run                                                               *)

LEMMA EntryIs ==
  ASSUME NEW k \in EntryKinds, NEW t \in 1..MaxTurn
  PROVE  /\ IsEntry(Entry(k, t)) \/ k = "call"
         /\ Entry(k, t).kind = k /\ Entry(k, t).turn = t
<1>1. t \in Nat /\ t # 0 BY ConversationStoreAssumption
<1>2. Entry(k, t) = [kind |-> k, turn |-> t, request |-> 0, call |-> NoCall,
                     covers |-> Nothing, policy |-> "none", seq |-> 0]
  BY DEF Entry
<1> QED BY <1>1, <1>2 DEF IsEntry

LEMMA RunEntriesAre ==
  ASSUME NEW t \in 1..MaxTurn
  PROVE  LET es == buildRunEntries(t)
         IN  /\ Entries(es) /\ Len(es) = 3 /\ RunsWhole(es)
             /\ \A i \in 1..3 : es[i].turn = t
             /\ es[1].kind = "user" /\ es[2].kind = "run" /\ es[3].kind = "prompt"
<1> DEFINE es == buildRunEntries(t)
           a == Entry("user", t)
           b == Entry("run", t)
           p == Entry("prompt", t)
<1>1. /\ IsEntry(a) /\ a.kind = "user" /\ a.turn = t
      /\ IsEntry(b) /\ b.kind = "run" /\ b.turn = t
      /\ IsEntry(p) /\ p.kind = "prompt" /\ p.turn = t
  <2>1. {"user", "run", "prompt"} \subseteq EntryKinds BY DEF EntryKinds
  <2> HIDE DEF a, b, p
  <2> QED BY <2>1, EntryIs DEF a, b, p
<1>2. es = <<a, b, p>> BY DEF buildRunEntries
<1> HIDE DEF es, a, b, p
<1>3. Len(es) = 3 /\ DOMAIN es = 1..3 /\ es[1] = a /\ es[2] = b /\ es[3] = p
  BY <1>2
<1>4. es \in Seq({a, b, p}) BY <1>2
<1>5. es = [i \in 1..3 |-> es[i]] BY <1>3, <1>4
<1>6. es \in Seq({es[i] : i \in DOMAIN es}) BY <1>5, SequenceOf
<1>7. \A i \in 1..3 : i = 1 \/ i = 2 \/ i = 3 OBVIOUS
<1>8. \A i \in 1..3 : IsEntry(es[i]) /\ es[i].turn = t
  <2> TAKE i \in 1..3
  <2>1. CASE i = 1 BY <1>1, <1>3, <2>1
  <2>2. CASE i = 2 BY <1>1, <1>3, <2>2
  <2>3. CASE i = 3 BY <1>1, <1>3, <2>3
  <2> QED BY <1>7, <2>1, <2>2, <2>3
<1>9. Entries(es) BY <1>3, <1>6, <1>8 DEF Entries
<1>10. es[1].kind = "user" /\ es[2].kind = "run" /\ es[3].kind = "prompt" BY <1>1, <1>3
<1>11. RunsWhole(es)
  <2>1. 2 \in 1..3 /\ 3 \in 1..3 OBVIOUS
  <2>2. es[3].kind \notin {"user", "run"} BY <1>10
  <2>3. \A i \in 1..3 : es[2].turn = es[i].turn /\ es[3].turn = es[i].turn BY <1>8, <2>1
  <2> QED BY <1>3, <1>10, <2>1, <2>2, <2>3 DEF RunsWhole
<1> QED BY <1>3, <1>8, <1>9, <1>10, <1>11 DEF es

LEMMA EmptyIsHistory ==
  IsHistory(<<>>) /\ Len(<<>>) = 0
<1>1. DOMAIN <<>> = {} /\ <<>> \in Seq({}) OBVIOUS
<1>2. <<>> \in Seq({<<>>[i] : i \in DOMAIN <<>>}) BY <1>1
<1> QED BY <1>1, <1>2 DEF IsHistory, Entries, InOrder, RunsWhole

(* A run makes the history open: its turn has its message and no end yet.  *)
LEMMA RunIsOpen ==
  ASSUME NEW d, Entries(d), NEW k \in Nat, Len(d) = k + 3, NEW t, Last(d).turn = t,
         \A i \in 1..k : d[i].turn # t,
         d[k + 1].kind = "user" /\ d[k + 2].kind = "run" /\ d[k + 3].kind = "prompt",
         d[k + 1].turn = t
  PROVE  EndFits(d, "open") /\ Active(d)
<1>1. DOMAIN d = 1..(k + 3) BY EntriesAre
<1>2. \A i \in 1..(k + 3) : i \in 1..k \/ i = k + 1 \/ i = k + 2 \/ i = k + 3
  OBVIOUS
<1>3. Ends(d) = {} BY <1>1, <1>2 DEF Ends, EndKinds
<1>4. EndFits(d, "open") BY <1>3 DEF EndFits
<1>5. k + 1 \in DOMAIN d BY <1>1
<1> QED BY <1>4, <1>5 DEF Active

LEMMA RunAppended ==
  ASSUME HistoryInv, NEW t, t = LoadConversation.nextTurn, t <= MaxTurn, NEW r \in Nat,
         SaveConversationWithEntries(buildRunEntries(t), t, r), outcome' = "open"
  PROVE  /\ HistoryInv' /\ saving' # NoState
         /\ Last(context').turn = t /\ Last(context').request = r /\ t \in 1..MaxTurn
         /\ StateInv => StateInv'
<1> DEFINE l == LoadConversation
           c == StoredEntries
           es == buildRunEntries(t)
           n == l.nextSeq
           d == Joined(c, es, r, n)
           s == WithRun(l, n + 3, t, r)
<1>0. MaxTurn \in Nat BY ConversationStoreAssumption
<1>1. saving = NoState BY DEF SaveConversationWithEntries, WriteConversation
<1>2. /\ IsHistory(c) /\ IsState(l) /\ n \in Nat \ {0} /\ t \in 1..MaxTurn
      /\ Len(c) > 0 => Last(c).turn < t /\ n > Last(c).seq
      /\ state # NoState => n >= state.nextSeq /\ Len(c) > 0
  <2>1. CASE state = NoState
    <3>1. l = Fresh /\ c = <<>> BY <2>1, LoadedFresh
    <3>2. IsState(l) /\ l.nextSeq = 1 /\ l.nextTurn = 1 BY <3>1, FreshIs
    <3> QED BY <1>0, <2>1, <3>1, <3>2, EmptyIsHistory
  <2>2. CASE state # NoState
    <3>1. /\ IsState(l) /\ n > Last(context).seq /\ n >= state.nextSeq
          /\ l.nextTurn > Last(context).turn
      BY <1>1, <2>2, Loaded
    <3>2. c = context BY <2>2 DEF StoredEntries
    <3>3. IsHistory(context) /\ context # <<>> BY <2>2 DEF HistoryInv
    <3>4. Len(context) > 0 BY <3>3, EntriesAre DEF IsHistory
    <3>5. Last(context).seq \in Nat /\ Last(context).turn \in 1..MaxTurn
      BY <3>3, <3>4, LastIsHighest DEF IsHistory
    <3>6. l.nextTurn \in Nat /\ n \in Nat BY <3>1 DEF IsState
    <3> HIDE DEF l, c
    <3>7. t \in Nat BY <3>6 DEF l
    <3>8. n \in Nat \ {0} /\ t \in 1..MaxTurn
      BY <1>0, <3>1, <3>5, <3>6, <3>7 DEF l
    <3> QED BY <3>1, <3>2, <3>3, <3>4, <3>8 DEF l
  <2> QED BY <2>1, <2>2
<1>3. /\ Entries(es) /\ Len(es) = 3 /\ RunsWhole(es)
      /\ \A i \in 1..3 : es[i].turn = t
      /\ es[1].kind = "user" /\ es[2].kind = "run" /\ es[3].kind = "prompt"
  BY <1>2, RunEntriesAre
<1>4. WriteConversation(d, s)
  BY <1>3 DEF SaveConversationWithEntries, WithRun, Joined
<1> HIDE DEF l, c, es
<1>5. s = [version |-> l.version, nextSeq |-> n + 3, nextTurn |-> l.nextTurn,
           turn |-> t, request |-> r, status |-> "running"]
  BY <1>2, StateRun DEF IsState
<1> HIDE DEF s
<1>6. IsState(s) /\ s.turn = t /\ s.request = r /\ s.status = "running"
  BY <1>0, <1>2, <1>5 DEF IsState, IsRecord
<1>7. Joins(c, es, t, n)
  <2>1. Len(c) > 0 => Last(c).turn <= t
    <3>1. Len(c) > 0 => Last(c).turn \in 1..MaxTurn
      BY <1>2, LastIsHighest DEF IsHistory
    <3> QED BY <1>0, <1>2, <3>1
  <2> HIDE DEF n
  <2> QED BY <1>2, <1>3, <2>1 DEF Joins
<1> HIDE DEF n
<1>8. HasJoined(d, c, es, r, t, n) BY <1>7, Appended
<1> HIDE DEF d
<1>9. /\ IsHistory(d) /\ Len(d) > 0 /\ Len(c) \in Nat /\ Len(d) = Len(c) + 3
      /\ Last(d).turn = t /\ Last(d).request = r /\ Last(d).seq >= n
  BY <1>3, <1>8 DEF HasJoined
<1>10. EndFits(d, "open") /\ Active(d)
  <2>1. \A i \in 1..Len(c) : d[i].turn # t
    <3> TAKE i \in 1..Len(c)
    <3>1. d[i] = c[i] BY <1>8 DEF HasJoined
    <3>2. Len(c) > 0 BY <1>9
    <3>3. c[i].turn <= Last(c).turn /\ Last(c).turn \in 1..MaxTurn
      BY <1>2, <3>2, LastIsHighest DEF IsHistory
    <3>4. c[i].turn \in 1..MaxTurn BY <1>2, EntriesAre DEF IsHistory, IsEntry
    <3>5. Last(c).turn < t BY <1>2, <3>2
    <3>6. c[i].turn # t BY <1>0, <1>2, <3>3, <3>4, <3>5
    <3> QED BY <3>1, <3>6
  <2>2. /\ d[Len(c) + 1].kind = "user" /\ d[Len(c) + 2].kind = "run"
        /\ d[Len(c) + 3].kind = "prompt" /\ d[Len(c) + 1].turn = t
    <3>1. 1 \in 1..Len(es) /\ 2 \in 1..Len(es) /\ 3 \in 1..Len(es) BY <1>3
    <3> QED BY <1>3, <1>8, <3>1 DEF HasJoined
  <2> DEFINE k == Len(c)
  <2>3. /\ Entries(d) /\ k \in Nat /\ Len(d) = k + 3
        /\ \A i \in 1..k : d[i].turn # t
        /\ d[k + 1].kind = "user" /\ d[k + 2].kind = "run" /\ d[k + 3].kind = "prompt"
        /\ d[k + 1].turn = t
    BY <1>9, <2>1, <2>2 DEF IsHistory
  <2> HIDE DEF k
  <2> QED BY <1>9, <2>3, RunIsOpen
<1>11. HistoryInv' /\ saving' # NoState /\ context' = d
  BY <1>4, <1>6, <1>9, <1>10, HistoryWritten
<1>12. StateInv'
  <2>1. Names(s, d) BY <1>6, <1>9 DEF Names
  <2>2. ASSUME state # NoState PROVE Credible(state, d, "open")
    <3>1. Last(d).seq \in Nat BY <1>9, LastIsHighest DEF IsHistory
    <3>2. Last(d).seq >= LoadConversation.nextSeq BY <1>9 DEF n, l
    <3> QED BY <1>1, <2>2, <3>1, <3>2, GrownIsAhead
  <2> QED BY <1>4, <1>6, <1>9, <1>10, <2>1, <2>2, StateWritten
<1> QED BY <1>2, <1>9, <1>11, <1>12

-----------------------------------------------------------------------------
(* A message that is sent again                                            *)

LEMMA LeastNat ==
  ASSUME NEW T, T \subseteq Nat, T # {}
  PROVE  \E x \in T : \A y \in T : x <= y
<1> DEFINE Less == {ss \in Nat \X Nat : ss[1] < ss[2]}
<1>1. IsWellFoundedOn(Less, Nat)
  BY NatLessThanWellFounded DEF OpToRel
<1>2. PICK x \in T : \A y \in T : ~(<<y, x>> \in Less)
  <2> HIDE DEF Less
  <2> QED BY <1>1, WFMin
<1>3. \A y \in T : x <= y
  <2> TAKE y \in T
  <2>1. ~(<<y, x>> \in Less) BY <1>2
  <2>2. x \in Nat /\ y \in Nat OBVIOUS
  <2>3. ~(y < x) BY <2>1, <2>2
  <2> QED BY <2>2, <2>3
<1> QED BY <1>3

\* What a rewind keeps: the entries before the first one of the turn.
LEMMA Rewound ==
  ASSUME NEW c, IsHistory(c), NEW t \in Nat, NEW u \in 1..Len(c), c[u].turn = t
  PROVE  \E k \in Nat :
            /\ k < Len(c)
            /\ \A j \in 1..Len(c) : c[j].turn < t <=> j <= k
            /\ Entries(prefixEntriesBeforeTurn(c, t))
            /\ Len(prefixEntriesBeforeTurn(c, t)) = k
            /\ \A j \in 1..k : prefixEntriesBeforeTurn(c, t)[j] = c[j]
<1> DEFINE L == Len(c)
           T == {i \in 1..L : c[i].turn >= t}
           before == {i \in DOMAIN c : c[i].turn < t}
           p == entriesAt(c, before)
<1>1. /\ Entries(c) /\ InOrder(c) /\ L \in Nat /\ DOMAIN c = 1..L
      /\ \A i \in 1..L : IsEntry(c[i])
  BY EntriesAre DEF IsHistory
<1>2. \A i \in 1..L : c[i].turn \in Nat
  <2>1. MaxTurn \in Nat BY ConversationStoreAssumption
  <2> QED BY <1>1, <2>1 DEF IsEntry
<1>3. PICK f \in T : \A y \in T : f <= y
  <2>1. u \in T BY <1>2
  <2>2. T \subseteq Nat BY <1>1
  <2> HIDE DEF T
  <2> QED BY <2>1, <2>2, LeastNat
<1> DEFINE k == f - 1
<1>4. k \in Nat /\ k < L /\ f \in 1..L /\ f = k + 1 BY <1>1, <1>3
<1>5. \A j \in 1..L : c[j].turn < t <=> j <= k
  <2> TAKE j \in 1..L
  <2>1. CASE j \in T
    <3>1. f <= j /\ ~(c[j].turn < t) BY <1>2, <1>3, <2>1
    <3> QED BY <1>1, <1>4, <3>1
  <2>2. CASE j \notin T
    <3>1. c[j].turn < t BY <1>2, <2>2
    <3>2. f \in 1..L /\ c[f].turn >= t BY <1>3
    <3>3. ~(f <= j)
      <4> SUFFICES ASSUME f <= j PROVE FALSE OBVIOUS
      <4>1. c[f].turn <= c[j].turn
        <5>1. CASE f = j BY <1>2, <3>2, <5>1
        <5>2. CASE f < j BY <1>1, <3>2, <5>2 DEF InOrder
        <5> QED BY <1>1, <3>2, <5>1, <5>2
      <4> QED BY <1>2, <3>1, <3>2, <4>1
    <3> QED BY <1>1, <1>4, <3>1, <3>3
  <2> QED BY <2>1, <2>2
<1> DEFINE S == {c[i] : i \in DOMAIN c}
<1>6. c \in Seq(S) BY <1>1 DEF Entries
<1>7. Len(p) = k /\ \A j \in 1..k : p[j] = c[j]
  <2>1. \A i \in 1..Len(c) : i \in before <=> i <= k BY <1>1, <1>5
  <2>2. k \in 0..Len(c) BY <1>4
  <2> HIDE DEF S, before, k
  <2> QED BY <1>6, <2>1, <2>2, EntriesAtInitial
<1>8. p = [i \in 1..k |-> p[i]]
  <2>1. p \in Seq(S)
    <3> HIDE DEF S, before
    <3> QED BY <1>6, EntriesAtFacts
  <2> HIDE DEF S, p
  <2> QED BY <1>7, <2>1
<1> HIDE DEF p, k
<1>9. p \in Seq({p[i] : i \in DOMAIN p}) /\ DOMAIN p = 1..k
  BY <1>4, <1>8, SequenceOf
<1>10. Entries(p)
  <2>1. \A i \in 1..k : i \in 1..L BY <1>1, <1>4
  <2> QED BY <1>1, <1>7, <1>9, <2>1 DEF Entries
<1>11. p = prefixEntriesBeforeTurn(c, t) BY DEF p, prefixEntriesBeforeTurn
<1> QED BY <1>4, <1>5, <1>7, <1>10, <1>11

LEMMA FourApart ==
  ASSUME NEW k \in Nat, NEW n \in Nat, NEW a \in Nat, NEW b \in Nat, NEW c \in Nat,
         a # b, a # c, b # c, a > k, b > k, c > k, a < n, b < n, c < n
  PROVE  n >= k + 4
OBVIOUS

(* The edited message and what came before it, numbered from one.          *)
Edit(c, t, r) == prefixEntriesBeforeTurn(c, t) \o By(r, buildRunEntries(t))

IsEdit(x, d, c, t, r) ==
    /\ Entries(x) /\ Len(x) = Len(d) /\ Len(x) \in Nat
    /\ \A i \in 1..Len(x) : d[i].turn = x[i].turn
    /\ IsHistory(d) /\ Len(d) > 0 /\ Last(d).turn = t /\ Last(d).request = r
    /\ Last(d).seq \in Nat
    /\ EndFits(d, "open") /\ Active(d)
    /\ \A i \in 1..Len(d) : d[i].turn = t => d[i].request = r
    /\ Last(c).turn # t => Last(d).seq < Last(c).seq

LEMMA Edited ==
  ASSUME NEW c, IsHistory(c), NEW t \in 1..MaxTurn, NEW u \in 1..Len(c),
         c[u].turn = t, c[u].kind = "user", NEW r \in Nat
  PROVE  IsEdit(Edit(c, t, r), numbered(Edit(c, t, r), 1), c, t, r)
<1> DEFINE p == prefixEntriesBeforeTurn(c, t)
           es == buildRunEntries(t)
           b == By(r, es)
           x == p \o b
           d == numbered(x, 1)
           L == Len(c)
<1>0. MaxTurn \in Nat /\ t \in Nat BY ConversationStoreAssumption
<1>1. /\ Entries(c) /\ InOrder(c) /\ RunsWhole(c) /\ L \in Nat /\ DOMAIN c = 1..L
      /\ L > 0 /\ Last(c) = c[L]
      /\ \A i \in 1..L : c[i].turn \in Nat
  <2>1. Entries(c) /\ InOrder(c) /\ RunsWhole(c) BY DEF IsHistory
  <2>2. /\ L \in Nat /\ DOMAIN c = 1..L /\ (L > 0 => Last(c) = c[L])
        /\ \A i \in 1..L : IsEntry(c[i])
    BY <2>1, EntriesAre
  <2> QED BY <1>0, <2>1, <2>2 DEF IsEntry
<1>2. PICK k \in Nat : /\ k < L
                       /\ \A j \in 1..L : c[j].turn < t <=> j <= k
                       /\ Entries(p) /\ Len(p) = k
                       /\ \A j \in 1..k : p[j] = c[j]
  BY <1>0, Rewound
<1>3. /\ Entries(es) /\ Len(es) = 3 /\ \A i \in 1..3 : es[i].turn = t
      /\ es[1].kind = "user" /\ es[2].kind = "run" /\ es[3].kind = "prompt"
  BY RunEntriesAre
<1> HIDE DEF p, es
<1>4. /\ Entries(b) /\ Len(b) = 3
      /\ \A i \in 1..3 : b[i].kind = es[i].kind /\ b[i].turn = t /\ b[i].request = r
  <2>1. /\ Entries(b) /\ Len(b) = Len(es)
        /\ \A i \in 1..Len(es) : /\ b[i].kind = es[i].kind /\ b[i].turn = es[i].turn
                                 /\ b[i].request = r
    BY <1>3, ByAre
  <2> HIDE DEF b
  <2> QED BY <1>3, <2>1
<1> HIDE DEF b
<1>5. /\ Entries(x) /\ Len(x) = k + 3
      /\ \A i \in 1..k : x[i] = c[i]
      /\ \A i \in 1..3 : x[k + i] = b[i]
  <2>1. Entries(p) /\ Entries(b) BY <1>2, <1>4
  <2>2. /\ Entries(x) /\ Len(x) = Len(p) + Len(b)
        /\ \A i \in 1..Len(p) : x[i] = p[i]
        /\ \A i \in 1..Len(b) : x[Len(p) + i] = b[i]
    BY <2>1, ConcatAre
  <2> HIDE DEF x
  <2> QED BY <1>2, <1>4, <2>2
<1> HIDE DEF x
<1>6. \A i \in 1..(k + 3) : i \in 1..k \/ i = k + 1 \/ i = k + 2 \/ i = k + 3
  OBVIOUS
<1>7. \A i \in 1..3 : x[k + i].kind = es[i].kind /\ x[k + i].turn = t /\ x[k + i].request = r
  BY <1>4, <1>5
<1>8. \A i \in 1..k : i \in 1..L /\ x[i].turn = c[i].turn /\ c[i].turn < t
  BY <1>1, <1>2, <1>5
<1>9. /\ x[k + 1].kind = "user" /\ x[k + 2].kind = "run" /\ x[k + 3].kind = "prompt"
      /\ \A i \in (k + 1)..(k + 3) : x[i].turn = t /\ x[i].request = r
  <2>1. 1 \in 1..3 /\ 2 \in 1..3 /\ 3 \in 1..3 OBVIOUS
  <2>2. \A i \in (k + 1)..(k + 3) : i - k \in 1..3 /\ k + (i - k) = i OBVIOUS
  <2> QED BY <1>3, <1>7, <2>1, <2>2
<1>10. \A i \in 1..(k + 3) : i \in 1..k \/ i \in (k + 1)..(k + 3) OBVIOUS
<1>11. \A i, j \in 1..Len(x) : i < j => x[i].turn <= x[j].turn
  <2> SUFFICES ASSUME NEW i \in 1..(k + 3), NEW j \in 1..(k + 3), i < j
               PROVE  x[i].turn <= x[j].turn
    BY <1>5
  <2>1. CASE j \in 1..k
    <3>1. i \in 1..k BY <2>1
    <3>2. c[i].turn <= c[j].turn BY <1>1, <1>8, <2>1, <3>1 DEF InOrder
    <3> QED BY <1>8, <2>1, <3>1, <3>2
  <2>2. CASE j \in (k + 1)..(k + 3)
    <3>1. CASE i \in 1..k
      <4>1. c[i].turn \in Nat BY <1>1, <1>8, <3>1
      <4> QED BY <1>0, <1>8, <1>9, <2>2, <3>1, <4>1
    <3>2. CASE i \in (k + 1)..(k + 3) BY <1>0, <1>9, <2>2, <3>2
    <3> QED BY <1>10, <3>1, <3>2
  <2> QED BY <1>10, <2>1, <2>2
<1>12. RunsWhole(x)
  <2>1. DOMAIN x = 1..(k + 3) BY <1>5, EntriesAre
  <2> SUFFICES ASSUME NEW i \in 1..(k + 3), x[i].kind = "user"
               PROVE  \E m, q \in 1..(k + 3) :
                          /\ x[m].turn = x[i].turn /\ x[m].kind = "run"
                          /\ x[q].turn = x[i].turn /\ x[q].kind \notin {"user", "run"}
    BY <2>1 DEF RunsWhole
  <2>2. CASE i \in 1..k
    <3>1. i \in 1..L /\ x[i] = c[i] /\ c[i].turn < t BY <1>5, <1>8, <2>2
    <3>2. PICK m, q \in 1..L : /\ c[m].turn = c[i].turn /\ c[m].kind = "run"
                               /\ c[q].turn = c[i].turn /\ c[q].kind \notin {"user", "run"}
      BY <1>1, <3>1 DEF RunsWhole
    <3>3. m \in 1..k /\ q \in 1..k BY <1>2, <3>1, <3>2
    <3>4. x[m] = c[m] /\ x[q] = c[q] BY <1>5, <3>3
    <3>5. m \in 1..(k + 3) /\ q \in 1..(k + 3) BY <3>3
    <3> QED BY <3>1, <3>2, <3>4, <3>5
  <2>3. CASE i \in (k + 1)..(k + 3)
    <3>1. k + 2 \in (k + 1)..(k + 3) /\ k + 3 \in (k + 1)..(k + 3)
          /\ k + 2 \in 1..(k + 3) /\ k + 3 \in 1..(k + 3)
      OBVIOUS
    <3>2. x[k + 3].kind \notin {"user", "run"} BY <1>9
    <3>3. x[k + 2].turn = x[i].turn /\ x[k + 3].turn = x[i].turn BY <1>9, <2>3, <3>1
    <3> QED BY <1>9, <3>1, <3>2, <3>3
  <2> QED BY <1>10, <2>2, <2>3
<1>13. /\ IsHistory(d) /\ Len(d) = k + 3 /\ Last(d).seq = k + 3
       /\ Last(d).turn = t /\ Last(d).request = r
       /\ \A i \in 1..(k + 3) : /\ d[i].kind = x[i].kind /\ d[i].turn = x[i].turn
                                /\ d[i].request = x[i].request
  <2>1. Len(x) > 0 BY <1>5
  <2>2. /\ IsHistory(d) /\ Len(d) = Len(x)
        /\ Last(d).seq = Len(x)
        /\ Last(d).turn = x[Len(x)].turn /\ Last(d).request = x[Len(x)].request
        /\ \A i \in 1..Len(x) : /\ d[i].kind = x[i].kind /\ d[i].turn = x[i].turn
                                /\ d[i].request = x[i].request
    BY <1>5, <1>11, <1>12, <2>1, Replaced
  <2>3. k + 3 \in (k + 1)..(k + 3) OBVIOUS
  <2> HIDE DEF d
  <2> QED BY <1>5, <1>9, <2>2, <2>3
<1> HIDE DEF d
<1>14. \A i \in 1..(k + 3) : d[i].turn = t => d[i].request = r
  <2> TAKE i \in 1..(k + 3)
  <2>1. CASE i \in 1..k
    <3>1. d[i].turn = c[i].turn /\ c[i].turn < t /\ c[i].turn \in Nat
      BY <1>1, <1>8, <1>13, <2>1
    <3> QED BY <1>0, <3>1
  <2>2. CASE i \in (k + 1)..(k + 3) BY <1>9, <1>13, <2>2
  <2> QED BY <1>10, <2>1, <2>2
<1>15. EndFits(d, "open") /\ Active(d)
  <2>1. \A i \in 1..k : d[i].turn # t
    <3> TAKE i \in 1..k
    <3>1. i \in 1..(k + 3) OBVIOUS
    <3>2. d[i].turn = c[i].turn /\ c[i].turn < t /\ c[i].turn \in Nat
      BY <1>1, <1>8, <1>13, <3>1
    <3> QED BY <1>0, <3>2
  <2>2. k + 1 \in 1..(k + 3) /\ k + 2 \in 1..(k + 3) /\ k + 3 \in 1..(k + 3)
        /\ k + 1 \in (k + 1)..(k + 3)
    OBVIOUS
  <2>3. /\ d[k + 1].kind = "user" /\ d[k + 2].kind = "run" /\ d[k + 3].kind = "prompt"
        /\ d[k + 1].turn = t
    BY <1>9, <1>13, <2>2
  <2>4. Entries(d) BY <1>13 DEF IsHistory
  <2> QED BY <1>13, <2>1, <2>3, <2>4, RunIsOpen
<1>16. ASSUME Last(c).turn # t PROVE Last(d).seq < Last(c).seq
  <2>1. PICK m, q \in 1..L : /\ c[m].turn = t /\ c[m].kind = "run"
                             /\ c[q].turn = t /\ c[q].kind \notin {"user", "run"}
    BY <1>1 DEF RunsWhole
  <2>2. u # m /\ u # q /\ m # q /\ u # L /\ m # L /\ q # L
    BY <1>1, <1>16, <2>1
  <2>3. ~(c[u].turn < t) /\ ~(c[m].turn < t) /\ ~(c[q].turn < t)
    BY <1>0, <2>1
  <2>4. ~(u <= k) /\ ~(m <= k) /\ ~(q <= k)
    BY <1>2, <2>1, <2>3
  <2>5. L >= k + 4
    <3>1. L \in Nat /\ u \in 1..L /\ m \in 1..L /\ q \in 1..L BY <1>1
    <3> HIDE DEF L
    <3>2. /\ u \in Nat /\ m \in Nat /\ q \in Nat
          /\ u > k /\ m > k /\ q > k /\ u < L /\ m < L /\ q < L
      BY <2>2, <2>4, <3>1
    <3> QED BY <2>2, <3>1, <3>2, FourApart
  <2>6. Last(c).seq \in Nat /\ Last(c).seq >= L
    BY <1>1, LastIsHighest
  <2> QED BY <1>1, <1>13, <2>5, <2>6
<1>17. Last(d).seq \in Nat /\ Len(d) > 0 BY <1>13
<1>18. /\ Len(x) = Len(d) /\ Len(x) \in Nat
       /\ \A i \in 1..Len(x) : d[i].turn = x[i].turn
       /\ \A i \in 1..Len(d) : d[i].turn = t => d[i].request = r
  BY <1>5, <1>13, <1>14
<1>19. IsEdit(x, d, c, t, r) BY <1>5, <1>13, <1>15, <1>16, <1>17, <1>18 DEF IsEdit
<1> QED BY <1>19 DEF d, x, p, b, es, Edit

\* The state of a replacement: its counters start again.
LEMMA ReplacedState ==
  ASSUME NEW x, NEW d, Entries(x), Len(x) = Len(d), Len(x) \in Nat, IsHistory(d), Len(d) > 0,
         \A i \in 1..Len(x) : d[i].turn = x[i].turn,
         NEW s, IsState(s),
         NEW w, w = WithNumbers(s, Len(x) + 1, maxHistoryTurnSeq(x) + 1)
  PROVE  IsState(w) /\ w.turn = s.turn /\ w.request = s.request /\ w.status = s.status
<1> DEFINE n == Len(x) + 1
           m == maxHistoryTurnSeq(x) + 1
<1>1. DOMAIN x = 1..Len(x) /\ DOMAIN d = 1..Len(x)
  BY EntriesAre DEF IsHistory
<1>2. {x[i].turn : i \in DOMAIN x} = {d[i].turn : i \in DOMAIN d}
  BY <1>1
<1>3. maxHistoryTurnSeq(x) = Last(d).turn /\ Last(d).turn \in 1..MaxTurn
  <2>1. maxHistoryTurnSeq(x) = maxHistoryTurnSeq(d) BY <1>2 DEF maxHistoryTurnSeq
  <2> QED BY <2>1, LastIsHighest DEF IsHistory
<1>4. n \in Nat /\ m \in Nat
  <2>1. MaxTurn \in Nat BY ConversationStoreAssumption
  <2> QED BY <1>3, <2>1
<1> HIDE DEF n, m
<1>5. w = [version |-> s.version, nextSeq |-> n, nextTurn |-> m, turn |-> s.turn,
           request |-> s.request, status |-> s.status]
  <2>1. w = WithNumbers(s, n, m) BY DEF n, m
  <2> QED BY <2>1, StateNumbered DEF IsState
<1> QED BY <1>4, <1>5 DEF IsState, IsRecord

LEMMA RunReplaced ==
  ASSUME HistoryInv, NEW t \in 1..MaxTurn, HasUserEntry(StoredEntries, t), NEW r \in Nat,
         ReplaceEntries(Edit(context, t, r), WithCurrent(LoadConversation, t, r)),
         outcome' = "open"
  PROVE  /\ HistoryInv' /\ saving' # NoState
         /\ Last(context').turn = t /\ Last(context').request = r
         /\ (StateInv /\ (~paired => contextVersionForEntries(context') # state.version))
                => StateInv'
<1> DEFINE l == LoadConversation
           x == Edit(context, t, r)
           d == numbered(x, 1)
           s == WithCurrent(l, t, r)
           w == WithNumbers(s, Len(x) + 1, maxHistoryTurnSeq(x) + 1)
<1>1. saving = NoState /\ WriteConversation(d, w)
  BY DEF ReplaceEntries, WithNumbers, WriteConversation
<1>2. state # NoState /\ \E u \in DOMAIN context : context[u].turn = t /\ context[u].kind = "user"
  <2>1. PICK u \in DOMAIN StoredEntries : /\ StoredEntries[u].turn = t
                                          /\ StoredEntries[u].kind = "user"
    BY DEF HasUserEntry, KindsOf
  <2>2. state # NoState
    <3> SUFFICES ASSUME state = NoState PROVE FALSE OBVIOUS
    <3>1. StoredEntries = <<>> BY LoadedFresh
    <3>2. DOMAIN <<>> = {} OBVIOUS
    <3> QED BY <2>1, <3>1, <3>2
  <2> QED BY <2>1, <2>2 DEF StoredEntries
<1>3. PICK u \in DOMAIN context : context[u].turn = t /\ context[u].kind = "user"
  BY <1>2
<1>4. IsHistory(context) /\ u \in 1..Len(context)
  <2>1. IsHistory(context) BY DEF HistoryInv
  <2> QED BY <2>1, EntriesAre DEF IsHistory
<1>5. IsEdit(x, d, context, t, r) BY <1>3, <1>4, Edited
<1> HIDE DEF x
<1>6. IsState(l) BY <1>1, <1>2, Loaded
<1> HIDE DEF l
<1>7. IsState(s) /\ s.turn = t /\ s.request = r /\ s.status = "running"
  <2>1. s = [version |-> l.version, nextSeq |-> l.nextSeq, nextTurn |-> l.nextTurn,
             turn |-> t, request |-> r, status |-> "running"]
    BY <1>6, StateCurrent DEF IsState
  <2>2. t \in Nat BY ConversationStoreAssumption
  <2> HIDE DEF s
  <2> QED BY <1>6, <2>1, <2>2 DEF IsState, IsRecord
<1> HIDE DEF s, d
<1>8. /\ IsHistory(d) /\ Len(d) > 0 /\ Last(d).turn = t /\ Last(d).request = r
      /\ Last(d).seq \in Nat /\ EndFits(d, "open") /\ Active(d)
      /\ \A i \in 1..Len(d) : d[i].turn = t => d[i].request = r
      /\ Last(context).turn # t => Last(d).seq < Last(context).seq
  BY <1>5 DEF IsEdit
<1>9. IsState(w) /\ w.turn = t /\ w.request = r /\ w.status = "running"
  <2>1. IsState(w) /\ w.turn = s.turn /\ w.request = s.request /\ w.status = s.status
    <3>1. /\ Entries(x) /\ Len(x) = Len(d) /\ Len(x) \in Nat
          /\ \A i \in 1..Len(x) : d[i].turn = x[i].turn
      BY <1>5 DEF IsEdit
    <3> HIDE DEF w
    <3>2. w = WithNumbers(s, Len(x) + 1, maxHistoryTurnSeq(x) + 1) BY DEF w
    <3>3. IsHistory(d) /\ Len(d) > 0 /\ IsState(s) BY <1>7, <1>8
    <3> QED BY <3>1, <3>2, <3>3, ReplacedState
  <2> HIDE DEF w
  <2> QED BY <1>7, <2>1
<1> HIDE DEF w
<1>10. HistoryInv' /\ saving' # NoState /\ context' = d
  BY <1>1, <1>8, <1>9, HistoryWritten
<1>11. ASSUME StateInv, ~paired => contextVersionForEntries(context') # state.version
       PROVE  StateInv'
  <2>1. Names(w, d) BY <1>8, <1>9 DEF Names
  <2>2. Credible(state, d, "open")
    <3> SUFFICES ASSUME state.version = Last(d).seq
                 PROVE  /\ HasRequestEntry(d, state.turn, state.request) => Names(state, d)
                        /\ state.status \in LiveStatus \/ Active(d)
      BY DEF Credible
    <3>1. paired
      <4>1. contextVersionForEntries(d) = Last(d).seq BY <1>8, LastIsHighest DEF IsHistory
      <4>2. paired \in BOOLEAN BY DEF HistoryInv
      <4> QED BY <1>10, <1>11, <4>1, <4>2
    <3>2. Fits(state, context, outcome) BY <1>2, <1>11, <3>1 DEF StateInv
    <3>3. Last(context).turn = t
      <4>1. state.version = Last(context).seq BY <3>2 DEF Fits
      <4> QED BY <1>8, <4>1
    <3>4. state.turn = t BY <3>2, <3>3 DEF Fits, Names
    <3>5. ASSUME HasRequestEntry(d, state.turn, state.request) PROVE Names(state, d)
      <4>1. PICK i \in DOMAIN d : d[i].turn = t /\ d[i].request = state.request
        BY <3>4, <3>5 DEF HasRequestEntry
      <4>2. i \in 1..Len(d) BY <1>8, EntriesAre DEF IsHistory
      <4> QED BY <1>8, <3>4, <4>1, <4>2 DEF Names
    <3> QED BY <1>8, <3>5
  <2> QED BY <1>1, <1>8, <1>9, <2>1, <2>2, StateWritten
<1> QED BY <1>8, <1>10, <1>11

-----------------------------------------------------------------------------
(* A compacted history                                                     *)

\* What is kept of a turn: entries of that turn, never its end, and the run
\* of every message that is kept.
LEMMA PreservedAre ==
  ASSUME NEW c, IsHistory(c), NEW t
  PROVE  LET p == preservedOfCurrentTurn(c, t)
         IN  /\ Entries(p)
             /\ \A j \in 1..Len(p) : /\ p[j].turn = t
                                     /\ p[j].kind \in {"user", "run", "call", "result"}
                                     /\ p[j].kind = "user" =>
                                          \E i \in 1..Len(p) : p[i].kind = "run"
<1> DEFINE latest == latestCompletedCall(c, t)
           kept == {i \in DOMAIN c :
                      /\ c[i].turn = t
                      /\ \/ c[i].kind \in {"user", "run"}
                         \/ c[i].kind \in {"call", "result"} /\ c[i].call = latest}
           p == preservedOfCurrentTurn(c, t)
           S == {c[i] : i \in DOMAIN c}
<1>1. p = entriesAt(c, kept)
  BY DEF preservedOfCurrentTurn
<1> DEFINE L == Len(c)
<1>2. /\ Entries(c) /\ RunsWhole(c) /\ c \in Seq(S) /\ DOMAIN c = 1..L
      /\ \A i \in 1..L : IsEntry(c[i])
  <2>1. Entries(c) /\ RunsWhole(c) BY DEF IsHistory
  <2> QED BY <2>1, EntriesAre DEF Entries
<1>3. \A i \in kept : /\ i \in 1..L /\ c[i].turn = t
                      /\ c[i].kind \in {"user", "run", "call", "result"}
  BY <1>2
<1>4. \A i \in 1..L : c[i].turn = t /\ c[i].kind = "run" => i \in kept
  BY <1>2
<1> HIDE DEF kept, p, S
<1>5. /\ p \in Seq(S)
      /\ \A j \in 1..Len(p) : \E i \in kept : i \in 1..L /\ p[j] = c[i]
      /\ \A i \in kept : i \in 1..L => \E j \in 1..Len(p) : p[j] = c[i]
  <2> DEFINE q == entriesAt(c, kept)
  <2>1. c \in Seq(S) BY <1>2
  <2>2. /\ q \in Seq(S)
        /\ \A j \in 1..Len(q) : \E i \in kept : i \in 1..Len(c) /\ q[j] = c[i]
        /\ \A i \in kept : i \in 1..Len(c) => \E j \in 1..Len(q) : q[j] = c[i]
    BY <2>1, EntriesAtFacts
  <2>3. q = p BY <1>1
  <2> HIDE DEF q
  <2> QED BY <2>2, <2>3
<1> HIDE DEF L
<1>6. Len(p) \in Nat /\ p = [j \in 1..Len(p) |-> p[j]] BY <1>5
<1>7. p \in Seq({p[j] : j \in DOMAIN p}) /\ DOMAIN p = 1..Len(p) BY <1>6, SequenceOf
<1>8. \A j \in 1..Len(p) : /\ IsEntry(p[j]) /\ p[j].turn = t
                           /\ p[j].kind \in {"user", "run", "call", "result"}
  BY <1>2, <1>3, <1>5
<1>9. ASSUME NEW j \in 1..Len(p), p[j].kind = "user"
      PROVE  \E i \in 1..Len(p) : p[i].kind = "run"
  <2>1. PICK u \in kept : u \in 1..L /\ p[j] = c[u] BY <1>5
  <2>2. c[u].kind = "user" /\ c[u].turn = t BY <1>3, <1>9, <2>1
  <2>3. PICK m \in 1..L : c[m].turn = c[u].turn /\ c[m].kind = "run"
    BY <1>2, <2>1, <2>2 DEF RunsWhole
  <2>4. m \in kept BY <1>4, <2>2, <2>3
  <2>5. PICK i \in 1..Len(p) : p[i] = c[m] BY <1>5, <2>4
  <2> QED BY <2>3, <2>5
<1>10. Entries(p) BY <1>7, <1>8 DEF Entries
<1> QED BY <1>8, <1>9, <1>10 DEF p

Compact(c, r, plan) == By(r, buildCompactedContextEntries(c, plan))

IsCompact(x, d, t, r) ==
    /\ Entries(x) /\ Len(x) = Len(d) /\ Len(x) \in Nat
    /\ \A i \in 1..Len(x) : d[i].turn = x[i].turn
    /\ IsHistory(d) /\ Len(d) > 0
    /\ \A i \in 1..Len(d) : d[i].turn = t /\ d[i].request = r
    /\ Last(d).turn = t /\ Last(d).request = r /\ EndFits(d, "open")

LEMMA CompactedIs ==
  ASSUME NEW c, IsHistory(c), NEW plan, NEW t, plan.turn = t, t \in 1..MaxTurn, NEW r \in Nat
  PROVE  IsCompact(Compact(c, r, plan), numbered(Compact(c, r, plan), 1), t, r)
<1> DEFINE e == newCompactionSummaryEntry(plan)
           p == IF plan.manual THEN <<>> ELSE preservedOfCurrentTurn(c, t)
           y == <<e>> \o p
           x == By(r, y)
           d == numbered(x, 1)
<1>1. IsEntry(e) /\ e.kind = "summary" /\ e.turn = t
  <2>1. Entry("summary", t) = [kind |-> "summary", turn |-> t, request |-> 0, call |-> NoCall,
                               covers |-> Nothing, policy |-> "none", seq |-> 0]
    BY DEF Entry
  <2>2. e = [Entry("summary", t) EXCEPT !.covers = plan.covers]
    BY DEF newCompactionSummaryEntry
  <2> DEFINE v == plan.covers
             z == Entry("summary", t)
  <2> HIDE DEF v, z
  <2>3. [z EXCEPT !.covers = v]
          = [kind |-> "summary", turn |-> t, request |-> 0, call |-> NoCall,
             covers |-> v, policy |-> "none", seq |-> 0]
    BY <2>1 DEF z
  <2>4. e = [kind |-> "summary", turn |-> t, request |-> 0, call |-> NoCall,
             covers |-> v, policy |-> "none", seq |-> 0]
    BY <2>2, <2>3 DEF v, z
  <2> HIDE DEF e
  <2> QED BY <2>4 DEF IsEntry, EntryKinds
<1>2. /\ Entries(p) /\ Len(p) \in Nat
      /\ \A j \in 1..Len(p) : /\ p[j].turn = t
                              /\ p[j].kind \in {"user", "run", "call", "result"}
                              /\ p[j].kind = "user" =>
                                    \E i \in 1..Len(p) : p[i].kind = "run"
  <2>1. CASE plan.manual
    <3>1. p = <<>> BY <2>1
    <3>2. Entries(<<>>) /\ Len(<<>>) = 0 BY EmptyIsHistory DEF IsHistory
    <3> QED BY <3>1, <3>2
  <2>2. CASE ~plan.manual
    <3>1. p = preservedOfCurrentTurn(c, t) BY <2>2
    <3> HIDE DEF p
    <3>2. /\ Entries(p)
          /\ \A j \in 1..Len(p) : /\ p[j].turn = t
                                  /\ p[j].kind \in {"user", "run", "call", "result"}
                                  /\ p[j].kind = "user" =>
                                        \E i \in 1..Len(p) : p[i].kind = "run"
      BY <3>1, PreservedAre
    <3> QED BY <3>2, EntriesAre
  <2> QED BY <2>1, <2>2
<1>3. Compact(c, r, plan) = x
  BY DEF Compact, buildCompactedContextEntries
<1> HIDE DEF e, p
<1>4. Entries(<<e>>) /\ Len(<<e>>) = 1 /\ <<e>>[1] = e
  BY <1>1, OneEntry
<1>5. /\ Entries(y) /\ Len(y) = 1 + Len(p) /\ y[1] = e
      /\ \A i \in 1..Len(p) : y[1 + i] = p[i]
  <2> DEFINE o == <<e>>
  <2>1. Len(o) = 1 /\ o[1] = e BY <1>4
  <2>5. Entries(o) /\ Entries(p) BY <1>2, <1>4
  <2> HIDE DEF o
  <2>2. /\ Entries(o \o p) /\ Len(o \o p) = Len(o) + Len(p)
        /\ \A i \in 1..Len(o) : (o \o p)[i] = o[i]
        /\ \A i \in 1..Len(p) : (o \o p)[Len(o) + i] = p[i]
    BY <2>5, ConcatAre
  <2>3. y = o \o p BY DEF o
  <2> HIDE DEF y
  <2>4. 1 \in 1..Len(o) BY <2>1
  <2> QED BY <2>1, <2>2, <2>3, <2>4, <2>5
<1> HIDE DEF y
<1> DEFINE N == Len(y)
<1>6. N \in Nat /\ N > 0 /\ \A i \in 1..N : i = 1 \/ (i - 1 \in 1..Len(p) /\ 1 + (i - 1) = i)
  BY <1>2, <1>5
<1>7. \A i \in 1..N : /\ y[i].turn = t
                      /\ y[i].kind \in {"summary", "user", "run", "call", "result"}
  <2> TAKE i \in 1..N
  <2>1. CASE i = 1 BY <1>1, <1>5, <2>1
  <2>2. CASE i # 1
    <3>1. i - 1 \in 1..Len(p) /\ y[i] = p[i - 1] BY <1>5, <1>6, <2>2
    <3> QED BY <1>2, <3>1
  <2> QED BY <2>1, <2>2
<1>8. /\ Entries(x) /\ Len(x) = N
      /\ \A i \in 1..N : x[i].kind = y[i].kind /\ x[i].turn = t /\ x[i].request = r
  <2>1. /\ Entries(x) /\ Len(x) = Len(y)
        /\ \A i \in 1..Len(y) : /\ x[i].kind = y[i].kind /\ x[i].turn = y[i].turn
                                /\ x[i].request = r
    BY <1>5, ByAre
  <2> HIDE DEF x
  <2> QED BY <1>7, <2>1
<1> HIDE DEF x
<1>9. RunsWhole(x)
  <2>1. DOMAIN x = 1..N BY <1>8, EntriesAre
  <2> SUFFICES ASSUME NEW i \in 1..N, x[i].kind = "user"
               PROVE  \E m, q \in 1..N :
                          /\ x[m].turn = x[i].turn /\ x[m].kind = "run"
                          /\ x[q].turn = x[i].turn /\ x[q].kind \notin {"user", "run"}
    BY <2>1 DEF RunsWhole
  <2>2. y[i].kind = "user" BY <1>8
  <2>3. i # 1 BY <1>1, <1>5, <2>2
  <2>4. i - 1 \in 1..Len(p) /\ y[i] = p[i - 1] BY <1>5, <1>6, <2>3
  <2>5. PICK j \in 1..Len(p) : p[j].kind = "run" BY <1>2, <2>2, <2>4
  <2>6. 1 + j \in 1..N /\ y[1 + j].kind = "run" BY <1>2, <1>5, <2>5
  <2>7. 1 \in 1..N /\ y[1].kind = "summary" BY <1>1, <1>5, <1>6
  <2>8. x[1].kind \notin {"user", "run"} BY <1>8, <2>7
  <2> HIDE DEF N
  <2> QED BY <1>8, <2>6, <2>7, <2>8
<1>10. /\ IsHistory(d) /\ Len(d) = N
       /\ \A i \in 1..N : /\ d[i].kind = x[i].kind /\ d[i].turn = t /\ d[i].request = r
       /\ Last(d).turn = t /\ Last(d).request = r
  <2>1. \A i, j \in 1..Len(x) : i < j => x[i].turn <= x[j].turn
    <3>1. t \in Nat BY ConversationStoreAssumption
    <3> QED BY <1>8, <3>1
  <2>2. Len(x) > 0 BY <1>6, <1>8
  <2>3. /\ IsHistory(d) /\ Len(d) = Len(x)
        /\ Last(d).turn = x[Len(x)].turn /\ Last(d).request = x[Len(x)].request
        /\ \A i \in 1..Len(x) : /\ d[i].kind = x[i].kind /\ d[i].turn = x[i].turn
                                /\ d[i].request = x[i].request
    BY <1>8, <1>9, <2>1, <2>2, Replaced
  <2> HIDE DEF d, N
  <2>4. N \in 1..N BY <1>6
  <2> QED BY <1>8, <2>3, <2>4
<1> HIDE DEF d
<1>11. EndFits(d, "open")
  <2>1. DOMAIN d = 1..N BY <1>10, EntriesAre DEF IsHistory
  <2>2. \A i \in 1..N : d[i].kind \notin EndKinds BY <1>7, <1>8, <1>10 DEF EndKinds
  <2>3. Ends(d) = {} BY <2>1, <2>2 DEF Ends
  <2> QED BY <2>3 DEF EndFits
<1> HIDE DEF N
<1>12. IsCompact(x, d, t, r)
  BY <1>6, <1>8, <1>10, <1>11 DEF IsCompact
<1> QED BY <1>3, <1>12 DEF d

LEMMA Compacted ==
  ASSUME HistoryInv, ActorInv, actor.pc = "summarizing",
         ReplaceEntries(Compact(context, actor.request, actor.plan), LoadConversation),
         outcome' = outcome
  PROVE  /\ HistoryInv' /\ saving' # NoState /\ Names(actor, context')
         /\ StateInv => StateInv'
<1> DEFINE l == LoadConversation
           t == actor.turn
           r == actor.request
           x == Compact(context, r, actor.plan)
           d == numbered(x, 1)
           w == WithNumbers(l, Len(x) + 1, maxHistoryTurnSeq(x) + 1)
<1>1. saving = NoState /\ WriteConversation(d, w)
  BY DEF ReplaceEntries, WithNumbers, WriteConversation
<1>2. /\ state # NoState /\ paired /\ outcome = "open" /\ Names(actor, context)
      /\ r \in Nat /\ actor.plan.turn = t
  BY <1>1 DEF ActorInv, IsActor, Idle
<1>3. IsHistory(context) /\ Len(context) > 0
  BY <1>2, EntriesAre DEF HistoryInv, IsHistory
<1>4. t \in 1..MaxTurn
  <2>1. Last(context).turn \in 1..MaxTurn BY <1>3, LastIsHighest DEF IsHistory
  <2> QED BY <1>2, <2>1 DEF Names
<1>5. IsCompact(x, d, t, r)
  <2> DEFINE plan == actor.plan
  <2>1. plan.turn = t BY <1>2
  <2> HIDE DEF t, r, plan
  <2>2. IsCompact(Compact(context, r, plan), numbered(Compact(context, r, plan), 1), t, r)
    BY <1>2, <1>3, <1>4, <2>1, CompactedIs
  <2> QED BY <2>2 DEF plan
<1>6. /\ IsState(l)
      /\ StateInv => Names(l, context) /\ l.status \in StatusOf(outcome)
  BY <1>1, <1>2, Loaded
<1> HIDE DEF x, d, l
<1>7. IsState(w) /\ w.turn = l.turn /\ w.request = l.request /\ w.status = l.status
  <2>1. /\ Entries(x) /\ Len(x) = Len(d) /\ Len(x) \in Nat
        /\ \A i \in 1..Len(x) : d[i].turn = x[i].turn
        /\ IsHistory(d) /\ Len(d) > 0
    BY <1>5 DEF IsCompact
  <2> HIDE DEF w
  <2>2. w = WithNumbers(l, Len(x) + 1, maxHistoryTurnSeq(x) + 1) BY DEF w
  <2> QED BY <1>6, <2>1, <2>2, ReplacedState
<1> HIDE DEF w
<1>8. /\ IsHistory(d) /\ Len(d) > 0 /\ Last(d).turn = t /\ Last(d).request = r
      /\ EndFits(d, "open") /\ \A i \in 1..Len(d) : d[i].turn = t /\ d[i].request = r
  BY <1>5 DEF IsCompact
<1>9. HistoryInv' /\ saving' # NoState /\ context' = d
  BY <1>1, <1>2, <1>7, <1>8, HistoryWritten
<1>10. Names(actor, context') BY <1>8, <1>9 DEF Names
<1>11. ASSUME StateInv PROVE StateInv'
  <2>1. Names(w, d) BY <1>2, <1>6, <1>7, <1>8, <1>11 DEF Names
  <2>2. w.status \in LiveStatus BY <1>2, <1>6, <1>7, <1>11 DEF StatusOf
  <2>3. Credible(state, d, "open")
    <3>1. Fits(state, context, "open") BY <1>2, <1>11 DEF StateInv
    <3>2. Names(state, d) BY <1>2, <1>8, <3>1 DEF Fits, Names
    <3>3. state.status \in LiveStatus BY <3>1 DEF Fits, StatusOf
    <3> QED BY <3>2, <3>3 DEF Credible
  <2> QED BY <1>1, <1>2, <1>7, <1>8, <2>1, <2>2, <2>3, StateWritten
<1> QED BY <1>9, <1>10, <1>11

-----------------------------------------------------------------------------
(* The steps                                                               *)

StoreInv == HistoryInv /\ ActorInv /\ BoundsInv

(* The versions of a context and of a state file are compared to see       *)
(* whether they belong together.  A history that is replaced is numbered   *)
(* from one again, so the version of an edited context can be, by          *)
(* coincidence, the one an older state file names; VersionsTell is that an *)
(* edit which finds such a leftover state file does not hit its version.   *)
VersionsTell ==
    (\E turn \in 1..MaxTurn : EditMessage(turn)) /\ ~paired
        => contextVersionForEntries(context') # state.version

Keeps == StoreInv' /\ (StateInv /\ VersionsTell => StateInv')

LEMMA BoundsAre ==
  /\ DOMAIN Bounds = {"pass", "call", "upset"}
  /\ \A b \in DOMAIN Bounds : Bounds[b] \in Nat
BY ConversationStoreAssumption DEF Bounds

LEMMA UseKeeps ==
  ASSUME BoundsInv, NEW bound \in {"pass", "call", "upset"}, Use(bound), accepted' \subseteq 1..MaxTurn
  PROVE  BoundsInv' /\ used' \in [{"pass", "call", "upset"} -> Nat]
<1> DEFINE B == {"pass", "call", "upset"}
<1>1. DOMAIN Bounds = B /\ \A b \in B : Bounds[b] \in Nat BY BoundsAre
<1>2. used \in [B -> Nat] /\ \A b \in B : used[b] <= Bounds[b] BY <1>1 DEF BoundsInv
<1>3. used[bound] < Bounds[bound] /\ used' = [used EXCEPT ![bound] = used[bound] + 1]
  BY DEF Use
<1>4. bound \in B OBVIOUS
<1> HIDE DEF B
<1>5. used' \in [B -> Nat] BY <1>2, <1>3, <1>4
<1>6. \A b \in B : used'[b] <= Bounds[b]
  <2> TAKE b \in B
  <2>1. CASE b = bound
    <3>1. used'[b] = used[b] + 1 BY <1>2, <1>3, <2>1
    <3>2. used[b] \in Nat /\ Bounds[b] \in Nat BY <1>1, <1>2
    <3> QED BY <1>3, <2>1, <3>1, <3>2
  <2>2. CASE b # bound BY <1>2, <1>3, <2>2
  <2> QED BY <2>1, <2>2
<1>7. BoundsInv' BY <1>1, <1>5, <1>6 DEF BoundsInv
<1> QED BY <1>5, <1>7 DEF B

LEMMA NoActorIs ==
  /\ IsActor(NoActor) /\ NoActor.pc = "none"
  /\ \A pc \in Idle : LET a == [NoActor EXCEPT !.pc = pc] IN IsActor(a) /\ a.pc = pc
<1>1. MaxTurn \in Nat BY ConversationStoreAssumption
<1> QED BY <1>1 DEF NoActor, IsActor, Idle

\* The fields a step sets, and the ones that tell which turn writes.
SameTurn(a, b) ==
    DOMAIN a = DOMAIN b /\ a.turn = b.turn /\ a.request = b.request

LEMMA ActorTurn ==
  ASSUME HistoryInv, ActorInv, actor.pc \notin Idle
  PROVE  actor.turn \in 1..MaxTurn
<1>1. outcome = "open" /\ Names(actor, context) BY DEF ActorInv
<1>2. IsHistory(context) /\ context # <<>> BY <1>1 DEF HistoryInv
<1>3. Len(context) > 0 BY <1>2, EntriesAre DEF IsHistory
<1>4. Last(context).turn \in 1..MaxTurn BY <1>2, <1>3, LastIsHighest DEF IsHistory
<1> QED BY <1>1, <1>4 DEF Names

\* A step that writes one entry of the turn and lets the turn go on or ends it.
LEMMA OneStep ==
  ASSUME StoreInv, actor.pc \notin Idle, BoundsInv',
         NEW e, IsEntry(e), e.turn = actor.turn, e.kind # "user", AppendEntries(<<e>>),
         \/ /\ e.kind \notin EndKinds /\ outcome' = "open"
            /\ SameTurn(actor', actor) /\ IsActor(actor')
            /\ actor'.pc \in {"hook", "summarizing"} => actor'.plan.turn = actor'.turn
         \/ /\ e.kind \in EndKinds /\ outcome' = e.kind
            /\ actor'.pc \in Idle /\ IsActor(actor')
  PROVE  Keeps
<1>1. /\ HistoryInv' /\ saving' # NoState /\ Names(actor, context')
      /\ StateInv => StateInv'
  BY OneAppended DEF StoreInv
<1>2. outcome' # "none" /\ IsActor(actor') BY DEF EndKinds
<1>3. actor'.pc \notin Idle => outcome' = "open" /\ Names(actor', context')
  BY <1>1 DEF SameTurn, Names
<1>4. actor'.pc \in {"hook", "summarizing"} => actor'.plan.turn = actor'.turn
  BY DEF Idle
<1>5. ActorInv' BY <1>1, <1>2, <1>3, <1>4 DEF ActorInv
<1> QED BY <1>1, <1>5 DEF StoreInv, Keeps

\* A step that writes nothing.
LEMMA QuietStep ==
  ASSUME StoreInv, actor.pc \notin Idle, saving = NoState, BoundsInv',
         UNCHANGED <<context, paired, state, saving, outcome>>,
         SameTurn(actor', actor), IsActor(actor'),
         actor'.pc \in {"hook", "summarizing"} => actor'.plan.turn = actor'.turn
  PROVE  Keeps
<1>1. HistoryInv' BY DEF StoreInv, HistoryInv
<1>2. StateInv => StateInv' BY DEF StateInv
<1>3. outcome = "open" /\ Names(actor, context) /\ paired /\ state # NoState
  BY DEF StoreInv, ActorInv, Idle
<1>4. outcome' = "open" /\ Names(actor', context') /\ paired' /\ state' # NoState
  BY <1>3 DEF Names, SameTurn
<1>5. ActorInv' BY <1>4 DEF ActorInv
<1> QED BY <1>1, <1>2, <1>5 DEF StoreInv, Keeps

LEMMA WriteStateKeeps ==
  ASSUME StoreInv, WriteState
  PROVE  Keeps
<1>1. /\ saving # NoState /\ state' = saving /\ saving' = NoState /\ paired' = TRUE
      /\ actor' = IF actor.pc = "ending" THEN NoActor ELSE actor
      /\ UNCHANGED <<context, accepted, answered, outcome, used>>
  BY DEF WriteState
<1>2. HistoryInv' BY <1>1 DEF StoreInv, HistoryInv
<1>3. BoundsInv' BY <1>1 DEF StoreInv, BoundsInv
<1>4. ActorInv'
  <2>1. CASE actor.pc = "ending"
    <3>1. actor' = NoActor BY <1>1, <2>1
    <3> QED BY <3>1, NoActorIs DEF ActorInv, Idle
  <2>2. CASE actor.pc # "ending"
    <3>1. actor' = actor BY <1>1, <2>2
    <3> QED BY <1>1, <3>1 DEF StoreInv, ActorInv, Names
  <2> QED BY <2>1, <2>2
<1>5. ASSUME StateInv PROVE StateInv'
  <2>1. Fits(saving, context, outcome) BY <1>1, <1>5 DEF StateInv
  <2>2. Credible(saving, context, outcome)
    BY <2>1 DEF Fits, Credible, StatusOf
  <2> QED BY <1>1, <2>1, <2>2 DEF StateInv
<1> QED BY <1>2, <1>3, <1>4, <1>5 DEF StoreInv, Keeps

LEMMA StartIs ==
  ASSUME NEW t \in 1..MaxTurn, NEW r \in Nat, NEW manual
  PROVE  LET a == Start(t, r, manual)
         IN  IsActor(a) /\ a.pc = "ready" /\ a.turn = t /\ a.request = r
<1>1. MaxTurn \in Nat BY ConversationStoreAssumption
<1> QED BY <1>1 DEF Start, NoActor, IsActor, Idle

\* A run that has been stored is the one that writes.
LEMMA StartedKeeps ==
  ASSUME HistoryInv', BoundsInv', saving' # NoState, outcome' = "open",
         NEW t \in 1..MaxTurn, NEW r \in Nat, NEW manual, actor' = Start(t, r, manual),
         Last(context').turn = t, Last(context').request = r
  PROVE  StoreInv'
<1>1. IsActor(actor') /\ actor'.pc = "ready" /\ actor'.turn = t /\ actor'.request = r
  BY StartIs
<1>2. ActorInv' BY <1>1 DEF ActorInv, Names
<1> QED BY <1>2 DEF StoreInv

LEMMA RunKeeps ==
  ASSUME StoreInv, NEW manual \in BOOLEAN, Run(manual)
  PROVE  Keeps
<1> DEFINE t == LoadConversation.nextTurn
           r == RequestNow
<1>1. /\ t <= MaxTurn /\ SaveConversationWithEntries(buildRunEntries(t), t, r)
      /\ actor' = Start(t, r, manual)
      /\ accepted' = (IF manual THEN accepted ELSE accepted \cup {t})
      /\ outcome' = "open" /\ used' = used
  BY DEF Run
<1>2. r \in Nat
  <2>1. used \in [{"pass", "call", "upset"} -> Nat] BY BoundsAre DEF StoreInv, BoundsInv
  <2> QED BY <2>1 DEF RequestNow
<1> HIDE DEF t, r
<1>3. /\ HistoryInv' /\ saving' # NoState
      /\ Last(context').turn = t /\ Last(context').request = r /\ t \in 1..MaxTurn
      /\ StateInv => StateInv'
  BY <1>1, <1>2, RunAppended DEF t, StoreInv
<1>4. BoundsInv' BY <1>1, <1>3 DEF StoreInv, BoundsInv
<1>5. StoreInv' BY <1>1, <1>2, <1>3, <1>4, StartedKeeps
<1> QED BY <1>3, <1>5 DEF Keeps

LEMMA EditKeeps ==
  ASSUME StoreInv, NEW turn \in 1..MaxTurn, EditMessage(turn)
  PROVE  Keeps
<1> DEFINE found == HasUserEntry(StoredEntries, turn)
           t == IF found THEN turn ELSE LoadConversation.nextTurn
           r == RequestNow'
<1>1. /\ t <= MaxTurn /\ Use("upset") /\ turn \in accepted
      /\ actor' = Start(t, r, FALSE) /\ outcome' = "open"
      /\ found => /\ ReplaceEntries(Edit(context, turn, r),
                                    WithCurrent(LoadConversation, turn, r))
                  /\ accepted' = {a \in accepted : a <= turn}
      /\ ~found => /\ SaveConversationWithEntries(buildRunEntries(t), t, r)
                   /\ accepted' = accepted \cup {t}
  BY DEF EditMessage, Edit, WithCurrent
<1>2. r \in Nat /\ used' \in [{"pass", "call", "upset"} -> Nat]
  <2>1. used \in [{"pass", "call", "upset"} -> Nat] BY BoundsAre DEF StoreInv, BoundsInv
  <2>2. used' = [used EXCEPT !["upset"] = used["upset"] + 1] BY <1>1 DEF Use
  <2>3. used' \in [{"pass", "call", "upset"} -> Nat] BY <2>1, <2>2
  <2>4. r = used'.upset BY DEF RequestNow
  <2> HIDE DEF r
  <2> QED BY <2>3, <2>4
<1> HIDE DEF r, found
<1>3. /\ HistoryInv' /\ saving' # NoState
      /\ Last(context').turn = t /\ Last(context').request = r /\ t \in 1..MaxTurn
      /\ StateInv /\ VersionsTell => StateInv'
  <2>1. CASE found
    <3>1. t = turn BY <2>1
    <3>2. VersionsTell => (~paired => contextVersionForEntries(context') # state.version)
      BY DEF VersionsTell
    <3>3. HasUserEntry(StoredEntries, turn) BY <2>1 DEF found
    <3>4. /\ HistoryInv' /\ saving' # NoState
          /\ Last(context').turn = turn /\ Last(context').request = r
          /\ (StateInv /\ (~paired => contextVersionForEntries(context') # state.version))
                => StateInv'
      BY <1>1, <1>2, <2>1, <3>3, RunReplaced DEF StoreInv
    <3> QED BY <3>1, <3>2, <3>4
  <2>2. CASE ~found
    <3>1. t = LoadConversation.nextTurn BY <2>2
    <3> HIDE DEF t
    <3>2. /\ HistoryInv' /\ saving' # NoState
          /\ Last(context').turn = t /\ Last(context').request = r /\ t \in 1..MaxTurn
          /\ StateInv => StateInv'
      BY <1>1, <1>2, <2>2, <3>1, RunAppended DEF StoreInv
    <3> QED BY <3>2
  <2> QED BY <2>1, <2>2
<1> HIDE DEF t
<1>4. accepted' \subseteq 1..MaxTurn
  <2>1. accepted \subseteq 1..MaxTurn BY DEF StoreInv, BoundsInv
  <2>2. CASE found BY <1>1, <2>1, <2>2
  <2>3. CASE ~found BY <1>1, <1>3, <2>1, <2>3
  <2> QED BY <2>2, <2>3
<1>5. BoundsInv' BY <1>1, <1>4, UseKeeps DEF StoreInv
<1>6. StoreInv' BY <1>1, <1>2, <1>3, <1>5, StartedKeeps
<1> QED BY <1>3, <1>6 DEF Keeps

LEMMA SameBounds ==
  ASSUME BoundsInv, accepted' \subseteq accepted, used' = used
  PROVE  BoundsInv'
BY DEF BoundsInv

(* Steps that write nothing.                                               *)
LEMMA QuietKeeps ==
  ASSUME StoreInv, StartPass \/ BeginCompaction \/ PassDone
  PROVE  Keeps
<1>1. /\ IsActor(actor) /\ BoundsInv /\ accepted \subseteq 1..MaxTurn
  BY DEF StoreInv, ActorInv, BoundsInv
<1>2. CASE StartPass
  <2>1. /\ actor.pc = "ready" /\ saving = NoState /\ Use("pass")
        /\ actor' = [actor EXCEPT !.pc = "streaming", !.pass = used.pass + 1,
                                  !.text = FALSE, !.called = FALSE]
        /\ UNCHANGED <<context, paired, state, saving, accepted, answered, outcome>>
    BY <1>2 DEF StartPass, Streaming
  <2>2. BoundsInv' BY <1>1, <2>1, UseKeeps
  <2>3. IsActor(actor') /\ SameTurn(actor', actor) /\ actor'.pc = "streaming"
    BY <1>1, <2>1 DEF IsActor, SameTurn
  <2>4. actor.pc \notin Idle BY <2>1 DEF Idle
  <2> QED BY <2>1, <2>2, <2>3, <2>4, QuietStep
<1>3. CASE BeginCompaction
  <2>1. /\ actor.pc = "ready" /\ saving = NoState /\ Use("upset")
        /\ actor' = [actor EXCEPT !.pc = "hook",
                       !.plan = buildCompactionPlan(context, actor.turn, actor.manual)]
        /\ UNCHANGED <<context, paired, state, saving, accepted, answered, outcome>>
    BY <1>3 DEF BeginCompaction
  <2>2. BoundsInv' BY <1>1, <2>1, UseKeeps
  <2>3. IsActor(actor') /\ SameTurn(actor', actor) /\ actor'.pc = "hook"
    BY <1>1, <2>1 DEF IsActor, SameTurn
  <2>4. actor'.plan.turn = actor'.turn
    <3>1. actor'.plan = buildCompactionPlan(context, actor.turn, actor.manual)
      BY <1>1, <2>1 DEF IsActor
    <3>2. buildCompactionPlan(context, actor.turn, actor.manual).turn = actor.turn
      BY DEF buildCompactionPlan
    <3> QED BY <2>3, <3>1, <3>2 DEF SameTurn
  <2>5. actor.pc \notin Idle BY <2>1 DEF Idle
  <2> QED BY <2>1, <2>2, <2>3, <2>4, <2>5, QuietStep
<1>4. CASE PassDone
  <2>1. /\ actor.pc = "streaming" /\ saving = NoState
        /\ actor' = [actor EXCEPT !.pc = IF openCalls(context, actor.turn) = {}
                                         THEN "ready" ELSE "waiting"]
        /\ UNCHANGED <<context, paired, state, saving, accepted, answered, outcome, used>>
    BY <1>4 DEF PassDone
  <2>2. BoundsInv' BY <1>1, <2>1, SameBounds
  <2>3. IsActor(actor') /\ SameTurn(actor', actor) /\ actor'.pc \in {"ready", "waiting"}
    BY <1>1, <2>1 DEF IsActor, SameTurn
  <2>4. actor.pc \notin Idle BY <2>1 DEF Idle
  <2> QED BY <2>1, <2>2, <2>3, <2>4, QuietStep
<1> QED BY <1>2, <1>3, <1>4

(* Steps that write one entry, and let the turn go on.                     *)
LEMMA PlainEntry ==
  ASSUME StoreInv, actor.pc \notin Idle, NEW k \in {"text", "note", "done", "failed"}
  PROVE  /\ IsEntry(Entry(k, actor.turn)) /\ Entry(k, actor.turn).turn = actor.turn
         /\ Entry(k, actor.turn).kind = k
<1>1. actor.turn \in 1..MaxTurn BY ActorTurn DEF StoreInv
<1>2. k \in EntryKinds /\ k # "call" BY DEF EntryKinds
<1> QED BY <1>1, <1>2, EntryIs

LEMMA CallEntryIs ==
  ASSUME StoreInv, actor.pc \notin Idle, NEW k \in {"call", "result"},
         NEW call, call.turn = actor.turn
  PROVE  /\ IsEntry(CallEntry(k, call)) /\ CallEntry(k, call).turn = actor.turn
         /\ CallEntry(k, call).kind = k
<1> DEFINE t == actor.turn
<1>1. t \in 1..MaxTurn BY ActorTurn DEF StoreInv
<1>2. t \in Nat /\ 0 \in Nat BY <1>1, ConversationStoreAssumption
<1>3. CallEntry(k, call) = [Entry(k, t) EXCEPT !.call = call] BY DEF CallEntry
<1>4. Entry(k, t) = [kind |-> k, turn |-> t, request |-> 0, call |-> NoCall,
                     covers |-> Nothing, policy |-> "none", seq |-> 0]
  BY DEF Entry
<1> DEFINE e == Entry(k, t)
<1> HIDE DEF e, t
<1>5. [e EXCEPT !.call = call]
        = [kind |-> k, turn |-> t, request |-> 0, call |-> call,
           covers |-> Nothing, policy |-> "none", seq |-> 0]
  BY <1>4 DEF e
<1>6. CallEntry(k, call)
        = [kind |-> k, turn |-> t, request |-> 0, call |-> call,
           covers |-> Nothing, policy |-> "none", seq |-> 0]
  BY <1>3, <1>5 DEF e
<1>7. k \in EntryKinds /\ call.turn = t BY DEF EntryKinds, t
<1> HIDE DEF CallEntry
<1>8. IsEntry(CallEntry(k, call)) /\ CallEntry(k, call).turn = t /\ CallEntry(k, call).kind = k
  BY <1>1, <1>2, <1>6, <1>7 DEF IsEntry
<1> QED BY <1>8 DEF t

LEMMA MovesOnKeeps ==
  ASSUME StoreInv, actor.pc \notin Idle, BoundsInv', UNCHANGED outcome,
         NEW e, IsEntry(e), e.turn = actor.turn, e.kind \in {"text", "note", "call", "result"},
         AppendEntries(<<e>>), SameTurn(actor', actor), IsActor(actor'),
         actor'.pc \in {"hook", "summarizing"} => actor'.plan.turn = actor'.turn
  PROVE  Keeps
<1>1. outcome' = "open" BY DEF StoreInv, ActorInv
<1>2. e.kind \notin EndKinds /\ e.kind # "user" BY DEF EndKinds
<1> QED BY <1>1, <1>2, OneStep

LEMMA NoteKeeps ==
  ASSUME StoreInv,
         NothingToCompact \/ flushAssistantText \/ HookDone \/ SummaryFails
            \/ publishSummaryCompleted
  PROVE  Keeps
<1>1. IsActor(actor) /\ BoundsInv BY DEF StoreInv, ActorInv
<1>2. CASE NothingToCompact
  <2>1. /\ actor.pc = "ready" /\ AppendEntries(<<Entry("note", actor.turn)>>)
        /\ actor' = [actor EXCEPT !.pc = IF actor.manual THEN "closing" ELSE "failing"]
        /\ UNCHANGED <<accepted, answered, outcome, used>>
    BY <1>2 DEF NothingToCompact
  <2>2. IsActor(actor') /\ SameTurn(actor', actor) /\ actor'.pc \in {"closing", "failing"}
    BY <1>1, <2>1 DEF IsActor, SameTurn
  <2>3. actor.pc \notin Idle /\ BoundsInv' BY <1>1, <2>1, SameBounds DEF Idle
  <2> QED BY <2>1, <2>2, <2>3, PlainEntry, MovesOnKeeps
<1>3. CASE flushAssistantText
  <2>1. /\ actor.pc = "streaming" /\ AppendEntries(<<Entry("text", actor.turn)>>)
        /\ actor' = [actor EXCEPT !.text = TRUE]
        /\ UNCHANGED <<accepted, answered, outcome, used>>
    BY <1>3 DEF flushAssistantText
  <2>2. IsActor(actor') /\ SameTurn(actor', actor) /\ actor'.pc = "streaming"
    BY <1>1, <2>1 DEF IsActor, SameTurn
  <2>3. actor.pc \notin Idle /\ BoundsInv' BY <1>1, <2>1, SameBounds DEF Idle
  <2> QED BY <2>1, <2>2, <2>3, PlainEntry, MovesOnKeeps
<1>4. CASE HookDone
  <2>1. /\ actor.pc = "hook" /\ AppendEntries(<<Entry("note", actor.turn)>>)
        /\ actor' = [actor EXCEPT !.pc = "summarizing"]
        /\ UNCHANGED <<accepted, answered, outcome, used>>
    BY <1>4 DEF HookDone
  <2>2. IsActor(actor') /\ SameTurn(actor', actor) /\ actor'.plan = actor.plan
    BY <1>1, <2>1 DEF IsActor, SameTurn
  <2>3. actor.pc \notin Idle /\ BoundsInv' BY <1>1, <2>1, SameBounds DEF Idle
  <2>4. actor'.plan.turn = actor'.turn
    <3>1. actor.plan.turn = actor.turn BY <2>1 DEF StoreInv, ActorInv
    <3> QED BY <2>2, <3>1 DEF SameTurn
  <2> QED BY <2>1, <2>2, <2>3, <2>4, PlainEntry, MovesOnKeeps
<1>5. CASE SummaryFails
  <2>1. /\ actor.pc = "summarizing" /\ AppendEntries(<<Entry("note", actor.turn)>>)
        /\ actor' = [actor EXCEPT !.pc = "failing"]
        /\ UNCHANGED <<accepted, answered, outcome, used>>
    BY <1>5 DEF SummaryFails
  <2>2. IsActor(actor') /\ SameTurn(actor', actor) /\ actor'.pc = "failing"
    BY <1>1, <2>1 DEF IsActor, SameTurn
  <2>3. actor.pc \notin Idle /\ BoundsInv' BY <1>1, <2>1, SameBounds DEF Idle
  <2> QED BY <2>1, <2>2, <2>3, PlainEntry, MovesOnKeeps
<1>6. CASE publishSummaryCompleted
  <2>1. /\ actor.pc = "compacted" /\ AppendEntries(<<Entry("note", actor.turn)>>)
        /\ actor' = [actor EXCEPT !.pc = IF actor.manual THEN "closing" ELSE "ready"]
        /\ UNCHANGED <<accepted, answered, outcome, used>>
    BY <1>6 DEF publishSummaryCompleted
  <2>2. IsActor(actor') /\ SameTurn(actor', actor) /\ actor'.pc \in {"closing", "ready"}
    BY <1>1, <2>1 DEF IsActor, SameTurn
  <2>3. actor.pc \notin Idle /\ BoundsInv' BY <1>1, <2>1, SameBounds DEF Idle
  <2> QED BY <2>1, <2>2, <2>3, PlainEntry, MovesOnKeeps
<1> QED BY <1>2, <1>3, <1>4, <1>5, <1>6

LEMMA CallKeeps ==
  ASSUME StoreInv,
         ToolCompleted \/ \E call \in openCalls(context, actor.turn) : ToolResult(call)
  PROVE  Keeps
<1>1. IsActor(actor) /\ BoundsInv /\ accepted \subseteq 1..MaxTurn
  BY DEF StoreInv, ActorInv, BoundsInv
<1>2. CASE ToolCompleted
  <2> DEFINE call == [turn |-> actor.turn, pass |-> actor.pass, n |-> used.call + 1,
                      image |-> used.call + 1 \in ImageCalls]
  <2>1. /\ actor.pc = "streaming" /\ Use("call") /\ AppendEntries(<<CallEntry("call", call)>>)
        /\ actor' = [actor EXCEPT !.called = TRUE, !.text = FALSE]
        /\ UNCHANGED <<accepted, answered, outcome>>
    BY <1>2 DEF ToolCompleted
  <2>2. call.turn = actor.turn OBVIOUS
  <2> HIDE DEF call
  <2>3. IsActor(actor') /\ SameTurn(actor', actor) /\ actor'.pc = "streaming"
    BY <1>1, <2>1 DEF IsActor, SameTurn
  <2>4. actor.pc \notin Idle BY <2>1 DEF Idle
  <2>5. BoundsInv' BY <1>1, <2>1, UseKeeps
  <2> QED BY <2>1, <2>2, <2>3, <2>4, <2>5, CallEntryIs, MovesOnKeeps
<1>3. ASSUME NEW call \in openCalls(context, actor.turn), ToolResult(call) PROVE Keeps
  <2>1. /\ actor.pc \in {"streaming", "waiting"} /\ AppendEntries(<<CallEntry("result", call)>>)
        /\ actor' = (IF actor.pc = "waiting" /\ openCalls(context, actor.turn) = {call}
                     THEN [actor EXCEPT !.pc = "ready"] ELSE actor)
        /\ UNCHANGED <<accepted, outcome, used>>
    BY <1>3 DEF ToolResult
  <2>2. call.turn = actor.turn
    <3>1. PICK i \in DOMAIN context : /\ context[i].turn = actor.turn /\ context[i].kind = "call"
                                     /\ call = context[i].call
      BY <1>3 DEF openCalls
    <3>2. IsEntry(context[i]) BY DEF StoreInv, HistoryInv, IsHistory, Entries
    <3> QED BY <3>1, <3>2 DEF IsEntry
  <2>3. IsActor(actor') /\ SameTurn(actor', actor) /\ actor'.pc \in {"streaming", "waiting", "ready"}
    <3>1. CASE actor.pc = "waiting" /\ openCalls(context, actor.turn) = {call}
      <4>1. actor' = [actor EXCEPT !.pc = "ready"] BY <2>1, <3>1
      <4> QED BY <1>1, <4>1 DEF IsActor, SameTurn
    <3>2. CASE ~(actor.pc = "waiting" /\ openCalls(context, actor.turn) = {call})
      <4>1. actor' = actor BY <2>1, <3>2
      <4> QED BY <1>1, <2>1, <4>1 DEF SameTurn
    <3> QED BY <3>1, <3>2
  <2>4. actor.pc \notin Idle BY <2>1 DEF Idle
  <2>5. BoundsInv' BY <1>1, <2>1, SameBounds
  <2> QED BY <2>1, <2>2, <2>3, <2>4, <2>5, CallEntryIs, MovesOnKeeps
<1> QED BY <1>2, <1>3

(* Steps that end the turn.                                                *)
LEMMA EndKeeps ==
  ASSUME StoreInv, Complete \/ Fail
  PROVE  Keeps
<1>1. PICK k \in {"done", "failed"} :
         /\ actor.pc \in {"streaming", "closing", "failing"}
         /\ AppendEntries(<<Entry(k, actor.turn)>>)
         /\ actor' = [NoActor EXCEPT !.pc = "ending"] /\ outcome' = k
         /\ UNCHANGED <<accepted, answered, used>>
  BY DEF Complete, Fail, End
<1>2. actor.pc \notin Idle BY <1>1 DEF Idle
<1>3. BoundsInv' BY <1>1, SameBounds DEF StoreInv
<1>4. IsActor(actor') /\ actor'.pc \in Idle
  BY <1>1, NoActorIs DEF Idle
<1>5. k \in EndKinds BY DEF EndKinds
<1>6. /\ IsEntry(Entry(k, actor.turn)) /\ Entry(k, actor.turn).turn = actor.turn
      /\ Entry(k, actor.turn).kind = k
  BY <1>2, PlainEntry
<1> QED BY <1>1, <1>2, <1>3, <1>4, <1>5, <1>6, OneStep

LEMMA ControlEntryIs ==
  ASSUME NEW t \in 1..MaxTurn, NEW policy
  PROVE  /\ IsEntry(ControlEntry(t, policy)) /\ ControlEntry(t, policy).turn = t
         /\ ControlEntry(t, policy).kind = "canceled"
<1>1. t \in Nat BY ConversationStoreAssumption
<1>2. ControlEntry(t, policy) = [Entry("canceled", t) EXCEPT !.policy = policy]
  BY DEF ControlEntry
<1>3. Entry("canceled", t) = [kind |-> "canceled", turn |-> t, request |-> 0, call |-> NoCall,
                              covers |-> Nothing, policy |-> "none", seq |-> 0]
  BY DEF Entry
<1> DEFINE e == Entry("canceled", t)
<1> HIDE DEF e
<1>4. [e EXCEPT !.policy = policy]
        = [kind |-> "canceled", turn |-> t, request |-> 0, call |-> NoCall,
           covers |-> Nothing, policy |-> policy, seq |-> 0]
  BY <1>3 DEF e
<1>5. ControlEntry(t, policy)
        = [kind |-> "canceled", turn |-> t, request |-> 0, call |-> NoCall,
           covers |-> Nothing, policy |-> policy, seq |-> 0]
  BY <1>2, <1>4 DEF e
<1> QED BY <1>1, <1>5 DEF IsEntry, EntryKinds

LEMMA CancelKeeps ==
  ASSUME StoreInv, Stop \/ Supersede
  PROVE  Keeps
<1>1. PICK policy \in {"keep_stable_input", "drop_unstarted_turn"},
           pc \in {"ending", "starting"} :
         /\ actor.pc \notin Idle /\ Use("upset")
         /\ AppendEntries(<<ControlEntry(actor.turn, policy)>>)
         /\ actor' = [NoActor EXCEPT !.pc = pc] /\ outcome' = "canceled"
         /\ accepted' \subseteq accepted
  BY DEF Stop, Supersede, Cancel, Idle
<1>2. BoundsInv'
  <2>1. accepted' \subseteq 1..MaxTurn BY <1>1 DEF StoreInv, BoundsInv
  <2> QED BY <1>1, <2>1, UseKeeps DEF StoreInv
<1>3. IsActor(actor') /\ actor'.pc \in Idle
  <2>1. pc \in Idle BY DEF Idle
  <2> QED BY <1>1, <2>1, NoActorIs
<1>4. /\ IsEntry(ControlEntry(actor.turn, policy))
      /\ ControlEntry(actor.turn, policy).turn = actor.turn
      /\ ControlEntry(actor.turn, policy).kind = "canceled"
  BY <1>1, ActorTurn, ControlEntryIs DEF StoreInv
<1>5. "canceled" \in EndKinds BY DEF EndKinds
<1> QED BY <1>1, <1>2, <1>3, <1>4, <1>5, OneStep

LEMMA CompactionKeeps ==
  ASSUME StoreInv, applyCompactionPlan
  PROVE  Keeps
<1>1. /\ actor.pc = "summarizing"
      /\ ReplaceEntries(Compact(context, actor.request, actor.plan), LoadConversation)
      /\ actor' = [actor EXCEPT !.pc = "compacted"]
      /\ UNCHANGED <<accepted, answered, outcome, used>>
  BY DEF applyCompactionPlan, Compact
<1>2. /\ HistoryInv' /\ saving' # NoState /\ Names(actor, context')
      /\ StateInv => StateInv'
  BY <1>1, Compacted DEF StoreInv
<1>3. BoundsInv' BY <1>1, SameBounds DEF StoreInv
<1>4. IsActor(actor') /\ SameTurn(actor', actor) /\ actor'.pc = "compacted"
  BY <1>1 DEF StoreInv, ActorInv, IsActor, SameTurn
<1>5. outcome' = "open" BY <1>1 DEF StoreInv, ActorInv, Idle
<1>6. ActorInv' BY <1>2, <1>4, <1>5 DEF ActorInv, Names, SameTurn
<1> QED BY <1>2, <1>3, <1>6 DEF StoreInv, Keeps

(* The crash.                                                              *)
LEMMA CrashKeeps ==
  ASSUME StoreInv, Crash
  PROVE  Keeps
<1>1. /\ Use("upset") /\ saving' = NoState /\ actor' = NoActor
      /\ accepted' = (IF state = NoState THEN {} ELSE accepted)
      /\ outcome' = (IF state = NoState THEN "none" ELSE outcome)
      /\ UNCHANGED <<context, paired, state>>
  BY DEF Crash
<1>2. HistoryInv'
  <2>1. CASE state = NoState
    <3>1. outcome' = "none" /\ state' = NoState BY <1>1, <2>1
    <3> QED BY <1>1, <3>1 DEF StoreInv, HistoryInv
  <2>2. CASE state # NoState
    <3>1. outcome' = outcome /\ state' # NoState BY <1>1, <2>2
    <3> QED BY <1>1, <2>2, <3>1 DEF StoreInv, HistoryInv
  <2> QED BY <2>1, <2>2
<1>3. BoundsInv'
  <2>1. accepted' \subseteq 1..MaxTurn BY <1>1 DEF StoreInv, BoundsInv
  <2> QED BY <1>1, <2>1, UseKeeps DEF StoreInv
<1>4. ActorInv' BY <1>1, NoActorIs DEF ActorInv, Idle
<1>5. StateInv => StateInv'
  <2>1. CASE state = NoState BY <1>1, <2>1 DEF StateInv
  <2>2. CASE state # NoState BY <1>1, <2>2 DEF StateInv
  <2> QED BY <2>1, <2>2
<1> QED BY <1>2, <1>3, <1>4, <1>5 DEF StoreInv, Keeps

LEMMA StoreStep ==
  ASSUME StoreInv, [Next]_vars
  PROVE  Keeps
<1>1. CASE UNCHANGED vars
  <2>1. UNCHANGED <<context, paired, state, saving, actor, accepted, answered, outcome, used>>
    BY <1>1 DEF vars
  <2>2. HistoryInv' BY <2>1 DEF StoreInv, HistoryInv
  <2>3. ActorInv' BY <2>1 DEF StoreInv, ActorInv, Names
  <2>4. BoundsInv' BY <2>1, SameBounds DEF StoreInv
  <2>5. StateInv => StateInv' BY <2>1 DEF StateInv
  <2> QED BY <2>2, <2>3, <2>4, <2>5 DEF StoreInv, Keeps
<1>2. CASE Next
  <2>1. CASE WriteState BY <2>1, WriteStateKeeps
  <2>2. CASE \E manual \in BOOLEAN : Run(manual) BY <2>2, RunKeeps
  <2>3. CASE \E turn \in 1..MaxTurn : EditMessage(turn) BY <2>3, EditKeeps
  <2>4. CASE Stop \/ Supersede BY <2>4, CancelKeeps
  <2>5. CASE StartPass \/ BeginCompaction \/ PassDone BY <2>5, QuietKeeps
  <2>6. CASE NothingToCompact \/ flushAssistantText \/ HookDone \/ SummaryFails
                \/ publishSummaryCompleted
    BY <2>6, NoteKeeps
  <2>7. CASE ToolCompleted \/ \E call \in openCalls(context, actor.turn) : ToolResult(call)
    BY <2>7, CallKeeps
  <2>8. CASE Complete \/ Fail BY <2>8, EndKeeps
  <2>9. CASE applyCompactionPlan BY <2>9, CompactionKeeps
  <2>10. CASE Crash BY <2>10, CrashKeeps
  <2> QED BY <1>2, <2>1, <2>2, <2>3, <2>4, <2>5, <2>6, <2>7, <2>8, <2>9, <2>10 DEF Next
<1> QED BY <1>1, <1>2

LEMMA StoreInit ==
  ASSUME Init
  PROVE  StoreInv /\ StateInv
<1>1. HistoryInv BY EmptyIsHistory DEF Init, HistoryInv
<1>2. ActorInv BY NoActorIs DEF Init, ActorInv, Idle
<1>3. BoundsInv
  <2>1. used = [b \in DOMAIN Bounds |-> 0] /\ accepted = {} BY DEF Init
  <2> QED BY <2>1, BoundsAre DEF BoundsInv
<1>4. StateInv BY DEF Init, StateInv
<1> QED BY <1>1, <1>2, <1>3, <1>4 DEF StoreInv

LEMMA StoreInvIsType ==
  ASSUME StoreInv
  PROVE  TypeOK
<1>1. IsHistory(context) BY DEF StoreInv, HistoryInv
<1>2. \A i \in DOMAIN context :
         /\ context[i].kind \in EntryKinds
         /\ context[i].turn \in 1..MaxTurn
         /\ context[i].seq \in Nat \ {0}
  <2> TAKE i \in DOMAIN context
  <2>1. IsEntry(context[i]) /\ context[i].seq >= i BY <1>1 DEF IsHistory, Entries, InOrder
  <2>2. i \in 1..Len(context) /\ Len(context) \in Nat BY <1>1, EntriesAre DEF IsHistory
  <2> QED BY <2>1, <2>2 DEF IsEntry
<1>3. \A s : IsState(s) => DOMAIN s = DOMAIN NoState
  BY DEF IsState, IsRecord, NoState
<1>4. DOMAIN state = DOMAIN NoState /\ DOMAIN saving = DOMAIN NoState
  BY <1>3 DEF StoreInv, HistoryInv
<1>5. actor.pc \in {"none", "starting", "ready", "streaming", "waiting", "hook",
                    "summarizing", "compacted", "closing", "failing", "ending"}
  BY DEF StoreInv, ActorInv, IsActor, Idle
<1>6. accepted \subseteq 1..MaxTurn /\ \A b \in DOMAIN Bounds : used[b] \in 0..Bounds[b]
  <2>1. used \in [DOMAIN Bounds -> Nat] /\ \A b \in DOMAIN Bounds : used[b] <= Bounds[b]
    BY DEF StoreInv, BoundsInv
  <2> QED BY <2>1, BoundsAre DEF StoreInv, BoundsInv
<1> QED BY <1>2, <1>4, <1>5, <1>6 DEF TypeOK

LEMMA StateInvTells ==
  ASSUME StoreInv, StateInv
  PROVE  ReloadIsTruthful
<1>1. ASSUME saving = NoState, state # NoState, ~paired
      PROVE  LoadConversation.turn = Last(context).turn
             /\ LoadConversation.request = Last(context).request
  BY <1>1, Loaded DEF StoreInv, Names
<1>2. ASSUME saving = NoState, outcome # "none"
      PROVE  LoadConversation.status \in
                IF outcome = "open" THEN {"running", "waiting_tool", "idle"} ELSE {outcome}
  <2>1. state # NoState BY <1>2 DEF StoreInv, HistoryInv
  <2>2. LoadConversation.status \in StatusOf(outcome) BY <1>2, <2>1, Loaded DEF StoreInv
  <2> QED BY <2>2 DEF StatusOf, LiveStatus
<1> QED BY <1>1, <1>2 DEF ReloadIsTruthful, StaleStateIsNoticed, LoopStatusTruthful

(* The entries on disk, the state files, the turn that writes and the      *)
(* bounds keep their types through appended and replaced histories and     *)
(* crashes: every entry has a number and no counter passes its bound.      *)
THEOREM ConversationStoreTypeCorrect == Spec => []TypeOK
<1>1. Init => StoreInv BY StoreInit
<1>2. StoreInv /\ [Next]_vars => StoreInv' BY StoreStep DEF Keeps
<1>3. StoreInv => TypeOK BY StoreInvIsType
<1> QED BY <1>1, <1>2, <1>3, PTL DEF Spec

(* Whatever crashes fall between the two writes, the conversation that is  *)
(* loaded names the request that wrote last and how its turn ended.  The   *)
(* hypothesis leaves out the one coincidence the comparison of versions    *)
(* cannot tell: an edit over the leftovers of a crash whose new context    *)
(* has the very version the older state file names.                        *)
THEOREM StoreReloadsTruthfully == Spec /\ [][VersionsTell]_vars => []ReloadIsTruthful
<1>1. Init => StoreInv /\ StateInv BY StoreInit
<1>2. StoreInv /\ StateInv /\ [Next]_vars /\ [VersionsTell]_vars => (StoreInv /\ StateInv)'
  <2> SUFFICES ASSUME StoreInv, StateInv, [Next]_vars, [VersionsTell]_vars
               PROVE  StoreInv' /\ StateInv'
    OBVIOUS
  <2>1. Keeps BY StoreStep
  <2>2. CASE VersionsTell BY <2>1, <2>2 DEF Keeps
  <2>3. CASE UNCHANGED vars
    <3>1. StateInv' BY <2>3 DEF vars, StateInv
    <3> QED BY <2>1, <3>1 DEF Keeps
  <2> QED BY <2>2, <2>3
<1>3. StoreInv /\ StateInv => ReloadIsTruthful BY StateInvTells
<1> QED BY <1>1, <1>2, <1>3, PTL DEF Spec
=============================================================================
