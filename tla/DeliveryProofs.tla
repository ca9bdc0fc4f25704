-------------------------- MODULE DeliveryProofs --------------------------
(***************************************************************************)
(* Theorems about the two ends of one request id: what the client sends    *)
(* (AppendSequence) and what it is sent (StreamBroker). For every set of   *)
(* calls, number of turns and length of a turn, the messages of a client   *)
(* that starts its turns in order are handled in order and none is         *)
(* discarded; for any number of readers, streams, events and any cap, a    *)
(* reader that stays is sent the run's events without a gap, and the cap   *)
(* never costs the run its endstream.                                      *)
(***************************************************************************)
EXTENDS AppendSequence, StreamBroker, SequenceTheorems, FiniteSetTheorems,
        FunctionTheorems, WellFoundedInduction, TLAPS

-----------------------------------------------------------------------------
(* The append sequencer. *)

(* Whoever is inside has the number the state stands at, and is alone.     *)
Alone ==
    /\ \A c \in Calls : call[c].pc # "unused" => call[c].msg \in Message
    /\ \A c \in Calls : call[c].pc = "inside" => call[c].msg.seq = next
    /\ \A c, d \in Calls : call[c].pc = "inside" /\ call[d].pc = "inside"
                              => c = d

TypeInv == AppendTypeOK /\ Alone

LEMMA TypeInit == AppendInit => TypeInv
<1> SUFFICES ASSUME AppendInit PROVE TypeInv
  OBVIOUS
<1>1. [pc |-> "unused", msg |-> NoMessage, orphan |-> FALSE] \in Call
  BY DEF Call, NoMessage
<1>2. call \in [Calls -> Call] /\ \A c \in Calls : call[c].pc = "unused"
  BY <1>1 DEF AppendInit
<1>3. next \in 1..(MaxSeqno + 1) /\ turn \in 1..MaxTurns
  BY AppendAssumption DEF AppendInit
<1>4. processing <=> \E c \in Calls : call[c].pc = "inside"
  BY <1>2 DEF AppendInit
<1>5. <<>> \in Seq(Message)
  OBVIOUS
<1>6. AppendTypeOK
  BY <1>2, <1>3, <1>4, <1>5 DEF AppendInit, AppendTypeOK
<1>7. Alone
  BY <1>2 DEF Alone
<1> QED BY <1>6, <1>7 DEF TypeInv

(* A step that moves one call, away from inside or among the other places, *)
(* keeps the calls well typed.                                             *)
LEMMA CallMoves ==
    ASSUME NEW c \in Calls, NEW k \in {"waiting", "inside", "returned"},
           call \in [Calls -> Call], call' = [call EXCEPT ![c].pc = k]
    PROVE  /\ call' \in [Calls -> Call]
           /\ call'[c].pc = k /\ call'[c].msg = call[c].msg
           /\ \A d \in Calls \ {c} : call'[d] = call[d]
<1>1. [call[c] EXCEPT !.pc = k] \in Call
  BY DEF Call
<1>2. [call[c] EXCEPT !.pc = k].pc = k /\ [call[c] EXCEPT !.pc = k].msg = call[c].msg
  BY DEF Call
<1> QED BY <1>1, <1>2

LEMMA TypeStep == TypeInv /\ [AppendNext]_appendVars => TypeInv'
<1> SUFFICES ASSUME TypeInv, [AppendNext]_appendVars PROVE TypeInv'
  OBVIOUS
<1>0. call \in [Calls -> Call]
  BY DEF TypeInv, AppendTypeOK
<1>1. ASSUME NEW c \in Calls, NEW n \in 1..MaxSeqno, Send(c, n) PROVE TypeInv'
  <2> DEFINE m == [turn |-> turn, seq |-> n]
             sent == [pc |-> "waiting", msg |-> m, orphan |-> FALSE]
  <2>1. m \in Message
    BY DEF TypeInv, AppendTypeOK, Message
  <2>2. sent \in Call
    BY <2>1 DEF Call
  <2>3. sent.pc = "waiting" /\ sent.msg = m
    OBVIOUS
  <2> HIDE DEF sent, m
  <2>4. call' = [call EXCEPT ![c] = sent] /\ call[c].pc = "unused"
    BY <1>1 DEF Send, sent, m
  <2>5. /\ call' \in [Calls -> Call] /\ call'[c] = sent
        /\ \A d \in Calls \ {c} : call'[d] = call[d]
    BY <1>0, <2>2, <2>4
  <2>6. \A d \in Calls : call'[d].pc = "inside" <=> call[d].pc = "inside"
    BY <2>3, <2>4, <2>5
  <2>7. UNCHANGED <<next, processing, turn, handled, staled, expired>>
    BY <1>1 DEF Send
  <2>8. AppendTypeOK'
    BY <2>5, <2>6, <2>7 DEF TypeInv, AppendTypeOK
  <2>9. Alone'
    BY <2>1, <2>3, <2>5, <2>6, <2>7 DEF TypeInv, Alone
  <2> QED BY <2>8, <2>9 DEF TypeInv
<1>2. ASSUME NextTurn PROVE TypeInv'
  <2>1. turn' \in 1..MaxTurns
    BY <1>2, AppendAssumption DEF NextTurn, TypeInv, AppendTypeOK
  <2>2. UNCHANGED <<next, processing, call, handled, staled, expired>>
    BY <1>2 DEF NextTurn
  <2> QED BY <2>1, <2>2 DEF TypeInv, AppendTypeOK, Alone
<1>3. ASSUME NEW c \in Calls, GiveUp(c) PROVE TypeInv'
  <2>1. /\ call[c].pc = "waiting" /\ call' = [call EXCEPT ![c].pc = "returned"]
        /\ UNCHANGED <<next, processing, turn, handled, staled, expired>>
    BY <1>3 DEF GiveUp
  <2>2. /\ call' \in [Calls -> Call]
        /\ call'[c].pc = "returned" /\ call'[c].msg = call[c].msg
        /\ \A d \in Calls \ {c} : call'[d] = call[d]
    BY <1>0, <2>1, CallMoves
  <2>3. \A d \in Calls : call'[d].pc = "inside" <=> call[d].pc = "inside"
    BY <2>1, <2>2
  <2>4. AppendTypeOK'
    BY <2>1, <2>2, <2>3 DEF TypeInv, AppendTypeOK
  <2>5. Alone'
    BY <2>1, <2>2, <2>3 DEF TypeInv, Alone
  <2> QED BY <2>4, <2>5 DEF TypeInv
<1>4. ASSUME NEW c \in Calls, AnswerStale(c) PROVE TypeInv'
  <2>1. /\ call[c].pc = "waiting" /\ call' = [call EXCEPT ![c].pc = "returned"]
        /\ UNCHANGED <<next, processing, turn, handled, expired>>
        /\ staled' = staled \cup {call[c].msg}
    BY <1>4 DEF AnswerStale
  <2>2. /\ call' \in [Calls -> Call]
        /\ call'[c].pc = "returned" /\ call'[c].msg = call[c].msg
        /\ \A d \in Calls \ {c} : call'[d] = call[d]
    BY <1>0, <2>1, CallMoves
  <2>3. \A d \in Calls : call'[d].pc = "inside" <=> call[d].pc = "inside"
    BY <2>1, <2>2
  <2>4. staled' \subseteq Message
    BY <2>1 DEF TypeInv, AppendTypeOK, Alone
  <2>5. AppendTypeOK'
    BY <2>1, <2>2, <2>3, <2>4 DEF TypeInv, AppendTypeOK
  <2>6. Alone'
    BY <2>1, <2>2, <2>3 DEF TypeInv, Alone
  <2> QED BY <2>5, <2>6 DEF TypeInv
<1>5. ASSUME NEW c \in Calls, Enter(c) PROVE TypeInv'
  <2>1. /\ call[c].pc = "waiting" /\ call' = [call EXCEPT ![c].pc = "inside"]
        /\ next' = call[c].msg.seq /\ processing' = TRUE /\ ~processing
        /\ UNCHANGED <<turn, handled, staled, expired>>
    BY <1>5 DEF Enter, Admitted
  <2>2. /\ call' \in [Calls -> Call]
        /\ call'[c].pc = "inside" /\ call'[c].msg = call[c].msg
        /\ \A d \in Calls \ {c} : call'[d] = call[d]
    BY <1>0, <2>1, CallMoves
  <2>3. \A d \in Calls : call[d].pc # "inside"
    BY <2>1 DEF TypeInv, AppendTypeOK
  <2>4. \A d \in Calls : call'[d].pc = "inside" <=> d = c
    BY <2>2, <2>3
  <2>5. call[c].msg \in Message
    BY <2>1 DEF TypeInv, Alone
  <2>6. next' \in 1..(MaxSeqno + 1)
    BY <2>1, <2>5, AppendAssumption DEF Message
  <2>7. AppendTypeOK'
    BY <2>1, <2>2, <2>4, <2>6 DEF TypeInv, AppendTypeOK
  <2>8. Alone'
    BY <2>1, <2>2, <2>4, <2>5 DEF TypeInv, Alone
  <2> QED BY <2>7, <2>8 DEF TypeInv
<1>6. ASSUME NEW c \in Calls, Leave(c) PROVE TypeInv'
  <2>1. /\ call[c].pc = "inside" /\ call' = [call EXCEPT ![c].pc = "returned"]
        /\ handled' = Append(handled, call[c].msg)
        /\ UNCHANGED <<turn, staled, expired>>
    BY <1>6 DEF Leave
  <2>2. /\ call' \in [Calls -> Call]
        /\ call'[c].pc = "returned" /\ call'[c].msg = call[c].msg
        /\ \A d \in Calls \ {c} : call'[d] = call[d]
    BY <1>0, <2>1, CallMoves
  <2>3. call[c].msg \in Message /\ call[c].msg.seq = next /\ processing
    BY <2>1 DEF TypeInv, AppendTypeOK, Alone
  <2>4. next' = next + 1 /\ processing' = FALSE
    BY <1>6, <2>3 DEF Leave, NextAfterRelease
  <2>5. next' \in 1..(MaxSeqno + 1)
    BY <2>3, <2>4, AppendAssumption DEF Message
  <2>6. \A d \in Calls : call'[d].pc # "inside"
    BY <2>1, <2>2 DEF TypeInv, Alone
  <2>7. handled' \in Seq(Message)
    BY <2>1, <2>3 DEF TypeInv, AppendTypeOK
  <2>8. AppendTypeOK'
    BY <2>1, <2>2, <2>4, <2>5, <2>6, <2>7 DEF TypeInv, AppendTypeOK
  <2>9. Alone'
    BY <2>2, <2>3, <2>6 DEF TypeInv, Alone
  <2> QED BY <2>8, <2>9 DEF TypeInv
<1>7. ASSUME Expire PROVE TypeInv'
  <2>1. /\ ~processing /\ next' = 1
        /\ UNCHANGED <<processing, turn, handled, staled>> /\ expired' = TRUE
    BY <1>7 DEF Expire
  <2>2. \A c \in Calls : call'[c] =
           [call[c] EXCEPT !.orphan = @ \/ call[c].pc = "waiting"]
    BY <1>7 DEF Expire
  <2>3. \A c \in Calls : /\ call'[c] \in Call
                         /\ call'[c].pc = call[c].pc
                         /\ call'[c].msg = call[c].msg
    <3> TAKE c \in Calls
    <3>1. call[c] \in Call
      BY <1>0
    <3>2. (call[c].orphan \/ call[c].pc = "waiting") \in BOOLEAN
      OBVIOUS
    <3>3. call'[c] = [call[c] EXCEPT !.orphan = @ \/ call[c].pc = "waiting"]
      BY <2>2
    <3> QED BY <3>1, <3>2, <3>3 DEF Call
  <2>4. call' \in [Calls -> Call]
    BY <1>7, <2>3 DEF Expire
  <2>5. next' \in 1..(MaxSeqno + 1)
    BY <2>1, AppendAssumption
  <2>6. AppendTypeOK'
    BY <2>1, <2>3, <2>4, <2>5 DEF TypeInv, AppendTypeOK
  <2>7. Alone'
    BY <2>1, <2>3 DEF TypeInv, AppendTypeOK, Alone
  <2> QED BY <2>6, <2>7 DEF TypeInv
<1>8. CASE UNCHANGED appendVars
  BY <1>8 DEF appendVars, TypeInv, AppendTypeOK, Alone
<1> QED BY <1>1, <1>2, <1>3, <1>4, <1>5, <1>6, <1>7, <1>8 DEF AppendNext, Steps

(* The flag that lets one handler in at a time is set exactly while        *)
(* somebody is between Acquire and Release (append_seq.go), and the next   *)
(* number stays in its range: a lost release would shut the request id.    *)
THEOREM AppendTypeCorrect == AppendSpec => []AppendTypeOK
<1>1. TypeInv => AppendTypeOK
  BY DEF TypeInv
<1> QED BY <1>1, TypeInit, TypeStep, PTL DEF AppendSpec

-----------------------------------------------------------------------------
(* The order of the messages, for a client with OrderlyStart. The client's *)
(* side: calls under way belong to the current turn; one that brings the   *)
(* turn's first message is alone with it and the message is new, any other *)
(* follows a first message that was handled.                               *)
First == [turn |-> turn, seq |-> 1]

FirstBeforeRest ==
    \A c \in Calls : Outstanding(c) =>
        /\ call[c].msg.turn = turn
        /\ call[c].msg.seq # 1 => Handled(First)
        /\ call[c].msg.seq = 1 =>
              /\ ~Handled(First)
              /\ \A d \in Calls :
                    Outstanding(d) /\ call[d].msg.seq = 1 => d = c

(* The sequencer's side: the state stands behind the last message handled. *)
Position ==
    next > 1 => /\ Len(handled) > 0
                /\ handled[Len(handled)].seq = next - 1

(* The last message handled belongs to the latest turn seen.               *)
LatestTurn ==
    \A i \in DOMAIN handled :
        /\ handled[i].turn <= turn
        /\ handled[i].turn <= handled[Len(handled)].turn

(* With a message, all earlier ones of its turn have been handled. *)
NoGap ==
    \A i \in DOMAIN handled : \A n \in 1..handled[i].seq :
        Handled([turn |-> handled[i].turn, seq |-> n])

OrderInv ==
    /\ FirstBeforeRest
    /\ Position
    /\ LatestTurn
    /\ NoGap
    /\ InOrderOnce
    /\ NothingDiscarded

LEMMA OrderInit == AppendInit => OrderInv
<1> SUFFICES ASSUME AppendInit PROVE OrderInv
  OBVIOUS
<1>1. \A c \in Calls : ~Outstanding(c)
  BY DEF AppendInit, Outstanding
<1>2. DOMAIN handled = {} /\ next = 1 /\ staled = {}
  BY DEF AppendInit
<1> QED BY <1>1, <1>2 DEF OrderInv, FirstBeforeRest, Position, LatestTurn,
                          NoGap, InOrderOnce, NothingDiscarded

(* Appending a message to the history keeps what was there. *)
LEMMA Appended ==
    ASSUME handled \in Seq(Message), NEW m \in Message,
           handled' = Append(handled, m)
    PROVE  /\ Len(handled') = Len(handled) + 1
           /\ DOMAIN handled' = DOMAIN handled \cup {Len(handled) + 1}
           /\ DOMAIN handled = 1..Len(handled) /\ Len(handled) \in Nat
           /\ \A i \in DOMAIN handled : /\ handled'[i] = handled[i]
                                        /\ handled[i] \in Message
           /\ handled'[Len(handled) + 1] = m
           /\ \A x : (\E i \in DOMAIN handled' : handled'[i] = x) <=>
                     (x = m \/ \E i \in DOMAIN handled : handled[i] = x)
<1>1. /\ Len(handled') = Len(handled) + 1
      /\ DOMAIN handled = 1..Len(handled) /\ Len(handled) \in Nat
      /\ \A i \in DOMAIN handled : /\ handled'[i] = handled[i]
                                   /\ handled[i] \in Message
      /\ handled'[Len(handled) + 1] = m
  OBVIOUS
<1>2. DOMAIN handled' = DOMAIN handled \cup {Len(handled) + 1}
  <2>1. DOMAIN handled' = 1..Len(handled')
    OBVIOUS
  <2> QED BY <1>1, <2>1
<1> QED BY <1>1, <1>2

(* While a later message of the turn is under way, the last message        *)
(* handled belongs to the turn.                                            *)
LEMMA LastOfTurn ==
    ASSUME TypeInv, OrderInv, Handled(First)
    PROVE  /\ Len(handled) > 0
           /\ Len(handled) \in DOMAIN handled
           /\ handled[Len(handled)] \in Message
           /\ handled[Len(handled)].turn = turn
<1>1. PICK i \in DOMAIN handled : handled[i] = First
  BY DEF Handled
<1>2. handled \in Seq(Message) /\ turn \in Nat
  BY DEF TypeInv, AppendTypeOK
<1>3. DOMAIN handled = 1..Len(handled) /\ Len(handled) \in Nat
  BY <1>2
<1>4. Len(handled) > 0 /\ Len(handled) \in DOMAIN handled
  BY <1>1, <1>3
<1>5. handled[Len(handled)] \in Message
  BY <1>2, <1>4
<1>6. /\ turn <= handled[Len(handled)].turn
      /\ handled[Len(handled)].turn <= turn
  BY <1>1, <1>4 DEF OrderInv, LatestTurn, First
<1>7. handled[Len(handled)].turn \in Nat
  BY <1>5 DEF Message
<1> QED BY <1>2, <1>4, <1>5, <1>6, <1>7

(* Steps that handle no message and begin no turn: the client's side is    *)
(* kept when no call comes under way, the history's side in any case.      *)
LEMMA ClientFrame ==
    ASSUME FirstBeforeRest, UNCHANGED <<turn, handled>>,
           \A c \in Calls : Outstanding(c)' =>
              Outstanding(c) /\ call'[c].msg = call[c].msg
    PROVE  FirstBeforeRest'
BY DEF FirstBeforeRest, First, Handled

LEMMA HistoryFrame ==
    ASSUME OrderInv, UNCHANGED <<turn, handled>>
    PROVE  LatestTurn' /\ NoGap' /\ InOrderOnce'
BY DEF OrderInv, LatestTurn, NoGap, InOrderOnce, Handled

LEMMA DiscardedFrame ==
    ASSUME NothingDiscarded, UNCHANGED <<handled, staled>>
    PROVE  NothingDiscarded'
BY DEF NothingDiscarded, Handled

LEMMA SendKeepsOrder ==
    ASSUME OrderlyStart, TypeInv, OrderInv,
           NEW c \in Calls, NEW n \in 1..MaxSeqno, Send(c, n)
    PROVE  OrderInv'
<1> DEFINE m == [turn |-> turn, seq |-> n]
<1>1. /\ call[c].pc = "unused"
      /\ UNCHANGED <<next, processing, turn, handled, staled, expired>>
  BY DEF Send
<1>2. /\ call'[c].pc = "waiting" /\ call'[c].msg = m
      /\ \A d \in Calls \ {c} : call'[d] = call[d]
  BY DEF Send, TypeInv, AppendTypeOK
<1>3. IF n = 1 THEN ~Handled(m) /\ \A d \in Calls : Outstanding(d) => call[d].msg # m
      ELSE Handled([m EXCEPT !.seq = 1])
  BY DEF Send
<1>4. m.turn = turn /\ m.seq = n /\ (n = 1 => m = First)
      /\ [m EXCEPT !.seq = 1] = First
  BY DEF First
<1>5. \A d \in Calls : Outstanding(d) => call[d].msg \in Message /\ d # c
  BY <1>1 DEF TypeInv, Alone, Outstanding
<1>6. \A d \in Calls : Outstanding(d) /\ call[d].msg.seq = 1 => call[d].msg = First
  <2> TAKE d \in Calls
  <2> SUFFICES ASSUME Outstanding(d), call[d].msg.seq = 1
               PROVE  call[d].msg = First
    OBVIOUS
  <2>1. call[d].msg.turn = turn
    BY DEF OrderInv, FirstBeforeRest
  <2> QED BY <1>5, <2>1 DEF First, Message
<1> HIDE DEF m
<1>7. \A d \in Calls \ {c} : Outstanding(d)' <=> Outstanding(d)
  BY <1>2 DEF Outstanding
<1>8. First' = First /\ (Handled(First)' <=> Handled(First))
  BY <1>1 DEF First, Handled
<1>9. n = 1 => ~Handled(First) /\ \A d \in Calls : Outstanding(d) => call[d].msg.seq # 1
  BY <1>3, <1>4, <1>6
<1>10. n # 1 => Handled(First)
  BY <1>3, <1>4
<1>11. FirstBeforeRest'
  <2>1. /\ call'[c].msg.turn = turn
        /\ call'[c].msg.seq # 1 => Handled(First)
        /\ call'[c].msg.seq = 1 => ~Handled(First)
    BY <1>2, <1>4, <1>9, <1>10
  <2>2. \A d \in Calls \ {c} : Outstanding(d)' /\ call'[d].msg.seq = 1
                                  => call'[c].msg.seq # 1
    BY <1>2, <1>4, <1>7, <1>9
  <2>3. \A d \in Calls \ {c} : Outstanding(d)' =>
           /\ call'[d].msg.turn = turn
           /\ call'[d].msg.seq # 1 => Handled(First)
           /\ call'[d].msg.seq = 1 =>
                 /\ ~Handled(First)
                 /\ \A e \in Calls \ {c} :
                       Outstanding(e)' /\ call'[e].msg.seq = 1 => e = d
    BY <1>2, <1>7 DEF OrderInv, FirstBeforeRest
  <2> QED BY <1>1, <1>8, <2>1, <2>2, <2>3 DEF FirstBeforeRest
<1>12. Position'
  BY <1>1 DEF OrderInv, Position
<1> QED BY <1>1, <1>11, <1>12, HistoryFrame, DiscardedFrame DEF OrderInv

LEMMA NextTurnKeepsOrder ==
    ASSUME TypeInv, OrderInv, NextTurn
    PROVE  OrderInv'
<1>1. /\ turn' = turn + 1
      /\ \A c \in Calls : ~Outstanding(c)
      /\ UNCHANGED <<next, processing, call, handled, staled, expired>>
  BY DEF NextTurn
<1>2. \A c \in Calls : ~Outstanding(c)'
  BY <1>1 DEF Outstanding
<1>3. FirstBeforeRest'
  BY <1>2 DEF FirstBeforeRest
<1>4. LatestTurn'
  <2>1. turn \in Nat /\ handled \in Seq(Message)
    BY DEF TypeInv, AppendTypeOK
  <2>2. \A i \in DOMAIN handled : handled[i].turn \in Nat
    <3>1. \A i \in DOMAIN handled : handled[i] \in Message
      BY <2>1
    <3> QED BY <3>1 DEF Message
  <2>3. turn' = turn + 1 /\ handled' = handled
    BY <1>1
  <2>4. \A i \in DOMAIN handled : /\ handled[i].turn <= turn + 1
                                  /\ handled[i].turn <= handled[Len(handled)].turn
    BY <2>1, <2>2 DEF OrderInv, LatestTurn
  <2>5. \A i \in DOMAIN handled' : /\ handled'[i].turn <= turn'
                                   /\ handled'[i].turn <= handled'[Len(handled')].turn
    BY <2>3, <2>4
  <2> QED BY <2>5 DEF LatestTurn
<1>5. Position' /\ NoGap' /\ InOrderOnce' /\ NothingDiscarded'
  BY <1>1 DEF OrderInv, Position, NoGap, InOrderOnce, NothingDiscarded, Handled
<1> QED BY <1>3, <1>4, <1>5 DEF OrderInv

LEMMA EnterKeepsOrder ==
    ASSUME TypeInv, OrderInv, NEW c \in Calls, Enter(c)
    PROVE  OrderInv'
<1>1. /\ call[c].pc = "waiting" /\ call' = [call EXCEPT ![c].pc = "inside"]
      /\ next' = call[c].msg.seq
      /\ call[c].msg.seq = next \/ call[c].msg.seq = 1
      /\ UNCHANGED <<turn, handled, staled, expired>>
  BY DEF Enter, Admitted, Restarts
<1>2. /\ call'[c].msg = call[c].msg
      /\ \A d \in Calls \ {c} : call'[d] = call[d]
  BY <1>1, CallMoves DEF TypeInv, AppendTypeOK
<1>3. \A d \in Calls : Outstanding(d)' => Outstanding(d) /\ call'[d].msg = call[d].msg
  BY <1>1, <1>2 DEF Outstanding
<1>4. Position'
  BY <1>1 DEF OrderInv, Position
<1> QED BY <1>1, <1>3, <1>4, ClientFrame, HistoryFrame, DiscardedFrame DEF OrderInv

LEMMA ReturnKeepsOrder ==
    ASSUME TypeInv, OrderInv, NEW c \in Calls, call[c].pc = "waiting",
           call' = [call EXCEPT ![c].pc = "returned"],
           UNCHANGED <<next, turn, handled>>
    PROVE  FirstBeforeRest' /\ Position' /\ LatestTurn' /\ NoGap' /\ InOrderOnce'
<1>1. /\ call'[c].msg = call[c].msg /\ call'[c].pc = "returned"
      /\ \A d \in Calls \ {c} : call'[d] = call[d]
  BY CallMoves DEF TypeInv, AppendTypeOK
<1>2. \A d \in Calls : Outstanding(d)' => Outstanding(d) /\ call'[d].msg = call[d].msg
  BY <1>1 DEF Outstanding
<1>3. Position'
  BY DEF OrderInv, Position
<1> QED BY <1>2, <1>3, ClientFrame, HistoryFrame DEF OrderInv

(* What acquire calls stale lies behind the last message handled, which is *)
(* one of the same turn, and there is no gap before it.                    *)
LEMMA StaleWasHandled ==
    ASSUME TypeInv, OrderInv, NEW c \in Calls, AnswerStale(c)
    PROVE  Handled(call[c].msg)
<1> DEFINE n == call[c].msg.seq
           last == handled[Len(handled)]
<1>1. Outstanding(c) /\ n < next /\ ~(n = 1 /\ next > 1)
  BY DEF AnswerStale, Outstanding, Stale, Restarts
<1>2. call[c].msg \in Message /\ next \in Nat
  BY <1>1 DEF TypeInv, AppendTypeOK, Alone, Outstanding
<1>3. n \in Nat /\ n >= 1 /\ call[c].msg = [turn |-> call[c].msg.turn, seq |-> n]
  BY <1>2 DEF Message
<1>4. n # 1 /\ next > 1
  BY <1>1, <1>2, <1>3
<1>5. call[c].msg.turn = turn /\ Handled(First)
  BY <1>1, <1>4 DEF OrderInv, FirstBeforeRest
<1>6. /\ Len(handled) \in DOMAIN handled
      /\ last \in Message
      /\ last.turn = turn
  BY <1>5, LastOfTurn
<1>7. last.seq = next - 1
  BY <1>4 DEF OrderInv, Position
<1>8. n \in 1..last.seq
  BY <1>1, <1>2, <1>3, <1>7
<1>9. Handled([turn |-> last.turn, seq |-> n])
  BY <1>6, <1>8 DEF OrderInv, NoGap
<1> QED BY <1>3, <1>5, <1>6, <1>9

(* The step that matters: a handled message extends the history.           *)
LEMMA LeaveKeepsOrder ==
    ASSUME TypeInv, OrderInv, NEW c \in Calls, Leave(c)
    PROVE  OrderInv'
<1> DEFINE m == call[c].msg
           last == handled[Len(handled)]
<1>1. /\ call[c].pc = "inside" /\ call' = [call EXCEPT ![c].pc = "returned"]
      /\ handled' = Append(handled, m)
      /\ UNCHANGED <<turn, staled, expired>>
  BY DEF Leave
<1>2. m \in Message /\ m.seq = next /\ processing
  BY <1>1 DEF TypeInv, AppendTypeOK, Alone
<1>3. next' = next + 1
  BY <1>2 DEF Leave, NextAfterRelease
<1>4. Outstanding(c) /\ m.turn = turn
  BY <1>1 DEF Outstanding, OrderInv, FirstBeforeRest
<1>5. /\ call'[c].pc = "returned"
      /\ \A d \in Calls \ {c} : call'[d] = call[d]
  BY <1>1, CallMoves DEF TypeInv, AppendTypeOK
<1>6. /\ m = [turn |-> turn, seq |-> next] /\ turn \in Nat /\ next \in Nat
      /\ next >= 1 /\ (next = 1 => m = First)
  BY <1>2, <1>4 DEF Message, First, TypeInv, AppendTypeOK
<1>7. handled \in Seq(Message)
  BY DEF TypeInv, AppendTypeOK
<1> HIDE DEF m
<1>8. /\ Len(handled') = Len(handled) + 1
      /\ DOMAIN handled' = DOMAIN handled \cup {Len(handled) + 1}
      /\ DOMAIN handled = 1..Len(handled) /\ Len(handled) \in Nat
      /\ \A i \in DOMAIN handled : /\ handled'[i] = handled[i]
                                   /\ handled[i] \in Message
      /\ handled'[Len(handled) + 1] = m
  BY <1>1, <1>2, <1>7, Appended
<1>9. \A x : Handled(x)' <=> (x = m \/ Handled(x))
  <2>1. \A x : (\E i \in DOMAIN handled' : handled'[i] = x) <=>
               (x = m \/ \E i \in DOMAIN handled : handled[i] = x)
    BY <1>1, <1>2, <1>7, Appended
  <2> QED BY <2>1 DEF Handled
<1>10. next # 1 => /\ Handled(First) /\ Len(handled) > 0
                   /\ Len(handled) \in DOMAIN handled
                   /\ last \in Message /\ last.turn = turn
                   /\ last.seq = next - 1
  <2> SUFFICES ASSUME next # 1
               PROVE  /\ Handled(First) /\ Len(handled) > 0
                      /\ Len(handled) \in DOMAIN handled
                      /\ last \in Message /\ last.turn = turn
                      /\ last.seq = next - 1
    OBVIOUS
  <2>1. Handled(First)
    BY <1>2, <1>4 DEF OrderInv, FirstBeforeRest, m
  <2>2. last.seq = next - 1
    BY <1>6 DEF OrderInv, Position
  <2> QED BY <2>1, <2>2, LastOfTurn
<1>11. next = 1 => ~Handled(First)
  BY <1>2, <1>4 DEF OrderInv, FirstBeforeRest, m
<1>12. \A i \in DOMAIN handled : handled[i].turn \in Nat /\ handled[i].seq \in Nat
                                  /\ handled[i].seq >= 1
  BY <1>8 DEF Message
<1>13. FirstBeforeRest'
  <2>1. First' = First /\ Handled(First)'
    <3>1. Handled(First) \/ m = First
      BY <1>6, <1>10
    <3> QED BY <1>1, <1>9, <3>1 DEF First, Handled
  <2>2. \A d \in Calls : Outstanding(d)' =>
           d # c /\ Outstanding(d) /\ call'[d] = call[d]
    BY <1>5 DEF Outstanding
  <2>3. \A d \in Calls : Outstanding(d)' => call[d].msg.seq # 1
    <3> SUFFICES ASSUME NEW d \in Calls, Outstanding(d)', call[d].msg.seq = 1
                 PROVE  FALSE
      OBVIOUS
    <3>1. d # c /\ Outstanding(d)
      BY <2>2
    <3>2. ~Handled(First)
      BY <3>1 DEF OrderInv, FirstBeforeRest
    <3>3. m.seq = 1
      BY <1>2, <1>10, <3>2
    <3> QED BY <1>4, <3>1, <3>3 DEF OrderInv, FirstBeforeRest, m
  <2>4. \A d \in Calls : Outstanding(d)' => call'[d].msg.turn = turn'
    BY <1>1, <2>2 DEF OrderInv, FirstBeforeRest
  <2> QED BY <2>1, <2>2, <2>3, <2>4 DEF FirstBeforeRest
<1>14. Position'
  <2>1. Len(handled') > 0 /\ handled'[Len(handled')] = m
    BY <1>8
  <2>2. m.seq = next' - 1
    BY <1>2, <1>3, <1>6
  <2> QED BY <2>1, <2>2 DEF Position
<1>15. LatestTurn'
  <2>1. handled'[Len(handled')] = m /\ m.turn = turn /\ turn' = turn
    BY <1>1, <1>4, <1>8
  <2>2. \A i \in DOMAIN handled : handled[i].turn <= turn
    BY DEF OrderInv, LatestTurn
  <2>3. \A i \in DOMAIN handled' : handled'[i].turn <= turn
    BY <1>4, <1>6, <1>8, <2>2
  <2> QED BY <2>1, <2>3 DEF LatestTurn
<1>16. NoGap'
  <2> DEFINE Now(x) == \E i \in DOMAIN handled' : handled'[i] = x
  <2>1. \A x : Now(x) <=> (x = m \/ Handled(x))
    BY <1>9 DEF Handled
  <2> HIDE DEF Now
  <2>2. \A i \in DOMAIN handled : \A n \in 1..handled[i].seq :
           Now([turn |-> handled[i].turn, seq |-> n])
    BY <2>1 DEF OrderInv, NoGap
  <2>3. \A n \in 1..next : Now([turn |-> turn, seq |-> n])
    <3> TAKE n \in 1..next
    <3>1. CASE n = next
      BY <1>6, <2>1, <3>1
    <3>2. CASE n # next
      <4>1. next # 1 /\ n \in 1..(next - 1)
        BY <1>6, <3>2
      <4>2. n \in 1..last.seq /\ last.turn = turn /\ Len(handled) \in DOMAIN handled
        BY <1>10, <4>1
      <4>3. Now([turn |-> last.turn, seq |-> n])
        BY <2>2, <4>2
      <4> QED BY <4>2, <4>3
    <3> QED BY <3>1, <3>2
  <2>4. m.turn = turn /\ m.seq = next
    BY <1>2, <1>4 DEF m
  <2>5. \A i \in DOMAIN handled' : \A n \in 1..handled'[i].seq :
           Now([turn |-> handled'[i].turn, seq |-> n])
    <3> TAKE i \in DOMAIN handled'
    <3>1. CASE i \in DOMAIN handled
      BY <1>8, <2>2, <3>1
    <3>2. CASE i = Len(handled) + 1
      BY <1>8, <2>3, <2>4, <3>2
    <3> QED BY <1>8, <3>1, <3>2
  <2> QED BY <2>5 DEF NoGap, Handled, Now
<1>17. InOrderOnce'
  <2>1. m.turn = turn /\ m.seq = next
    BY <1>2, <1>4 DEF m
  <2>2. ASSUME NEW i \in DOMAIN handled
        PROVE  IF i > 1 /\ handled'[i].turn = handled'[i - 1].turn
               THEN handled'[i].seq = handled'[i - 1].seq + 1
               ELSE /\ handled'[i].seq = 1
                    /\ i > 1 => handled'[i].turn > handled'[i - 1].turn
    <3>1. i > 1 => i - 1 \in DOMAIN handled
      BY <1>8
    <3>2. handled'[i] = handled[i] /\ (i > 1 => handled'[i - 1] = handled[i - 1])
      BY <1>8, <3>1
    <3> QED BY <3>2 DEF OrderInv, InOrderOnce
  <2>3. Len(handled) > 0 => /\ Len(handled) \in DOMAIN handled
                            /\ handled'[Len(handled)] = last
                            /\ last.turn <= turn /\ last.turn \in Nat
                            /\ last.seq \in Nat /\ last.seq >= 1
    <3>1. Len(handled) > 0 => Len(handled) \in DOMAIN handled
      BY <1>8
    <3> QED BY <1>8, <1>12, <3>1 DEF OrderInv, LatestTurn
  <2>4. Len(handled) > 0 /\ next = 1 => last.turn # turn
    <3> SUFFICES ASSUME Len(handled) > 0, next = 1, last.turn = turn
                 PROVE  FALSE
      OBVIOUS
    <3>1. \A n \in 1..last.seq : Handled([turn |-> last.turn, seq |-> n])
      BY <2>3 DEF OrderInv, NoGap
    <3> HIDE DEF last
    <3>2. 1 \in 1..last.seq
      BY <2>3
    <3>3. Handled([turn |-> turn, seq |-> 1])
      BY <3>1, <3>2
    <3> QED BY <1>11, <3>3 DEF First
  <2>5. next # 1 => Len(handled) > 0 /\ last.turn = turn /\ last.seq = next - 1
    BY <1>10
  <2> HIDE DEF last
  <2>6. IF Len(handled) > 0 /\ m.turn = last.turn
        THEN m.seq = last.seq + 1
        ELSE m.seq = 1 /\ (Len(handled) > 0 => m.turn > last.turn)
    <3>1. CASE next # 1
      BY <1>6, <2>1, <2>5, <3>1
    <3>2. CASE next = 1
      <4>1. Len(handled) > 0 => turn > last.turn
        BY <1>6, <2>3, <2>4, <3>2
      <4> QED BY <2>1, <2>4, <3>2, <4>1
    <3> QED BY <3>1, <3>2
  <2>7. ASSUME NEW i \in DOMAIN handled', i = Len(handled) + 1
        PROVE  IF i > 1 /\ handled'[i].turn = handled'[i - 1].turn
               THEN handled'[i].seq = handled'[i - 1].seq + 1
               ELSE /\ handled'[i].seq = 1
                    /\ i > 1 => handled'[i].turn > handled'[i - 1].turn
    <3>1. handled'[i] = m /\ i - 1 = Len(handled) /\ (i > 1 <=> Len(handled) > 0)
      BY <1>8, <2>7
    <3>2. i > 1 => handled'[i - 1] = last
      BY <2>3, <3>1
    <3> QED BY <2>6, <3>1, <3>2
  <2>8. ASSUME NEW i \in DOMAIN handled'
        PROVE  IF i > 1 /\ handled'[i].turn = handled'[i - 1].turn
               THEN handled'[i].seq = handled'[i - 1].seq + 1
               ELSE /\ handled'[i].seq = 1
                    /\ i > 1 => handled'[i].turn > handled'[i - 1].turn
    <3>1. i \in DOMAIN handled \/ i = Len(handled) + 1
      BY <1>8
    <3> QED BY <2>2, <2>7, <3>1
  <2> QED BY <2>8 DEF InOrderOnce
<1>18. NothingDiscarded'
  BY <1>1, <1>9 DEF OrderInv, NothingDiscarded
<1> QED BY <1>13, <1>14, <1>15, <1>16, <1>17, <1>18 DEF OrderInv

LEMMA ExpireKeepsOrder ==
    ASSUME TypeInv, OrderInv, Expire
    PROVE  OrderInv'
<1>1. /\ next' = 1
      /\ \A c \in Calls : call'[c] =
            [call[c] EXCEPT !.orphan = @ \/ call[c].pc = "waiting"]
      /\ UNCHANGED <<processing, turn, handled, staled>>
  BY DEF Expire
<1>2. \A c \in Calls : call[c] \in Call
  BY DEF TypeInv, AppendTypeOK
<1>3. \A c \in Calls : call'[c].pc = call[c].pc /\ call'[c].msg = call[c].msg
  BY <1>1, <1>2 DEF Call
<1>4. \A c \in Calls : Outstanding(c)' => Outstanding(c) /\ call'[c].msg = call[c].msg
  BY <1>3 DEF Outstanding
<1>5. Position'
  BY <1>1 DEF Position
<1> QED BY <1>1, <1>4, <1>5, ClientFrame, HistoryFrame, DiscardedFrame DEF OrderInv

LEMMA OrderStep ==
    ASSUME OrderlyStart, TypeInv, OrderInv, [AppendNext]_appendVars
    PROVE  OrderInv'
<1>1. ASSUME NEW c \in Calls, NEW n \in 1..MaxSeqno, Send(c, n) PROVE OrderInv'
  BY <1>1, SendKeepsOrder
<1>2. CASE NextTurn
  BY <1>2, NextTurnKeepsOrder
<1>3. ASSUME NEW c \in Calls, GiveUp(c) PROVE OrderInv'
  <2>1. /\ call[c].pc = "waiting" /\ call' = [call EXCEPT ![c].pc = "returned"]
        /\ UNCHANGED <<next, turn, handled, staled>>
    BY <1>3 DEF GiveUp
  <2> QED BY <2>1, ReturnKeepsOrder, DiscardedFrame DEF OrderInv
<1>4. ASSUME NEW c \in Calls, AnswerStale(c) PROVE OrderInv'
  <2>1. /\ call[c].pc = "waiting" /\ call' = [call EXCEPT ![c].pc = "returned"]
        /\ UNCHANGED <<next, turn, handled>>
        /\ staled' = staled \cup {call[c].msg}
    BY <1>4 DEF AnswerStale
  <2>2. Handled(call[c].msg)
    BY <1>4, StaleWasHandled
  <2>3. NothingDiscarded'
    BY <2>1, <2>2 DEF OrderInv, NothingDiscarded, Handled
  <2> QED BY <2>1, <2>3, ReturnKeepsOrder DEF OrderInv
<1>5. ASSUME NEW c \in Calls, Enter(c) PROVE OrderInv'
  BY <1>5, EnterKeepsOrder
<1>6. ASSUME NEW c \in Calls, Leave(c) PROVE OrderInv'
  BY <1>6, LeaveKeepsOrder
<1>7. CASE Expire
  BY <1>7, ExpireKeepsOrder
<1>8. CASE UNCHANGED appendVars
  <2>1. UNCHANGED <<next, turn, handled, staled, call>>
    BY <1>8 DEF appendVars
  <2>2. \A c \in Calls : Outstanding(c)' => Outstanding(c) /\ call'[c].msg = call[c].msg
    BY <2>1 DEF Outstanding
  <2>3. Position'
    BY <2>1 DEF OrderInv, Position
  <2> QED BY <2>1, <2>2, <2>3, ClientFrame, HistoryFrame, DiscardedFrame DEF OrderInv
<1> QED BY <1>1, <1>2, <1>3, <1>4, <1>5, <1>6, <1>7, <1>8 DEF AppendNext, Steps

(* However many calls overtake each other, are repeated or give up, the    *)
(* handlers see the messages of each turn in the client's order, none      *)
(* skipped and none twice: what acquire and Release promise BidiAppend.    *)
THEOREM MessagesInOrder ==
    ASSUME OrderlyStart
    PROVE  AppendSpec => []InOrderOnce
<1>1. AppendInit => TypeInv /\ OrderInv
  BY TypeInit, OrderInit
<1>2. TypeInv /\ OrderInv /\ [AppendNext]_appendVars => (TypeInv /\ OrderInv)'
  BY TypeStep, OrderStep
<1>3. OrderInv => InOrderOnce
  BY DEF OrderInv
<1> QED BY <1>1, <1>2, <1>3, PTL DEF AppendSpec

(* A message that acquire answers as stale, which the client takes for     *)
(* done, has really been handled.                                          *)
THEOREM NoMessageDiscarded ==
    ASSUME OrderlyStart
    PROVE  AppendSpec => []NothingDiscarded
<1>1. AppendInit => TypeInv /\ OrderInv
  BY TypeInit, OrderInit
<1>2. TypeInv /\ OrderInv /\ [AppendNext]_appendVars => (TypeInv /\ OrderInv)'
  BY TypeStep, OrderStep
<1>3. OrderInv => NothingDiscarded
  BY DEF OrderInv
<1> QED BY <1>1, <1>2, <1>3, PTL DEF AppendSpec

-----------------------------------------------------------------------------
(* The stream broker. *)

Ends(log) == {k \in DOMAIN log : log[k].end}

(* Before the run has its stream there is nothing to read.                 *)
EmptyInv ==
    run = 0 =>
        /\ actor = "idle" /\ published = <<>>
        /\ \A i \in DOMAIN streams : streams[i].backlog = <<>> /\ ~streams[i].closed
        /\ \A r \in Readers : cursor[r] = 0 /\ got[r] = <<>>

(* Until its verdict the run's stream stays in the map.                    *)
ServingInv ==
    /\ run # 0 => actor # "idle"
    /\ actor = "serving" =>
          /\ entry = run /\ run # 0
          /\ streams[run].known /\ ~streams[run].closed

BacklogInv == run # 0 /\ ~pruned => streams[run].backlog = published

CapInv ==
    run # 0 =>
        LET log == streams[run].backlog
        IN  /\ (\E k \in DOMAIN published : published[k].end) => \E k \in DOMAIN log : log[k].end
            /\ Len(log) <= BacklogCap + Cardinality(Ends(log))

(* A reader is subscribed to the stream that it found.                     *)
SubscriberInv ==
    /\ \A i \in DOMAIN streams : \A r \in streams[i].subscribers :
          found[r] = i /\ reader[r] # "away"
    /\ \A r \in Readers : reader[r] # "away" => found[r] # 0

(* A reader that found the run's stream has been sent a prefix of the run. *)
Sent(r) ==
    /\ cursor[r] <= Len(published)
    /\ got[r] = SubSeq(published, 1, cursor[r])
    /\ \A k \in DOMAIN got[r] : ~got[r][k].end

ReaderInv ==
    \A r \in Readers :
        /\ reader[r] \in {"away", "found"} => cursor[r] = 0 /\ got[r] = <<>>
        /\ run # 0 /\ entry = run /\ found[r] = run /\ reader[r] = "reading" /\ ~pruned => Sent(r)

BrokerInv == /\ TypeOK /\ EmptyInv /\ ServingInv /\ BacklogInv /\ CapInv
             /\ SubscriberInv /\ ReaderInv


-----------------------------------------------------------------------------
(* The backlog: what is cut and what is read.                              *)
LEMMA Least ==
    ASSUME NEW S \in SUBSET Nat, S # {}
    PROVE  \E m \in S : \A k \in S : m <= k
<1> DEFINE R == {ss \in Nat \X Nat : ss[1] < ss[2]}
<1>1. IsWellFoundedOn(R, Nat)
  BY NatLessThanWellFounded DEF OpToRel
<1>2. \A x, y \in Nat : y < x => <<y, x>> \in R
  OBVIOUS
<1> HIDE DEF R
<1>3. PICK x \in S : \A y \in S : ~(<<y, x>> \in R)
  BY <1>1, WFMin
<1>4. ASSUME NEW y \in S PROVE x <= y
  <2>1. x \in Nat /\ y \in Nat
    OBVIOUS
  <2>2. ~(y < x)
    BY <1>2, <1>3, <2>1
  <2> QED
    BY <2>1, <2>2
<1> QED
  BY <1>4

LEMMA EndsFinite ==
    ASSUME NEW log \in Seq(Event)
    PROVE  /\ Len(log) \in Nat /\ DOMAIN log = 1..Len(log)
           /\ IsFiniteSet(Ends(log)) /\ Cardinality(Ends(log)) \in Nat
<1>1. Len(log) \in Nat /\ DOMAIN log = 1..Len(log)
  BY LenProperties
<1>2. IsFiniteSet(1..Len(log))
  BY <1>1, FS_Interval
<1>3. Ends(log) \in SUBSET (1..Len(log))
  BY <1>1 DEF Ends
<1> QED
  BY <1>1, <1>2, <1>3, FS_Subset, FS_CardinalityType

LEMMA DropFacts ==
    ASSUME NEW log \in Seq(Event), \E k \in DOMAIN log : ~log[k].end
    PROVE  LET r == DropOldest(log) IN
           /\ r \in Seq(Event) /\ Len(r) = Len(log) - 1
           /\ Cardinality(Ends(log)) <= Cardinality(Ends(r))
           /\ (\E k \in DOMAIN log : log[k].end) => \E k \in DOMAIN r : r[k].end
<1> DEFINE n == Len(log)
           S == {k \in DOMAIN log : ~log[k].end}
           i == CHOOSE k \in DOMAIN log : ~log[k].end /\ \A j \in 1..(k - 1) : log[j].end
           a == SubSeq(log, 1, i - 1)
           b == SubSeq(log, i + 1, n)
           r == a \o b
<1>1. n \in Nat /\ DOMAIN log = 1..n /\ IsFiniteSet(Ends(log))
  BY EndsFinite
<1>2. /\ i \in 1..n /\ ~log[i].end
  <2>1. S \in SUBSET Nat /\ S # {}
    BY <1>1
  <2>2. PICK m \in S : \A k \in S : m <= k
    BY <2>1, Least
  <2>3. \A j \in 1..(m - 1) : log[j].end
    <3> TAKE j \in 1..(m - 1)
    <3>1. m \in 1..n
      BY <1>1, <2>2
    <3>2. j \in DOMAIN log /\ ~(m <= j)
      BY <1>1, <3>1
    <3> QED
      BY <2>2, <3>2
  <2>4. m \in DOMAIN log /\ ~log[m].end
    BY <2>2
  <2>5. i \in DOMAIN log /\ ~log[i].end
    BY <2>3, <2>4
  <2> HIDE DEF i
  <2> QED
    BY <1>1, <2>5
<1> HIDE DEF i, S
<1>3. /\ a \in Seq(Event) /\ Len(a) = i - 1
      /\ \A k \in 1..(i - 1) : a[k] = log[k]
  <2>1. \A k \in 1..(i - 1) : log[k] \in Event
    BY <1>1, <1>2, ElementOfSeq
  <2>2. 1 \in Int /\ i - 1 \in Int
    BY <1>1, <1>2
  <2>3. /\ a \in Seq(Event) /\ Len(a) = IF 1 <= i - 1 THEN (i - 1) - 1 + 1 ELSE 0
        /\ \A k \in 1 .. (i - 1) - 1 + 1 : a[k] = log[1 + k - 1]
    BY <2>1, <2>2, SubSeqProperties
  <2> QED
    BY <1>1, <1>2, <2>3
<1>4. /\ b \in Seq(Event) /\ Len(b) = n - i
      /\ \A k \in 1..(n - i) : b[k] = log[i + k]
  <2>1. \A k \in (i + 1)..n : log[k] \in Event
    <3> TAKE k \in (i + 1)..n
    <3>1. k \in 1..n
      BY <1>1, <1>2
    <3> QED
      BY <1>1, <3>1, ElementOfSeq
  <2>2. i + 1 \in Int /\ n \in Int
    BY <1>1, <1>2
  <2>3. /\ b \in Seq(Event) /\ Len(b) = IF i + 1 <= n THEN n - (i + 1) + 1 ELSE 0
        /\ \A k \in 1 .. n - (i + 1) + 1 : b[k] = log[(i + 1) + k - 1]
    BY <2>1, <2>2, SubSeqProperties
  <2>4. Len(b) = n - i
    <3>1. /\ n - (i + 1) + 1 = n - i
          /\ ~(i + 1 <= n) => n - i = 0
      <4>1. i \in Nat /\ n \in Nat /\ i <= n
        BY <1>1, <1>2
      <4> HIDE DEF n
      <4> QED
        BY <4>1
    <3> QED
      BY <2>3, <3>1
  <2>5. \A k \in 1..(n - i) : k \in 1 .. n - (i + 1) + 1 /\ (i + 1) + k - 1 = i + k
    BY <1>1, <1>2
  <2> QED
    BY <2>3, <2>4, <2>5
<1> HIDE DEF a, b
<1>5. /\ r \in Seq(Event) /\ Len(r) = n - 1
      /\ \A k \in 1..(n - 1) : r[k] = IF k < i THEN log[k] ELSE log[k + 1]
  <2>1. /\ r \in Seq(Event) /\ Len(r) = Len(a) + Len(b)
        /\ \A k \in 1 .. Len(a) + Len(b) : r[k] = IF k <= Len(a) THEN a[k] ELSE b[k - Len(a)]
    BY <1>3, <1>4, ConcatProperties
  <2>2. Len(a) + Len(b) = n - 1
    BY <1>1, <1>2, <1>3, <1>4
  <2>3. ASSUME NEW k \in 1..(n - 1), k < i PROVE r[k] = log[k]
    <3>1. k <= Len(a) /\ k \in 1..(i - 1) /\ k \in 1..(Len(a) + Len(b))
      BY <1>1, <1>2, <1>3, <2>2, <2>3
    <3> QED
      BY <1>3, <2>1, <3>1
  <2>4. ASSUME NEW k \in 1..(n - 1), ~(k < i) PROVE r[k] = log[k + 1]
    <3>1. ~(k <= Len(a)) /\ k - Len(a) \in 1..(n - i) /\ i + (k - Len(a)) = k + 1
          /\ k \in 1..(Len(a) + Len(b))
      BY <1>1, <1>2, <1>3, <2>2, <2>4
    <3> QED
      BY <1>4, <2>1, <3>1
  <2> QED
    BY <2>1, <2>2, <2>3, <2>4
<1> HIDE DEF r
<1>6. DOMAIN r = 1..(n - 1) /\ IsFiniteSet(Ends(r))
  BY <1>5, EndsFinite
<1> DEFINE f == [k \in Ends(log) |-> IF k < i THEN k ELSE k - 1]
<1>7. \A k \in Ends(log) : k \in 1..n /\ k # i /\ log[k].end
  BY <1>1, <1>2 DEF Ends
<1>8. \A k \in Ends(log) : f[k] \in Ends(r)
  <2> TAKE k \in Ends(log)
  <2>1. CASE k < i
    <3>1. k \in 1..(n - 1) /\ f[k] = k
      BY <1>1, <1>2, <1>7, <2>1
    <3> QED
      BY <1>5, <1>6, <1>7, <2>1, <3>1 DEF Ends
  <2>2. CASE ~(k < i)
    <3>1. k - 1 \in 1..(n - 1) /\ f[k] = k - 1 /\ ~(k - 1 < i) /\ (k - 1) + 1 = k
      BY <1>1, <1>2, <1>7, <2>2
    <3> QED
      BY <1>5, <1>6, <1>7, <3>1 DEF Ends
  <2> QED
    BY <2>1, <2>2
<1>9. f \in Injection(Ends(log), Ends(r))
  <2>1. f \in [Ends(log) -> Ends(r)]
    BY <1>8
  <2>2. ASSUME NEW x \in Ends(log), NEW y \in Ends(log), f[x] = f[y]
        PROVE  x = y
    <3>1. /\ x \in 1..n /\ y \in 1..n /\ x # i /\ y # i
          /\ f[x] = IF x < i THEN x ELSE x - 1
          /\ f[y] = IF y < i THEN y ELSE y - 1
      BY <1>7
    <3>2. x \in Nat /\ y \in Nat /\ i \in Nat
      BY <1>1, <1>2, <3>1
    <3> HIDE DEF f
    <3>3. CASE x < i /\ y < i
      BY <2>2, <3>1, <3>3
    <3>4. CASE ~(x < i) /\ ~(y < i)
      <4>1. x - 1 = y - 1
        BY <2>2, <3>1, <3>4
      <4> QED
        BY <3>2, <4>1
    <3>5. CASE x < i /\ ~(y < i)
      <4>1. x = y - 1
        BY <2>2, <3>1, <3>5
      <4> QED
        BY <3>1, <3>2, <3>5, <4>1
    <3>6. CASE ~(x < i) /\ y < i
      <4>1. x - 1 = y
        BY <2>2, <3>1, <3>6
      <4> QED
        BY <3>1, <3>2, <3>6, <4>1
    <3> QED
      BY <3>3, <3>4, <3>5, <3>6
  <2> QED
    BY <2>1, <2>2, Fun_IsInj
<1>10. Cardinality(Ends(log)) <= Cardinality(Ends(r))
  BY <1>6, <1>9, FS_Injection
<1>11. (\E k \in DOMAIN log : log[k].end) => \E k \in DOMAIN r : r[k].end
  BY <1>8 DEF Ends
<1>12. DropOldest(log) = r
  BY DEF DropOldest, r, a, b, i
<1> QED
  BY <1>5, <1>10, <1>11, <1>12


LEMMA CapIsNat == BacklogCap \in Nat \ {0} /\ MaxEvents \in Nat /\ MaxStreams \in Nat
                  /\ MaxVerdicts \in Nat /\ IsFiniteSet(Readers)
BY BrokerAssumption

(* A backlog within the cap, with one more event, is within the cap again. *)
Capped(log) == Len(log) <= BacklogCap + Cardinality(Ends(log))
HasEnd(log) == \E k \in DOMAIN log : log[k].end

LEMMA AddFacts ==
    ASSUME NEW log \in Seq(Event), NEW e \in Event
    PROVE  LET r == Append(log, e) IN
           /\ r \in Seq(Event) /\ Len(r) = Len(log) + 1
           /\ Cardinality(Ends(r)) = Cardinality(Ends(log)) + (IF e.end THEN 1 ELSE 0)
           /\ HasEnd(r) <=> HasEnd(log) \/ e.end
           /\ ~e.end => \E k \in DOMAIN r : ~r[k].end
<1> DEFINE r == Append(log, e)
           n == Len(log) + 1
<1>1. /\ r \in Seq(Event) /\ Len(r) = n
      /\ \A k \in 1..Len(log) : r[k] = log[k]
      /\ r[n] = e
  BY AppendProperties
<1>2. /\ Len(log) \in Nat /\ DOMAIN log = 1..Len(log)
      /\ IsFiniteSet(Ends(log)) /\ Cardinality(Ends(log)) \in Nat
  BY EndsFinite
<1> HIDE DEF r
<1>3. DOMAIN r = 1..n
  BY <1>1, EndsFinite
<1>4. n \notin DOMAIN log /\ DOMAIN r = DOMAIN log \cup {n}
  BY <1>2, <1>3
<1> HIDE DEF n
<1>5. Ends(r) = Ends(log) \cup (IF e.end THEN {n} ELSE {}) /\ n \notin Ends(log)
  BY <1>1, <1>2, <1>4 DEF Ends
<1>6. Cardinality(Ends(r)) = Cardinality(Ends(log)) + (IF e.end THEN 1 ELSE 0)
  <2>1. CASE e.end
    <3>1. Ends(r) = Ends(log) \cup {n}
      BY <1>5, <2>1
    <3>2. Cardinality(Ends(r)) = Cardinality(Ends(log)) + 1
      BY <1>2, <1>5, <3>1, FS_AddElement
    <3> QED
      BY <2>1, <3>2
  <2>2. CASE ~e.end
    <3>1. Ends(r) = Ends(log)
      BY <1>5, <2>2
    <3> QED
      BY <1>2, <2>2, <3>1
  <2> QED
    BY <2>1, <2>2
<1>7. /\ HasEnd(r) <=> HasEnd(log) \/ e.end
      /\ ~e.end => \E k \in DOMAIN r : ~r[k].end
  BY <1>1, <1>2, <1>4 DEF HasEnd
<1>8. r \in Seq(Event) /\ Len(r) = Len(log) + 1
  BY <1>1 DEF n
<1> QED
  BY <1>6, <1>7, <1>8 DEF r

LEMMA CutFacts ==
    ASSUME NEW log \in Seq(Event)
    PROVE  LET r == Cut(log) IN
           /\ r \in Seq(Event)
           /\ HasEnd(log) => HasEnd(r)
           /\ Capped(log) => Capped(r)
           /\ (\E k \in DOMAIN log : ~log[k].end) /\ Len(log) <= BacklogCap + Cardinality(Ends(log)) + 1
                 => Capped(r)
<1> DEFINE n == Len(log)
           c == Cardinality(Ends(log))
<1>1. n \in Nat /\ c \in Nat /\ BacklogCap \in Nat
  BY EndsFinite, CapIsNat
<1>2. CASE n > BacklogCap /\ \E k \in DOMAIN log : ~log[k].end
  <2> DEFINE r == DropOldest(log)
             m == Len(r)
             d == Cardinality(Ends(r))
  <2>1. Cut(log) = r
    BY <1>2 DEF Cut
  <2>2. /\ r \in Seq(Event) /\ m = n - 1 /\ c <= d
        /\ HasEnd(log) => HasEnd(r)
    BY <1>2, DropFacts DEF HasEnd
  <2>3. d \in Nat
    BY <2>2, EndsFinite
  <2>4. n <= BacklogCap + c + 1 => m <= BacklogCap + d
    <3> HIDE DEF n, c, m, d
    <3> QED
      BY <1>1, <2>2, <2>3
  <2>5. n <= BacklogCap + c => n <= BacklogCap + c + 1
    <3> HIDE DEF n, c
    <3> QED
      BY <1>1
  <2> QED
    BY <2>1, <2>2, <2>4, <2>5 DEF Capped
<1>3. CASE ~(n > BacklogCap)
  <2>1. Cut(log) = log
    BY <1>3 DEF Cut
  <2>2. n <= BacklogCap + c
    <3> HIDE DEF n, c
    <3> QED
      BY <1>1, <1>3
  <2> QED
    BY <2>1, <2>2 DEF Capped
<1>4. CASE ~ \E k \in DOMAIN log : ~log[k].end
  <2>1. Cut(log) = log
    BY <1>4 DEF Cut
  <2> QED
    BY <1>4, <2>1 DEF Capped
<1> QED
  BY <1>2, <1>3, <1>4

LEMMA PublishedFacts ==
    ASSUME NEW log \in Seq(Event), NEW e \in Event
    PROVE  LET r == Cut(Append(log, e)) IN
           /\ r \in Seq(Event)
           /\ HasEnd(log) \/ e.end => HasEnd(r)
           /\ Capped(log) => Capped(r)
<1> DEFINE a == Append(log, e)
           r == Cut(a)
<1>1. /\ a \in Seq(Event) /\ Len(a) = Len(log) + 1
      /\ Cardinality(Ends(a)) = Cardinality(Ends(log)) + (IF e.end THEN 1 ELSE 0)
      /\ HasEnd(a) <=> HasEnd(log) \/ e.end
      /\ ~e.end => \E k \in DOMAIN a : ~a[k].end
  BY AddFacts
<1> HIDE DEF a
<1>2. /\ r \in Seq(Event) /\ (HasEnd(a) => HasEnd(r)) /\ (Capped(a) => Capped(r))
      /\ (\E k \in DOMAIN a : ~a[k].end) /\ Len(a) <= BacklogCap + Cardinality(Ends(a)) + 1
            => Capped(r)
  BY <1>1, CutFacts
<1>3. /\ Len(log) \in Nat /\ Cardinality(Ends(log)) \in Nat /\ BacklogCap \in Nat
  BY EndsFinite, CapIsNat
<1>4. ASSUME Capped(log), e.end PROVE Capped(r)
  <2>1. Cardinality(Ends(a)) = Cardinality(Ends(log)) + 1
    BY <1>1, <1>4
  <2>2. Len(log) + 1 <= BacklogCap + (Cardinality(Ends(log)) + 1)
    BY <1>3, <1>4 DEF Capped
  <2> QED
    BY <1>1, <1>2, <2>1, <2>2 DEF Capped
<1>5. ASSUME Capped(log), ~e.end PROVE Capped(r)
  <2>1. Cardinality(Ends(a)) = Cardinality(Ends(log))
    BY <1>1, <1>3, <1>5
  <2>2. Len(log) + 1 <= BacklogCap + Cardinality(Ends(log)) + 1
    BY <1>3, <1>5 DEF Capped
  <2>3. Len(a) <= BacklogCap + Cardinality(Ends(a)) + 1
    BY <1>1, <2>1, <2>2
  <2> QED
    BY <1>1, <1>2, <1>5, <2>3
<1>6. /\ r \in Seq(Event)
      /\ HasEnd(log) \/ e.end => HasEnd(r)
      /\ Capped(log) => Capped(r)
  BY <1>1, <1>2, <1>4, <1>5
<1> QED
  BY <1>6 DEF r, a

(* A reader's batch begins where its cursor stands.                        *)
LEMMA BatchFacts ==
    ASSUME NEW log \in Seq(Event), NEW n \in Nat, n < Len(log)
    PROVE  \E last \in Nat : /\ n < last /\ last <= Len(log)
                             /\ Batch(log, n) = SubSeq(log, n + 1, last)
<1> DEFINE ends == {k \in (n + 1)..Len(log) : log[k].end}
           last == IF ends = {} THEN Len(log) ELSE CHOOSE k \in ends : \A j \in ends : k <= j
<1>1. Len(log) \in Nat
  BY EndsFinite
<1>2. last \in (n + 1)..Len(log)
  <2>1. CASE ends = {}
    <3>1. last = Len(log)
      BY <2>1
    <3>2. Len(log) \in (n + 1)..Len(log)
      BY <1>1
    <3> HIDE DEF last
    <3> QED
      BY <3>1, <3>2
  <2>2. CASE ends # {}
    <3>1. ends \in SUBSET Nat /\ ends \subseteq (n + 1)..Len(log)
      BY <1>1
    <3>2. last = CHOOSE k \in ends : \A j \in ends : k <= j
      BY <2>2
    <3> HIDE DEF ends
    <3>3. \E k \in ends : \A j \in ends : k <= j
      BY <2>2, <3>1, Least
    <3>4. (CHOOSE k \in ends : \A j \in ends : k <= j) \in ends
      BY <3>3
    <3> QED
      BY <3>1, <3>2, <3>4
  <2> QED
    BY <2>1, <2>2
<1>3. Batch(log, n) = SubSeq(log, n + 1, last)
  BY DEF Batch
<1> HIDE DEF last
<1>4. last \in Nat /\ n < last /\ last <= Len(log)
  BY <1>1, <1>2
<1> QED
  BY <1>3, <1>4

(* What was sent, when more is sent and when more is published.            *)
LEMMA SentMore ==
    ASSUME NEW log \in Seq(Event), NEW n \in Nat, n < Len(log)
    PROVE  LET b == Batch(log, n) IN
           /\ b \in Seq(Event) /\ n + Len(b) \in Nat /\ n + Len(b) <= Len(log)
           /\ SubSeq(log, 1, n) \o b = SubSeq(log, 1, n + Len(b))
<1>1. PICK last \in Nat : /\ n < last /\ last <= Len(log)
                          /\ Batch(log, n) = SubSeq(log, n + 1, last)
  BY BatchFacts
<1>2. Len(log) \in Nat /\ DOMAIN log = 1..Len(log)
  BY EndsFinite
<1> DEFINE b == SubSeq(log, n + 1, last)
<1>3. b \in Seq(Event) /\ Len(b) = last - n
  <2>1. \A k \in (n + 1)..last : log[k] \in Event
    <3> TAKE k \in (n + 1)..last
    <3>1. k \in 1..Len(log)
      BY <1>1, <1>2
    <3> QED
      BY <3>1, ElementOfSeq
  <2>2. /\ b \in Seq(Event) /\ Len(b) = IF n + 1 <= last THEN last - (n + 1) + 1 ELSE 0
    BY <2>1, SubSeqProperties
  <2>3. n + 1 <= last /\ last - (n + 1) + 1 = last - n
    BY <1>1
  <2> QED
    BY <2>2, <2>3
<1>4. n + Len(b) = last
  <2>1. n + (last - n) = last
    OBVIOUS
  <2> QED
    BY <1>3, <2>1
<1>5. SubSeq(log, 1, n) \o b = SubSeq(log, 1, last)
  <2>1. 1 \in 1..(Len(log) + 1) /\ n \in (1 - 1)..Len(log) /\ last \in n..Len(log)
    BY <1>1, <1>2
  <2> QED
    BY <2>1, ConcatAdjacentSubSeq
<1> QED
  BY <1>1, <1>3, <1>4, <1>5

LEMMA SameSent ==
    ASSUME NEW log \in Seq(Event), NEW e \in Event, NEW n \in Nat, n <= Len(log)
    PROVE  SubSeq(Append(log, e), 1, n) = SubSeq(log, 1, n) /\ n <= Len(Append(log, e))
<1>1. Append(log, e) = log \o <<e>> /\ <<e>> \in Seq(Event) /\ Len(Append(log, e)) = Len(log) + 1
  BY AppendIsConcat, AppendProperties
<1>2. Len(log) \in Nat
  BY EndsFinite
<1>3. CASE n = 0
  BY <1>1, <1>2, <1>3, SubSeqEmpty
<1>4. CASE n # 0
  <2>1. 1 \in 1..Len(log) /\ n \in 1..Len(log)
    BY <1>2, <1>4
  <2> QED
    BY <1>1, <1>2, <2>1, SubSeqOfConcat1
<1> QED
  BY <1>3, <1>4


-----------------------------------------------------------------------------
(* Streams: how a step changes one and leaves the others.                  *)
Changed(i, s) == streams' = [streams EXCEPT ![i] = s]

LEMMA StreamChanges ==
    ASSUME streams \in Seq(Stream), NEW i \in DOMAIN streams, NEW s \in Stream, Changed(i, s)
    PROVE  /\ streams' \in Seq(Stream) /\ Len(streams') = Len(streams)
           /\ DOMAIN streams' = DOMAIN streams /\ streams'[i] = s
           /\ \A j \in DOMAIN streams \ {i} : streams'[j] = streams[j]
<1>1. DOMAIN streams = 1..Len(streams)
  BY LenProperties
<1>2. /\ [streams EXCEPT ![i] = s] \in Seq(Stream) /\ Len([streams EXCEPT ![i] = s]) = Len(streams)
      /\ \A j \in 1..Len(streams) : [streams EXCEPT ![i] = s][j] = IF j = i THEN s ELSE streams[j]
  BY <1>1, ExceptSeq
<1>3. /\ streams' \in Seq(Stream) /\ Len(streams') = Len(streams)
      /\ \A j \in 1..Len(streams) : streams'[j] = IF j = i THEN s ELSE streams[j]
  BY <1>2 DEF Changed
<1>4. DOMAIN streams' = 1..Len(streams)
  BY <1>3, LenProperties
<1> QED
  BY <1>1, <1>3, <1>4

LEMMA StreamTypes ==
    ASSUME TypeOK, NEW i \in 1..Len(streams)
    PROVE  /\ streams[i] \in Stream /\ i \in DOMAIN streams /\ i \in Ids
           /\ Len(streams) \in Nat /\ DOMAIN streams = 1..Len(streams)
           /\ streams[i].backlog \in Seq(Event) /\ streams[i].subscribers \subseteq Readers
<1>1. streams \in Seq(Stream) /\ Len(streams) <= MaxStreams
  BY DEF TypeOK
<1>2. Len(streams) \in Nat /\ DOMAIN streams = 1..Len(streams) /\ streams[i] \in Stream
  BY <1>1, LenProperties, ElementOfSeq
<1>3. i \in Ids
  BY <1>1, <1>2, CapIsNat DEF Ids
<1> QED
  BY <1>2, <1>3 DEF Stream

LEMMA Ids0 ==
    ASSUME TypeOK
    PROVE  /\ Len(streams) \in Nat /\ DOMAIN streams = 1..Len(streams)
           /\ entry # 0 => entry \in 1..Len(streams) /\ entry \in DOMAIN streams
           /\ run # 0 => run \in 1..Len(streams) /\ run \in DOMAIN streams
           /\ \A r \in Readers : found[r] # 0 => found[r] \in 1..Len(streams) /\ found[r] \in DOMAIN streams
<1>1. Len(streams) \in Nat /\ DOMAIN streams = 1..Len(streams)
  BY LenProperties DEF TypeOK
<1>2. entry \in 0..Len(streams) /\ run \in 0..Len(streams)
      /\ \A r \in Readers : found[r] \in 0..Len(streams)
  BY DEF TypeOK
<1> QED
  BY <1>1, <1>2

(* What a step may do to a stream apart from its backlog.                  *)
LEMMA Disarmed ==
    ASSUME NEW s \in Stream
    PROVE  LET r == StopCleanup(s) IN
           /\ r \in Stream /\ r.closed = s.closed /\ r.known = s.known
           /\ r.backlog = s.backlog /\ r.subscribers = s.subscribers
BY DEF StopCleanup, Stream

LEMMA Closes ==
    ASSUME NEW s \in Stream
    PROVE  LET r == [StopCleanup(s) EXCEPT !.closed = TRUE] IN
           /\ r \in Stream /\ r.closed = TRUE /\ r.known = s.known
           /\ r.backlog = s.backlog /\ r.subscribers = s.subscribers
<1> DEFINE q == StopCleanup(s)
<1>1. /\ q \in Stream /\ q.known = s.known /\ q.backlog = s.backlog /\ q.subscribers = s.subscribers
  BY Disarmed
<1> HIDE DEF q
<1>2. LET r == [q EXCEPT !.closed = TRUE] IN
      /\ r \in Stream /\ r.closed = TRUE /\ r.known = q.known
      /\ r.backlog = q.backlog /\ r.subscribers = q.subscribers
  BY <1>1 DEF Stream
<1> QED
  BY <1>1, <1>2 DEF q

LEMMA Registers ==
    ASSUME NEW s \in Stream, NEW x \in Readers
    PROVE  LET r == [StopCleanup(s) EXCEPT !.subscribers = s.subscribers \cup {x}] IN
           /\ r \in Stream /\ r.closed = s.closed /\ r.known = s.known
           /\ r.backlog = s.backlog /\ r.subscribers = s.subscribers \cup {x}
<1> DEFINE q == StopCleanup(s)
           new == s.subscribers \cup {x}
<1>1. /\ q \in Stream /\ q.known = s.known /\ q.backlog = s.backlog /\ q.closed = s.closed
  BY Disarmed
<1>2. new \in SUBSET Readers
  BY DEF Stream
<1> HIDE DEF q, new
<1>3. LET r == [q EXCEPT !.subscribers = new] IN
      /\ r \in Stream /\ r.closed = q.closed /\ r.known = q.known
      /\ r.backlog = q.backlog /\ r.subscribers = new
  BY <1>1, <1>2 DEF Stream
<1> QED
  BY <1>1, <1>3 DEF q, new

LEMMA Leaves ==
    ASSUME NEW s \in Stream, NEW left \in SUBSET Readers
    PROVE  LET r == [s EXCEPT !.subscribers = left] IN
           /\ r \in Stream /\ r.closed = s.closed /\ r.known = s.known
           /\ r.backlog = s.backlog /\ r.subscribers = left
BY DEF Stream

LEMMA Logs ==
    ASSUME NEW s \in Stream, NEW log \in Seq(Event)
    PROVE  LET r == [s EXCEPT !.backlog = log] IN
           /\ r \in Stream /\ r.closed = s.closed /\ r.known = s.known
           /\ r.backlog = log /\ r.subscribers = s.subscribers
BY DEF Stream

LEMMA Shell ==
    ASSUME NEW s \in Stream, NEW k \in BOOLEAN
    PROVE  LET r == [s EXCEPT !.known = k] IN
           /\ r \in Stream /\ r.closed = s.closed /\ r.known = k
           /\ r.backlog = s.backlog /\ r.subscribers = s.subscribers
BY DEF Stream

LEMMA Knows ==
    ASSUME NEW s \in Stream, NEW k \in BOOLEAN
    PROVE  LET r == [s EXCEPT !.known = @ \/ k] IN
           /\ r \in Stream /\ r.closed = s.closed /\ (k => r.known)
           /\ s.known => r.known
           /\ r.backlog = s.backlog /\ r.subscribers = s.subscribers
BY DEF Stream


(* A step that changes no backlog.                                         *)
Kept ==
    /\ streams' \in Seq(Stream) /\ Len(streams') <= MaxStreams /\ Len(streams) <= Len(streams')
    /\ \A i \in DOMAIN streams :
          /\ i \in DOMAIN streams' /\ streams'[i].backlog = streams[i].backlog
          /\ streams[i].known => streams'[i].known
    /\ \A i \in DOMAIN streams' \ DOMAIN streams :
          streams'[i].backlog = <<>> /\ ~streams'[i].closed /\ streams'[i].subscribers = {}

SameStatus == \A i \in DOMAIN streams : streams'[i].closed = streams[i].closed
SameReaders == \A i \in DOMAIN streams : streams'[i].subscribers = streams[i].subscribers

LEMMA SameStreams ==
    ASSUME TypeOK, streams' = streams
    PROVE  Kept /\ SameStatus /\ SameReaders
<1>1. Len(streams) \in Nat
  BY Ids0
<1> QED
  BY <1>1 DEF TypeOK, Kept, SameStatus, SameReaders

LEMMA OneChanges ==
    ASSUME TypeOK, NEW i \in DOMAIN streams, NEW s \in Stream, Changed(i, s),
           s.backlog = streams[i].backlog, streams[i].known => s.known
    PROVE  /\ Kept /\ DOMAIN streams' = DOMAIN streams /\ Len(streams') = Len(streams)
           /\ streams'[i] = s /\ \A j \in DOMAIN streams \ {i} : streams'[j] = streams[j]
           /\ s.closed = streams[i].closed => SameStatus
           /\ s.subscribers = streams[i].subscribers => SameReaders
<1>1. streams \in Seq(Stream) /\ Len(streams) <= MaxStreams /\ Len(streams) \in Nat
  BY Ids0 DEF TypeOK
<1>2. /\ streams' \in Seq(Stream) /\ Len(streams') = Len(streams)
      /\ DOMAIN streams' = DOMAIN streams /\ streams'[i] = s
      /\ \A j \in DOMAIN streams \ {i} : streams'[j] = streams[j]
  BY <1>1, StreamChanges
<1>3. Len(streams) <= Len(streams') /\ Len(streams') <= MaxStreams
  BY <1>1, <1>2
<1> QED
  BY <1>2, <1>3 DEF Kept, SameStatus, SameReaders

LEMMA OpenFacts ==
    ASSUME TypeOK, NEW k \in BOOLEAN, OpenStream(k)
    PROVE  /\ Kept /\ SameStatus /\ SameReaders
           /\ entry' \in 1..Len(streams') /\ entry' \in DOMAIN streams'
           /\ entry # 0 => entry' = entry
           /\ entry = 0 => entry' \notin 0..Len(streams)
           /\ k => streams'[entry'].known
<1>1. streams \in Seq(Stream) /\ Len(streams) \in Nat /\ DOMAIN streams = 1..Len(streams)
  BY Ids0 DEF TypeOK
<1>2. CASE entry = 0
  <2> DEFINE s == [NoStream EXCEPT !.known = k]
             n == Len(streams) + 1
  <2>1. Len(streams) < MaxStreams /\ streams' = Append(streams, s) /\ entry' = n
    BY <1>2 DEF OpenStream
  <2>2. /\ s \in Stream /\ s.backlog = <<>> /\ ~s.closed /\ s.subscribers = {} /\ s.known = k
    <3>1. <<>> \in Seq(Event) /\ {} \in SUBSET Readers
      BY EmptySeq
    <3>2. /\ NoStream \in Stream /\ NoStream.backlog = <<>> /\ ~NoStream.closed
          /\ NoStream.subscribers = {}
      BY <3>1 DEF NoStream, Stream
    <3> QED
      BY <3>2, Shell
  <2> HIDE DEF s
  <2>3. /\ Append(streams, s) \in Seq(Stream) /\ Len(Append(streams, s)) = n
        /\ \A i \in 1..Len(streams) : Append(streams, s)[i] = streams[i]
        /\ Append(streams, s)[n] = s
    BY <1>1, <2>2, AppendProperties
  <2>4. /\ streams' \in Seq(Stream) /\ Len(streams') = n /\ streams'[n] = s
        /\ \A i \in DOMAIN streams : streams'[i] = streams[i]
    BY <1>1, <2>1, <2>3
  <2>5. DOMAIN streams' = 1..n
    BY <2>4, LenProperties
  <2>6. /\ DOMAIN streams \subseteq DOMAIN streams' /\ DOMAIN streams' \ DOMAIN streams = {n}
        /\ n \in 1..n /\ n \notin 0..Len(streams) /\ n <= MaxStreams /\ Len(streams) <= n
    BY <1>1, <2>1, <2>5, CapIsNat
  <2> HIDE DEF n
  <2> QED
    BY <1>2, <2>1, <2>2, <2>4, <2>5, <2>6 DEF Kept, SameStatus, SameReaders
<1>3. CASE entry # 0
  <2> DEFINE s == [streams[entry] EXCEPT !.known = @ \/ k]
  <2>1. entry \in DOMAIN streams /\ entry \in 1..Len(streams) /\ streams[entry] \in Stream
    BY <1>3, Ids0, StreamTypes
  <2>2. Changed(entry, s) /\ entry' = entry
    BY <1>3 DEF OpenStream, Changed
  <2>3. /\ s \in Stream /\ s.closed = streams[entry].closed /\ (k => s.known)
        /\ streams[entry].known => s.known
        /\ s.backlog = streams[entry].backlog /\ s.subscribers = streams[entry].subscribers
    BY <2>1, Knows
  <2> HIDE DEF s
  <2>4. /\ Kept /\ SameStatus /\ SameReaders /\ streams'[entry] = s
        /\ DOMAIN streams' = DOMAIN streams /\ Len(streams') = Len(streams)
    BY <2>1, <2>2, <2>3, OneChanges
  <2> QED
    BY <1>3, <2>1, <2>2, <2>3, <2>4
<1> QED
  BY <1>2, <1>3

(* The run's stream, in a step that publishes nothing.                     *)
LEMMA QuietRun ==
    ASSUME BrokerInv, Kept, UNCHANGED <<run, published, pruned>>,
           run = 0 => /\ SameStatus /\ UNCHANGED actor
                      /\ \A r \in Readers : cursor'[r] = 0 /\ got'[r] = <<>>
    PROVE  EmptyInv' /\ BacklogInv' /\ CapInv'
<1>1. TypeOK /\ EmptyInv /\ BacklogInv /\ CapInv
  BY DEF BrokerInv
<1>2. EmptyInv'
  BY <1>1 DEF EmptyInv, Kept, SameStatus
<1>3. run # 0 => streams'[run].backlog = streams[run].backlog
  BY <1>1, Ids0 DEF Kept
<1>4. BacklogInv' /\ CapInv'
  BY <1>1, <1>3 DEF BacklogInv, CapInv
<1> QED
  BY <1>2, <1>4

LEMMA QuietServing ==
    ASSUME BrokerInv, Kept, UNCHANGED run,
           actor = "idle" <=> actor' = "idle",
           actor' = "serving" => actor = "serving" /\ entry' = entry /\ SameStatus
    PROVE  ServingInv'
<1>1. TypeOK /\ ServingInv
  BY DEF BrokerInv
<1>2. run # 0 => run \in DOMAIN streams
  BY <1>1, Ids0
<1> QED
  BY <1>1, <1>2 DEF ServingInv, Kept, SameStatus

LEMMA QuietSubscribers ==
    ASSUME BrokerInv, Kept, SameReaders, found' = found,
           \A r \in Readers : reader[r] # "away" <=> reader'[r] # "away"
    PROVE  SubscriberInv'
<1>1. TypeOK /\ SubscriberInv
  BY DEF BrokerInv
<1>2. \A i \in DOMAIN streams : streams[i].subscribers \subseteq Readers
  BY <1>1, StreamTypes, Ids0
<1> QED
  BY <1>1, <1>2 DEF SubscriberInv, Kept, SameReaders

LEMMA QuietReaders ==
    ASSUME BrokerInv, UNCHANGED <<run, published, found, cursor, got>>,
           pruned => pruned', entry' = run /\ run # 0 => entry = run,
           \A r \in Readers : \/ reader'[r] = reader[r]
                              \/ reader'[r] \notin {"away", "found", "reading"}
                              \/ /\ reader[r] = "found" /\ reader'[r] = "reading"
                                 /\ cursor[r] = 0 /\ got[r] = <<>>
    PROVE  ReaderInv'
<1>1. TypeOK /\ ReaderInv
  BY DEF BrokerInv
<1>2. ASSUME NEW r \in Readers, cursor[r] = 0, got[r] = <<>>
      PROVE  Sent(r)
  <2>1. SubSeq(published, 1, 0) = <<>>
    BY SubSeqEmpty
  <2>2. 0 <= Len(published) /\ DOMAIN got[r] = {}
    BY <1>1, <1>2, LenProperties DEF TypeOK
  <2> QED
    BY <1>2, <2>1, <2>2 DEF Sent
<1>3. \A r \in Readers : Sent(r)' <=> Sent(r)
  BY DEF Sent
<1> QED
  BY <1>1, <1>2, <1>3 DEF ReaderInv


LEMMA EmptySent ==
    ASSUME TypeOK, NEW r \in Readers, cursor[r] = 0, got[r] = <<>>
    PROVE  Sent(r)
<1>1. SubSeq(published, 1, 0) = <<>>
  BY SubSeqEmpty
<1>2. 0 <= Len(published) /\ DOMAIN got[r] = {}
  BY LenProperties DEF TypeOK
<1> QED
  BY <1>1, <1>2 DEF Sent

-----------------------------------------------------------------------------
(* The cleanup timers.                                                     *)
ArmedOnce(S) ==
    \A i, j \in S : i.pc = "armed" /\ j.pc = "armed" /\ i.stream = j.stream => i = j

CleanupsOK == cleanups \subseteq Cleanup /\ ArmedOnce(cleanups)

LEMMA FewerCleanups ==
    ASSUME TypeOK, cleanups' \subseteq cleanups
    PROVE  CleanupsOK'
BY DEF TypeOK, CleanupsOK, ArmedOnce

LEMMA Stopped ==
    ASSUME NEW id
    PROVE  WithoutArmed(id) \subseteq cleanups
BY DEF WithoutArmed

LEMMA CleanupMoves ==
    ASSUME TypeOK, NEW c \in cleanups, NEW pc \in {"fired", "checked"},
           cleanups' = (cleanups \ {c}) \cup {[c EXCEPT !.pc = pc]}
    PROVE  CleanupsOK'
<1>1. c \in Cleanup /\ cleanups \subseteq Cleanup
  BY DEF TypeOK
<1> DEFINE d == [c EXCEPT !.pc = pc]
<1>2. d \in Cleanup /\ d.pc # "armed"
  BY <1>1 DEF Cleanup
<1> HIDE DEF d
<1>3. cleanups' = (cleanups \ {c}) \cup {d}
  BY DEF d
<1> QED
  BY <1>1, <1>2, <1>3 DEF TypeOK, CleanupsOK, ArmedOnce

LEMMA Rearmed ==
    ASSUME TypeOK, NEW a \in Cleanup, cleanups' = WithoutArmed(a.stream) \cup {a}
    PROVE  CleanupsOK'
<1>1. cleanups \subseteq Cleanup /\ ArmedOnce(cleanups)
  BY DEF TypeOK, ArmedOnce
<1>2. WithoutArmed(a.stream) \subseteq cleanups
      /\ \A c \in WithoutArmed(a.stream) : ~(c.stream = a.stream /\ c.pc = "armed")
  BY DEF WithoutArmed
<1>3. cleanups' \subseteq Cleanup
  BY <1>1, <1>2
<1> QED
  BY <1>1, <1>2, <1>3 DEF CleanupsOK, ArmedOnce

(* The types of what every step touches.                                   *)
LEMMA Types ==
    ASSUME TypeOK, streams' \in Seq(Stream), Len(streams') <= MaxStreams,
           Len(streams) <= Len(streams'), CleanupsOK',
           entry' \in {0, entry} \/ entry' \in 1..Len(streams'),
           run' = run \/ run' = entry'
    PROVE  /\ entry' \in 0..Len(streams') /\ run' \in 0..Len(streams')
           /\ found' = found => found' \in [Readers -> 0..Len(streams')]
           /\ cleanups' \subseteq Cleanup
           /\ \A i, j \in cleanups' :
                 i.pc = "armed" /\ j.pc = "armed" /\ i.stream = j.stream => i = j
<1>1. Len(streams) \in Nat /\ Len(streams') \in Nat
  BY Ids0, LenProperties
<1>2. entry \in 0..Len(streams) /\ run \in 0..Len(streams)
  BY DEF TypeOK
<1>3. 0..Len(streams) \subseteq 0..Len(streams') /\ 1..Len(streams') \subseteq 0..Len(streams')
      /\ 0 \in 0..Len(streams')
  BY <1>1
<1>4. found \in [Readers -> 0..Len(streams)]
  BY DEF TypeOK
<1>5. found \in [Readers -> 0..Len(streams')]
  BY <1>3, <1>4
<1> QED
  BY <1>2, <1>3, <1>5 DEF CleanupsOK, ArmedOnce

-----------------------------------------------------------------------------
(* The actor's steps.                                                      *)
LEMMA OpenRunKeeps ==
    ASSUME BrokerInv, OpenRun
    PROVE  BrokerInv'
<1>1. TypeOK /\ EmptyInv /\ ServingInv /\ SubscriberInv /\ ReaderInv
  BY DEF BrokerInv
<1>2. run = 0
  BY <1>1 DEF OpenRun, ServingInv
<1>3. /\ Kept /\ SameStatus /\ SameReaders
      /\ entry' \in 1..Len(streams') /\ entry' \in DOMAIN streams'
      /\ streams'[entry'].known
  BY <1>1, OpenFacts DEF OpenRun
<1>4. /\ run' = entry' /\ actor' = "serving"
      /\ UNCHANGED <<verdicts, counted, cleanups, reader, found, cursor, got, published, pruned>>
  BY DEF OpenRun
<1>5. run' # 0
  <2>1. Len(streams') \in Nat
    BY <1>3, LenProperties DEF Kept
  <2> QED
    BY <1>3, <1>4, <2>1
<1>6. streams'[run'].backlog = <<>> /\ ~streams'[run'].closed
  BY <1>1, <1>2, <1>3, <1>4 DEF EmptyInv, Kept, SameStatus
<1>7. published' = <<>>
  BY <1>1, <1>2, <1>4 DEF EmptyInv
<1>8. TypeOK'
  <2>1. CleanupsOK'
    BY <1>1, <1>4, FewerCleanups
  <2>2. /\ entry' \in 0..Len(streams') /\ run' \in 0..Len(streams')
        /\ found' \in [Readers -> 0..Len(streams')]
        /\ cleanups' \subseteq Cleanup
        /\ \A i, j \in cleanups' :
              i.pc = "armed" /\ j.pc = "armed" /\ i.stream = j.stream => i = j
    BY <1>1, <1>3, <1>4, <2>1, Types DEF Kept
  <2> QED
    BY <1>1, <1>3, <1>4, <2>2 DEF TypeOK, Kept
<1>9. EmptyInv' /\ ServingInv' /\ BacklogInv'
  BY <1>3, <1>4, <1>5, <1>6, <1>7 DEF EmptyInv, ServingInv, BacklogInv
<1>10. CapInv'
  <2>1. DOMAIN published' = {} /\ Len(streams'[run'].backlog) = 0
    BY <1>6, <1>7, EmptySeq
  <2>2. streams'[run'].backlog \in Seq(Event)
    BY <1>6, EmptySeq
  <2>3. Cardinality(Ends(streams'[run'].backlog)) \in Nat
    BY <2>2, EndsFinite
  <2>4. 0 <= BacklogCap + Cardinality(Ends(streams'[run'].backlog))
    BY <2>3, CapIsNat
  <2> QED
    BY <2>1, <2>4 DEF CapInv
<1>11. SubscriberInv'
  BY <1>3, <1>4, QuietSubscribers
<1>12. ReaderInv'
  <2>1. \A r \in Readers : cursor'[r] = 0 /\ got'[r] = <<>>
    BY <1>1, <1>2, <1>4 DEF EmptyInv
  <2>2. \A r \in Readers : Sent(r)
    BY <1>1, <1>4, <2>1, EmptySent
  <2>3. \A r \in Readers : Sent(r)'
    BY <1>4, <2>2 DEF Sent
  <2> QED
    BY <2>1, <2>3 DEF ReaderInv
<1> QED
  BY <1>8, <1>9, <1>10, <1>11, <1>12 DEF BrokerInv

(* Publishing on the stream that the map holds.                            *)
LEMMA PublishFacts ==
    ASSUME BrokerInv, run # 0, entry # 0, NEW e \in Event, PublishOn(entry, e),
           UNCHANGED <<entry, run, reader, found, cursor, got>>
    PROVE  /\ streams' \in Seq(Stream) /\ Len(streams') = Len(streams)
           /\ published' \in Seq(Event) /\ pruned' \in BOOLEAN
           /\ \A i \in DOMAIN streams :
                 streams'[i].known = streams[i].known /\ streams'[i].closed = streams[i].closed
           /\ EmptyInv' /\ BacklogInv' /\ CapInv' /\ SubscriberInv' /\ ReaderInv'
<1>1. TypeOK /\ BacklogInv /\ CapInv /\ SubscriberInv /\ ReaderInv
  BY DEF BrokerInv
<1>2. /\ streams \in Seq(Stream) /\ published \in Seq(Event) /\ pruned \in BOOLEAN
      /\ cursor \in [Readers -> Nat]
  BY <1>1 DEF TypeOK
<1>3. /\ entry \in DOMAIN streams /\ run \in DOMAIN streams
      /\ streams[entry] \in Stream /\ streams[run] \in Stream
      /\ streams[entry].backlog \in Seq(Event) /\ streams[run].backlog \in Seq(Event)
  BY <1>1, Ids0, StreamTypes
<1> DEFINE old == streams[entry].backlog
           log == Append(old, e)
           new == Cut(log)
           s == [streams[entry] EXCEPT !.backlog = new]
<1>4. new \in Seq(Event) /\ (HasEnd(old) \/ e.end => HasEnd(new)) /\ (Capped(old) => Capped(new))
  BY <1>3, PublishedFacts
<1>5. /\ Changed(entry, s) /\ (pruned' <=> (pruned \/ new # log))
      /\ pruned' \in BOOLEAN
      /\ published' = IF entry = run THEN Append(published, e) ELSE published
  BY <1>2 DEF PublishOn, Changed
<1> HIDE DEF new
<1>6. /\ s \in Stream /\ s.closed = streams[entry].closed /\ s.known = streams[entry].known
      /\ s.backlog = new /\ s.subscribers = streams[entry].subscribers
  BY <1>3, <1>4, Logs
<1> HIDE DEF s
<1>7. /\ streams' \in Seq(Stream) /\ Len(streams') = Len(streams)
      /\ DOMAIN streams' = DOMAIN streams /\ streams'[entry] = s
      /\ \A j \in DOMAIN streams \ {entry} : streams'[j] = streams[j]
  BY <1>2, <1>3, <1>5, <1>6, StreamChanges
<1>8. /\ published' \in Seq(Event)
      /\ \A n \in Nat : n <= Len(published) =>
            SubSeq(published', 1, n) = SubSeq(published, 1, n) /\ n <= Len(published')
      /\ HasEnd(published') => HasEnd(published) \/ (entry = run /\ e.end)
  <2>1. CASE entry = run
    <3>1. published' = Append(published, e)
      BY <1>5, <2>1
    <3>2. /\ Append(published, e) \in Seq(Event)
          /\ HasEnd(Append(published, e)) <=> HasEnd(published) \/ e.end
      BY <1>2, AddFacts
    <3>3. \A n \in Nat : n <= Len(published) =>
            /\ SubSeq(Append(published, e), 1, n) = SubSeq(published, 1, n)
            /\ n <= Len(Append(published, e))
      BY <1>2, SameSent
    <3> QED
      BY <2>1, <3>1, <3>2, <3>3
  <2>2. CASE entry # run
    BY <1>2, <1>5, <2>2
  <2> QED
    BY <2>1, <2>2
<1>9. EmptyInv'
  BY DEF EmptyInv
<1>10. BacklogInv'
  <2>1. ASSUME ~pruned' PROVE streams'[run].backlog = published'
    <3>1. new = log /\ ~pruned /\ streams[run].backlog = published
      BY <1>1, <1>5, <2>1 DEF BacklogInv
    <3>2. CASE entry = run
      <4>1. streams'[run].backlog = log
        BY <1>6, <1>7, <3>1, <3>2
      <4> QED
        BY <1>5, <3>1, <3>2, <4>1
    <3>3. CASE entry # run
      BY <1>3, <1>5, <1>7, <3>1, <3>3
    <3> QED
      BY <3>2, <3>3
  <2> QED
    BY <2>1 DEF BacklogInv
<1>11. CapInv'
  <2>1. /\ HasEnd(published) => HasEnd(streams[run].backlog)
        /\ Capped(streams[run].backlog)
    BY <1>1 DEF CapInv, HasEnd, Capped
  <2>2. /\ HasEnd(published') => HasEnd(streams'[run].backlog)
        /\ Capped(streams'[run].backlog)
    <3>1. CASE entry = run
      <4>1. streams'[run].backlog = new /\ old = streams[run].backlog
        BY <1>6, <1>7, <3>1
      <4> HIDE DEF old
      <4> QED
        BY <1>4, <1>8, <2>1, <4>1
    <3>2. CASE entry # run
      BY <1>3, <1>7, <1>8, <2>1, <3>2
    <3> QED
      BY <3>1, <3>2
  <2> QED
    BY <2>2 DEF CapInv, HasEnd, Capped
<1>12. \A i \in DOMAIN streams : streams'[i].subscribers = streams[i].subscribers
  BY <1>6, <1>7
<1>13. SubscriberInv'
  BY <1>1, <1>7, <1>12 DEF SubscriberInv
<1>14. ReaderInv'
  <2>1. ASSUME NEW r \in Readers, Sent(r) PROVE Sent(r)'
    <3>1. cursor[r] \in Nat
      BY <1>2
    <3> QED
      BY <1>8, <2>1, <3>1 DEF Sent
  <2>2. pruned => pruned'
    BY <1>5
  <2> QED
    BY <1>1, <2>1, <2>2 DEF ReaderInv
<1>15. \A i \in DOMAIN streams :
          streams'[i].known = streams[i].known /\ streams'[i].closed = streams[i].closed
  BY <1>6, <1>7
<1> QED
  BY <1>5, <1>7, <1>8, <1>9, <1>10, <1>11, <1>13, <1>14, <1>15


LEMMA PublishKeeps ==
    ASSUME BrokerInv, Publish
    PROVE  BrokerInv'
<1> DEFINE e == [number |-> Len(published) + 1, end |-> FALSE]
<1>1. TypeOK /\ ServingInv
  BY DEF BrokerInv
<1>2. /\ actor = "serving" /\ PublishOn(entry, e)
      /\ UNCHANGED <<entry, run, actor, verdicts, counted, cleanups, reader, found, cursor, got>>
  BY DEF Publish
<1>3. entry = run /\ run # 0
  BY <1>1, <1>2 DEF ServingInv
<1>4. e \in Event
  <2>1. Len(published) + 1 \in Nat
    BY <1>1, LenProperties DEF TypeOK
  <2> QED
    BY <2>1 DEF Event
<1> HIDE DEF e
<1>5. /\ streams' \in Seq(Stream) /\ Len(streams') = Len(streams)
      /\ published' \in Seq(Event) /\ pruned' \in BOOLEAN
      /\ \A i \in DOMAIN streams :
            streams'[i].known = streams[i].known /\ streams'[i].closed = streams[i].closed
      /\ EmptyInv' /\ BacklogInv' /\ CapInv' /\ SubscriberInv' /\ ReaderInv'
  BY <1>2, <1>3, <1>4, PublishFacts
<1>6. TypeOK'
  BY <1>1, <1>2, <1>5 DEF TypeOK
<1>7. ServingInv'
  BY <1>1, <1>2, <1>3, <1>5, Ids0 DEF ServingInv
<1> QED
  BY <1>5, <1>6, <1>7 DEF BrokerInv

LEMMA PublishEndKeeps ==
    ASSUME BrokerInv, PublishEnd
    PROVE  BrokerInv'
<1> DEFINE e == [number |-> Len(published) + 1, end |-> TRUE]
<1>1. TypeOK /\ EmptyInv /\ ServingInv
  BY DEF BrokerInv
<1>2. /\ actor = "ending" /\ actor' \in {"scheduling", "over"}
      /\ UNCHANGED <<entry, run, verdicts, counted, cleanups, reader, found, cursor, got>>
      /\ entry = 0 => UNCHANGED <<streams, published, pruned>>
      /\ entry # 0 => PublishOn(entry, e)
  BY DEF PublishEnd
<1>3. run # 0
  BY <1>1, <1>2 DEF EmptyInv
<1>4. e \in Event
  <2>1. Len(published) + 1 \in Nat
    BY <1>1, LenProperties DEF TypeOK
  <2> QED
    BY <2>1 DEF Event
<1> HIDE DEF e
<1>5. ServingInv'
  BY <1>2 DEF ServingInv
<1>6. CASE entry = 0
  <2>1. Kept /\ SameStatus /\ SameReaders
    BY <1>1, <1>2, <1>6, SameStreams
  <2>2. EmptyInv' /\ BacklogInv' /\ CapInv'
    BY <1>2, <1>3, <1>6, <2>1, QuietRun
  <2>3. SubscriberInv' /\ ReaderInv'
    BY <1>2, <1>6, <2>1, QuietSubscribers, QuietReaders
  <2>4. TypeOK'
    BY <1>1, <1>2, <1>6 DEF TypeOK
  <2> QED
    BY <1>5, <2>2, <2>3, <2>4 DEF BrokerInv
<1>7. CASE entry # 0
  <2>1. /\ streams' \in Seq(Stream) /\ Len(streams') = Len(streams)
        /\ published' \in Seq(Event) /\ pruned' \in BOOLEAN
        /\ EmptyInv' /\ BacklogInv' /\ CapInv' /\ SubscriberInv' /\ ReaderInv'
    BY <1>2, <1>3, <1>4, <1>7, PublishFacts
  <2>2. TypeOK'
    BY <1>1, <1>2, <2>1 DEF TypeOK
  <2> QED
    BY <1>5, <2>1, <2>2 DEF BrokerInv
<1> QED
  BY <1>6, <1>7

LEMMA CloseStreamKeeps ==
    ASSUME BrokerInv, CloseStream
    PROVE  BrokerInv'
<1>1. TypeOK /\ EmptyInv /\ ServingInv
  BY DEF BrokerInv
<1> DEFINE s == [StopCleanup(streams[entry]) EXCEPT !.closed = TRUE]
<1>2. /\ actor \in {"serving", "over"} /\ actor' = "ending" /\ verdicts < MaxVerdicts
      /\ verdicts' = verdicts + 1 /\ cleanups' = WithoutArmed(entry)
      /\ counted' = Cardinality(streams[entry].subscribers) /\ Changed(entry, s)
      /\ UNCHANGED <<entry, run, reader, found, cursor, got, published, pruned>>
  BY DEF CloseStream, Changed
<1>3. run # 0 /\ entry # 0
  BY <1>1, <1>2 DEF EmptyInv, ServingInv, CloseStream
<1>4. /\ entry \in DOMAIN streams /\ streams[entry] \in Stream
      /\ streams[entry].subscribers \in SUBSET Readers
  BY <1>1, <1>3, Ids0, StreamTypes
<1>5. /\ s \in Stream /\ s.known = streams[entry].known
      /\ s.backlog = streams[entry].backlog /\ s.subscribers = streams[entry].subscribers
  BY <1>4, Closes
<1> HIDE DEF s
<1>6. Kept /\ SameReaders /\ Len(streams') = Len(streams)
  BY <1>1, <1>2, <1>4, <1>5, OneChanges
<1>7. EmptyInv' /\ BacklogInv' /\ CapInv'
  BY <1>2, <1>3, <1>6, QuietRun
<1>8. ServingInv'
  BY <1>2 DEF ServingInv
<1>9. SubscriberInv' /\ ReaderInv'
  BY <1>2, <1>6, QuietSubscribers, QuietReaders
<1>10. TypeOK'
  <2>1. CleanupsOK'
    BY <1>1, <1>2, Stopped, FewerCleanups
  <2>2. counted' \in 0..Cardinality(Readers)
    <3>1. /\ Cardinality(streams[entry].subscribers) \in Nat
          /\ Cardinality(streams[entry].subscribers) <= Cardinality(Readers)
          /\ Cardinality(Readers) \in Nat
      BY <1>4, CapIsNat, FS_Subset, FS_CardinalityType
    <3> QED
      BY <1>2, <3>1
  <2>3. verdicts' \in 0..MaxVerdicts
    <3>1. verdicts \in 0..MaxVerdicts
      BY <1>1 DEF TypeOK
    <3> QED
      BY <1>2, <3>1, CapIsNat
  <2> QED
    BY <1>1, <1>2, <1>6, <2>1, <2>2, <2>3 DEF TypeOK, Kept, CleanupsOK, ArmedOnce
<1> QED
  BY <1>7, <1>8, <1>9, <1>10 DEF BrokerInv

LEMMA ScheduleCleanupKeeps ==
    ASSUME BrokerInv, ScheduleCleanup
    PROVE  BrokerInv'
<1>1. TypeOK /\ EmptyInv
  BY DEF BrokerInv
<1>2. /\ actor = "scheduling" /\ actor' = "over"
      /\ UNCHANGED <<entry, run, verdicts, counted, reader, found, cursor, got, published, pruned>>
      /\ entry = 0 => UNCHANGED <<streams, cleanups>>
  BY DEF ScheduleCleanup
<1>3. /\ Kept /\ SameReaders /\ Len(streams') = Len(streams) /\ CleanupsOK'
  <2>1. CASE entry = 0
    BY <1>1, <1>2, <2>1, SameStreams, FewerCleanups
  <2>2. CASE entry # 0
    <3> DEFINE s == StopCleanup(streams[entry])
               a == [stream |-> entry, seq |-> s.cleanupSeq, pc |-> "armed"]
    <3>1. /\ entry \in DOMAIN streams /\ entry \in Ids /\ streams[entry] \in Stream
      BY <1>1, <2>2, Ids0, StreamTypes
    <3>2. /\ s \in Stream /\ s.closed = streams[entry].closed /\ s.known = streams[entry].known
          /\ s.backlog = streams[entry].backlog /\ s.subscribers = streams[entry].subscribers
      BY <3>1, Disarmed
    <3>3. /\ Changed(entry, s)
          /\ \/ cleanups' = WithoutArmed(entry)
             \/ cleanups' = WithoutArmed(entry) \cup {a}
      BY <2>2 DEF ScheduleCleanup, Changed
    <3> HIDE DEF s
    <3>4. Kept /\ SameReaders /\ Len(streams') = Len(streams)
      BY <1>1, <3>1, <3>2, <3>3, OneChanges
    <3>5. a \in Cleanup /\ a.stream = entry
      BY <3>1, <3>2 DEF Cleanup, Stream
    <3> HIDE DEF a
    <3>6. CleanupsOK'
      BY <1>1, <3>3, <3>5, Stopped, FewerCleanups, Rearmed
    <3> QED
      BY <3>4, <3>6
  <2> QED
    BY <2>1, <2>2
<1>4. run # 0
  BY <1>1, <1>2 DEF EmptyInv
<1>5. EmptyInv' /\ BacklogInv' /\ CapInv'
  BY <1>2, <1>3, <1>4, QuietRun
<1>6. ServingInv'
  BY <1>2 DEF ServingInv
<1>7. SubscriberInv' /\ ReaderInv'
  BY <1>2, <1>3, QuietSubscribers, QuietReaders
<1>8. TypeOK'
  BY <1>1, <1>2, <1>3 DEF TypeOK, Kept, CleanupsOK, ArmedOnce
<1> QED
  BY <1>5, <1>6, <1>7, <1>8 DEF BrokerInv

-----------------------------------------------------------------------------
(* Cleaning up.                                                            *)
LEMMA RemoveFacts ==
    ASSUME BrokerInv, NEW gone, RemoveIfIdle(gone)
    PROVE  /\ Kept /\ SameStatus /\ SameReaders /\ Len(streams') = Len(streams)
           /\ CleanupsOK' /\ entry' \in {0, entry}
           /\ actor = "serving" => entry' = entry
<1>1. TypeOK /\ ServingInv
  BY DEF BrokerInv
<1>2. entry' = IF entry # 0 /\ Removable(streams[entry]) THEN 0 ELSE entry
  BY DEF RemoveIfIdle
<1>3. actor = "serving" => entry' = entry
  BY <1>1, <1>2 DEF ServingInv, Removable
<1>4. cleanups' \subseteq cleanups
  BY Stopped DEF RemoveIfIdle
<1>5. CleanupsOK'
  BY <1>1, <1>4, FewerCleanups
<1>6. CASE entry # 0 /\ streams[entry].closed
  <2> DEFINE s == StopCleanup(streams[entry])
  <2>1. entry \in DOMAIN streams /\ streams[entry] \in Stream
    BY <1>1, <1>6, Ids0, StreamTypes
  <2>2. /\ s \in Stream /\ s.closed = streams[entry].closed /\ s.known = streams[entry].known
        /\ s.backlog = streams[entry].backlog /\ s.subscribers = streams[entry].subscribers
    BY <2>1, Disarmed
  <2>3. Changed(entry, s)
    BY <1>6 DEF RemoveIfIdle, Changed
  <2> HIDE DEF s
  <2>4. Kept /\ SameStatus /\ SameReaders /\ Len(streams') = Len(streams)
    BY <1>1, <2>1, <2>2, <2>3, OneChanges
  <2> QED
    BY <1>2, <1>3, <1>5, <2>4
<1>7. CASE ~(entry # 0 /\ streams[entry].closed)
  <2>1. streams' = streams
    BY <1>7 DEF RemoveIfIdle
  <2> QED
    BY <1>1, <1>2, <1>3, <1>5, <2>1, SameStreams
<1> QED
  BY <1>6, <1>7

(* A step that cleans up or waits, and the reader that only moves on.      *)
LEMMA IdleKeeps ==
    ASSUME BrokerInv, Kept, SameStatus, SameReaders, Len(streams') = Len(streams),
           CleanupsOK', entry' \in {0, entry}, actor = "serving" => entry' = entry,
           UNCHANGED <<run, actor, verdicts, counted, found, cursor, got, published, pruned>>,
           reader' \in [Readers -> {"away", "found", "reading", "leaving", "removing", "done"}],
           \A r \in Readers : \/ reader'[r] = reader[r]
                              \/ /\ reader[r] \notin {"away", "found"}
                                 /\ reader'[r] \notin {"away", "found", "reading"}
    PROVE  BrokerInv'
<1>1. TypeOK /\ EmptyInv
  BY DEF BrokerInv
<1>2. EmptyInv' /\ BacklogInv' /\ CapInv'
  <2>1. run = 0 => \A r \in Readers : cursor'[r] = 0 /\ got'[r] = <<>>
    BY <1>1 DEF EmptyInv
  <2> QED
    BY <2>1, QuietRun
<1>3. ServingInv'
  BY QuietServing
<1>4. SubscriberInv'
  BY QuietSubscribers
<1>5. ReaderInv'
  <2>1. entry' = run /\ run # 0 => entry = run
    OBVIOUS
  <2>2. \A r \in Readers : \/ reader'[r] = reader[r]
                           \/ reader'[r] \notin {"away", "found", "reading"}
    OBVIOUS
  <2> QED
    BY <2>1, <2>2, QuietReaders
<1>6. entry' \in 0..Len(streams)
  BY <1>1, Ids0
<1>7. TypeOK'
  BY <1>1, <1>6 DEF TypeOK, Kept, CleanupsOK, ArmedOnce
<1> QED
  BY <1>2, <1>3, <1>4, <1>5, <1>7 DEF BrokerInv


LEMMA CleanupKeeps ==
    ASSUME BrokerInv, CleanupSteps
    PROVE  BrokerInv'
<1>1. TypeOK
  BY DEF BrokerInv
<1>2. PICK c \in cleanups : CleanupFires(c) \/ CleanupChecks(c) \/ CleanupRemoves(c)
  BY DEF CleanupSteps
<1>3. /\ UNCHANGED <<run, actor, verdicts, counted, reader, found, cursor, got, published, pruned>>
      /\ reader' \in [Readers -> {"away", "found", "reading", "leaving", "removing", "done"}]
  BY <1>1, <1>2 DEF CleanupFires, CleanupChecks, CleanupRemoves, TypeOK
<1>4. /\ Kept /\ SameStatus /\ SameReaders /\ Len(streams') = Len(streams)
      /\ CleanupsOK' /\ entry' \in {0, entry}
      /\ actor = "serving" => entry' = entry
  <2>1. CASE CleanupFires(c)
    <3>1. UNCHANGED <<streams, entry>>
          /\ cleanups' = (cleanups \ {c}) \cup {[c EXCEPT !.pc = "fired"]}
      BY <2>1 DEF CleanupFires
    <3> QED
      BY <1>1, <3>1, SameStreams, CleanupMoves
  <2>2. CASE CleanupChecks(c)
    <3>1. UNCHANGED <<streams, entry>>
          /\ \/ cleanups' = (cleanups \ {c}) \cup {[c EXCEPT !.pc = "checked"]}
             \/ cleanups' = (cleanups \ {c}) \cup {}
      BY <2>2 DEF CleanupChecks
    <3>2. CleanupsOK'
      <4>1. CASE cleanups' = (cleanups \ {c}) \cup {[c EXCEPT !.pc = "checked"]}
        BY <1>1, <4>1, CleanupMoves
      <4>2. CASE cleanups' = (cleanups \ {c}) \cup {}
        <5>1. cleanups' \subseteq cleanups
          BY <4>2
        <5> QED
          BY <1>1, <5>1, FewerCleanups
      <4> QED
        BY <3>1, <4>1, <4>2
    <3> QED
      BY <1>1, <3>1, <3>2, SameStreams
  <2>3. CASE CleanupRemoves(c)
    BY <2>3, RemoveFacts DEF CleanupRemoves
  <2> QED
    BY <1>2, <2>1, <2>2, <2>3
<1> QED
  BY <1>3, <1>4, IdleKeeps

-----------------------------------------------------------------------------
(* The readers' steps.                                                     *)
LEMMA FindKeeps ==
    ASSUME BrokerInv, NEW r \in Readers, Find(r)
    PROVE  BrokerInv'
<1>1. TypeOK /\ EmptyInv /\ ServingInv /\ SubscriberInv /\ ReaderInv
  BY DEF BrokerInv
<1>2. /\ reader[r] = "away" /\ OpenStream(FALSE)
      /\ found' = [found EXCEPT ![r] = entry'] /\ reader' = [reader EXCEPT ![r] = "found"]
      /\ UNCHANGED <<run, actor, verdicts, counted, cleanups, cursor, got, published, pruned>>
  BY DEF Find
<1>3. /\ Kept /\ SameStatus /\ SameReaders
      /\ entry' \in 1..Len(streams')
      /\ entry # 0 => entry' = entry
      /\ entry = 0 => entry' \notin 0..Len(streams)
  BY <1>1, <1>2, OpenFacts
<1>4. /\ reader \in [Readers -> {"away", "found", "reading", "leaving", "removing", "done"}]
      /\ found \in [Readers -> 0..Len(streams)] /\ run \in 0..Len(streams)
  BY <1>1 DEF TypeOK
<1>5. /\ found'[r] = entry' /\ reader'[r] = "found"
      /\ \A q \in Readers : q # r => found'[q] = found[q] /\ reader'[q] = reader[q]
  BY <1>2, <1>4
<1>6. Len(streams) \in Nat /\ Len(streams') \in Nat /\ entry' # 0
  BY <1>1, <1>3, Ids0, LenProperties DEF Kept
<1>7. EmptyInv' /\ BacklogInv' /\ CapInv'
  <2>1. run = 0 => \A q \in Readers : cursor'[q] = 0 /\ got'[q] = <<>>
    BY <1>1, <1>2 DEF EmptyInv
  <2> QED
    BY <1>2, <1>3, <2>1, QuietRun
<1>8. ServingInv'
  <2>1. actor = "serving" => entry # 0
    BY <1>1 DEF ServingInv
  <2> QED
    BY <1>2, <1>3, <2>1, QuietServing
<1>9. SubscriberInv'
  <2>1. ASSUME NEW i \in DOMAIN streams', NEW q \in streams'[i].subscribers
        PROVE  found'[q] = i /\ reader'[q] # "away"
    <3>1. i \in DOMAIN streams /\ q \in streams[i].subscribers
      BY <1>3, <2>1 DEF Kept, SameReaders
    <3>2. q \in Readers /\ found[q] = i /\ reader[q] # "away"
      BY <1>1, <3>1, Ids0, StreamTypes DEF SubscriberInv
    <3> QED
      BY <1>2, <1>5, <3>2
  <2>2. \A q \in Readers : reader'[q] # "away" => found'[q] # 0
    BY <1>1, <1>5, <1>6 DEF SubscriberInv
  <2> QED
    BY <2>1, <2>2 DEF SubscriberInv
<1>10. ReaderInv'
  <2>1. \A q \in Readers : Sent(q)' <=> Sent(q)
    BY <1>2 DEF Sent
  <2>2. entry' = run /\ run # 0 => entry = run
    BY <1>3, <1>4
  <2>3. cursor[r] = 0 /\ got[r] = <<>>
    BY <1>1, <1>2 DEF ReaderInv
  <2> QED
    BY <1>1, <1>2, <1>5, <2>1, <2>2, <2>3 DEF ReaderInv
<1>11. TypeOK'
  <2>1. CleanupsOK'
    BY <1>1, <1>2, FewerCleanups
  <2>2. entry' \in 0..Len(streams') /\ run' \in 0..Len(streams')
    BY <1>1, <1>2, <1>3, <2>1, Types DEF Kept
  <2>3. found' \in [Readers -> 0..Len(streams')]
    <3>1. 0..Len(streams) \subseteq 0..Len(streams')
      BY <1>3, <1>6 DEF Kept
    <3> QED
      BY <1>2, <1>4, <2>2, <3>1
  <2>4. reader' \in [Readers -> {"away", "found", "reading", "leaving", "removing", "done"}]
    BY <1>2, <1>4
  <2> QED
    BY <1>1, <1>2, <1>3, <2>1, <2>2, <2>3, <2>4 DEF TypeOK, Kept, CleanupsOK, ArmedOnce
<1> QED
  BY <1>7, <1>8, <1>9, <1>10, <1>11 DEF BrokerInv

LEMMA RegisterKeeps ==
    ASSUME BrokerInv, NEW r \in Readers, Register(r)
    PROVE  BrokerInv'
<1>1. TypeOK /\ EmptyInv /\ SubscriberInv /\ ReaderInv
  BY DEF BrokerInv
<1> DEFINE i == found[r]
           s == [StopCleanup(streams[i]) EXCEPT !.subscribers = streams[i].subscribers \cup {r}]
<1>2. /\ reader[r] = "found" /\ Changed(i, s) /\ cleanups' = WithoutArmed(i)
      /\ reader' = [reader EXCEPT ![r] = "reading"]
      /\ UNCHANGED <<entry, run, actor, verdicts, counted, found, cursor, got, published, pruned>>
  <2>1. /\ reader[r] = "found" /\ cleanups' = WithoutArmed(i)
        /\ reader' = [reader EXCEPT ![r] = "reading"]
        /\ UNCHANGED <<entry, run, actor, verdicts, counted, found, cursor, got, published, pruned>>
    BY DEF Register
  <2>2. streams' = [streams EXCEPT ![i] = s]
    BY Zenon DEF Register
  <2> QED
    BY <2>1, <2>2, Zenon DEF Changed
<1>3. i \in DOMAIN streams /\ i \in 1..Len(streams) /\ streams[i] \in Stream
  BY <1>1, <1>2, Ids0, StreamTypes DEF SubscriberInv
<1>4. /\ s \in Stream /\ s.closed = streams[i].closed /\ s.known = streams[i].known
      /\ s.backlog = streams[i].backlog /\ s.subscribers = streams[i].subscribers \cup {r}
  BY <1>3, Registers
<1> HIDE DEF s
<1>5. /\ Kept /\ DOMAIN streams' = DOMAIN streams /\ Len(streams') = Len(streams)
      /\ streams'[i] = s /\ \A j \in DOMAIN streams \ {i} : streams'[j] = streams[j]
      /\ SameStatus
  BY <1>1, <1>2, <1>3, <1>4, OneChanges
<1>6. reader \in [Readers -> {"away", "found", "reading", "leaving", "removing", "done"}]
  BY <1>1 DEF TypeOK
<1>7. /\ reader'[r] = "reading" /\ \A q \in Readers : q # r => reader'[q] = reader[q]
      /\ reader' \in [Readers -> {"away", "found", "reading", "leaving", "removing", "done"}]
  BY <1>2, <1>6
<1>8. EmptyInv' /\ BacklogInv' /\ CapInv'
  <2>1. run = 0 => \A q \in Readers : cursor'[q] = 0 /\ got'[q] = <<>>
    BY <1>1, <1>2 DEF EmptyInv
  <2> QED
    BY <1>2, <1>5, <2>1, QuietRun
<1>9. ServingInv'
  BY <1>2, <1>5, QuietServing
<1>10. SubscriberInv'
  <2>1. ASSUME NEW j \in DOMAIN streams', NEW q \in streams'[j].subscribers
        PROVE  found'[q] = j /\ reader'[q] # "away"
    <3>1. CASE j = i /\ q = r
      BY <1>2, <1>7, <3>1
    <3>2. CASE ~(j = i /\ q = r)
      <4>1. j \in DOMAIN streams /\ q \in streams[j].subscribers
        BY <1>4, <1>5, <2>1, <3>2
      <4>2. q \in Readers /\ found[q] = j /\ reader[q] # "away"
        BY <1>1, <4>1, Ids0, StreamTypes DEF SubscriberInv
      <4> QED
        BY <1>2, <1>7, <4>2
    <3> QED
      BY <3>1, <3>2
  <2>2. \A q \in Readers : reader'[q] # "away" => found'[q] # 0
    BY <1>1, <1>2, <1>7 DEF SubscriberInv
  <2> QED
    BY <2>1, <2>2 DEF SubscriberInv
<1>11. ReaderInv'
  <2>1. cursor[r] = 0 /\ got[r] = <<>>
    BY <1>1, <1>2 DEF ReaderInv
  <2> QED
    BY <1>2, <1>7, <2>1, QuietReaders
<1>12. CleanupsOK'
  BY <1>1, <1>2, Stopped, FewerCleanups
<1>13. TypeOK'
  BY <1>1, <1>2, <1>5, <1>7, <1>12 DEF TypeOK, Kept, CleanupsOK, ArmedOnce
<1> QED
  BY <1>8, <1>9, <1>10, <1>11, <1>13 DEF BrokerInv

LEMMA ReadKeeps ==
    ASSUME BrokerInv, NEW r \in Readers, Read(r)
    PROVE  BrokerInv'
<1>1. TypeOK /\ EmptyInv /\ BacklogInv /\ SubscriberInv /\ ReaderInv
  BY DEF BrokerInv
<1> DEFINE log == streams[entry].backlog
           n == cursor[r]
           b == Batch(log, n)
           m == n + Len(b)
           to == IF \E k \in DOMAIN b : b[k].end THEN "leaving" ELSE "reading"
<1>2. /\ reader[r] = "reading" /\ entry # 0 /\ n < Len(log)
      /\ got' = [got EXCEPT ![r] = @ \o b] /\ cursor' = [cursor EXCEPT ![r] = m]
      /\ reader' = [reader EXCEPT ![r] = to]
      /\ UNCHANGED <<streams, entry, run, actor, verdicts, counted, cleanups, found, published,
                     pruned>>
  BY DEF Read
<1>3. /\ cursor \in [Readers -> Nat] /\ got \in [Readers -> Seq(Event)] /\ n \in Nat
      /\ got[r] \in Seq(Event)
      /\ reader \in [Readers -> {"away", "found", "reading", "leaving", "removing", "done"}]
  BY <1>1 DEF TypeOK
<1>4. log \in Seq(Event) /\ entry \in DOMAIN streams
  BY <1>1, <1>2, Ids0, StreamTypes
<1>5. /\ b \in Seq(Event) /\ m \in Nat /\ m <= Len(log)
      /\ SubSeq(log, 1, n) \o b = SubSeq(log, 1, m)
  BY <1>2, <1>3, <1>4, SentMore
<1>6. run # 0
  <2>1. SUFFICES ASSUME run = 0 PROVE FALSE
    OBVIOUS
  <2>2. log = <<>>
    BY <1>1, <1>4, <2>1 DEF EmptyInv
  <2>3. n < 0
    BY <1>2, <2>2, EmptySeq
  <2> QED
    BY <1>3, <2>3
<1>7. Kept /\ SameStatus /\ SameReaders
  BY <1>1, <1>2, SameStreams
<1>8. to \in {"leaving", "reading"} /\ (to = "reading" => \A k \in DOMAIN b : ~b[k].end)
  OBVIOUS
<1> HIDE DEF b, m, to
<1>9. got[r] \o b \in Seq(Event)
  BY <1>3, <1>5, ConcatProperties
<1>10. /\ got'[r] = got[r] \o b /\ cursor'[r] = m /\ reader'[r] = to
       /\ \A q \in Readers : q # r => /\ got'[q] = got[q] /\ cursor'[q] = cursor[q]
                                      /\ reader'[q] = reader[q]
       /\ got' \in [Readers -> Seq(Event)] /\ cursor' \in [Readers -> Nat]
       /\ reader' \in [Readers -> {"away", "found", "reading", "leaving", "removing", "done"}]
  BY <1>2, <1>3, <1>5, <1>8, <1>9
<1>11. EmptyInv' /\ BacklogInv' /\ CapInv'
  BY <1>2, <1>6, <1>7, QuietRun
<1>12. ServingInv'
  BY <1>2, <1>7, QuietServing
<1>13. SubscriberInv'
  BY <1>2, <1>7, <1>8, <1>10, QuietSubscribers
<1>14. ReaderInv'
  <2>1. ASSUME NEW q \in Readers, q # r, Sent(q) PROVE Sent(q)'
    BY <1>2, <1>10, <2>1 DEF Sent
  <2>2. ASSUME entry = run, ~pruned, Sent(r), to = "reading" PROVE Sent(r)'
    <3>1. log = published
      BY <1>1, <1>6, <2>2 DEF BacklogInv
    <3>2. got[r] = SubSeq(published, 1, n) /\ \A k \in DOMAIN got[r] : ~got[r][k].end
      BY <2>2 DEF Sent
    <3> DEFINE all == got[r] \o b
    <3>3. all = SubSeq(published, 1, m) /\ m <= Len(published)
      BY <1>5, <3>1, <3>2
    <3>4. \A k \in DOMAIN all : ~all[k].end
      <4>1. /\ all \in Seq(Event) /\ Len(all) = Len(got[r]) + Len(b)
            /\ \A k \in 1 .. Len(got[r]) + Len(b) :
                  all[k] = IF k <= Len(got[r]) THEN got[r][k] ELSE b[k - Len(got[r])]
        BY <1>3, <1>5, ConcatProperties
      <4>2. /\ Len(got[r]) \in Nat /\ DOMAIN got[r] = 1..Len(got[r])
            /\ Len(b) \in Nat /\ DOMAIN b = 1..Len(b)
            /\ DOMAIN all = 1..Len(all)
        BY <1>3, <1>5, <4>1, EndsFinite
      <4> HIDE DEF all
      <4>3. ASSUME NEW k \in DOMAIN all PROVE ~all[k].end
        <5>1. k \in 1 .. Len(got[r]) + Len(b)
          BY <4>1, <4>2
        <5>2. CASE k <= Len(got[r])
          <6>1. k \in DOMAIN got[r] /\ all[k] = got[r][k]
            BY <4>1, <4>2, <5>1, <5>2
          <6> QED
            BY <3>2, <6>1
        <5>3. CASE ~(k <= Len(got[r]))
          <6>1. k - Len(got[r]) \in DOMAIN b /\ all[k] = b[k - Len(got[r])]
            BY <4>1, <4>2, <5>1, <5>3
          <6> QED
            BY <1>8, <2>2, <6>1
        <5> QED
          BY <5>2, <5>3
      <4> QED
        BY <4>3
    <3> HIDE DEF all
    <3>5. got'[r] = all /\ cursor'[r] = m
      BY <1>10 DEF all
    <3> QED
      BY <1>2, <3>3, <3>4, <3>5 DEF Sent
  <2>3. ASSUME NEW q \in Readers
        PROVE  /\ reader'[q] \in {"away", "found"} => cursor'[q] = 0 /\ got'[q] = <<>>
               /\ run' # 0 /\ entry' = run' /\ found'[q] = run' /\ reader'[q] = "reading" /\ ~pruned'
                     => Sent(q)'
    <3>1. CASE q = r
      BY <1>1, <1>2, <1>8, <1>10, <2>2, <3>1 DEF ReaderInv
    <3>2. CASE q # r
      BY <1>1, <1>2, <1>10, <2>1, <3>2 DEF ReaderInv
    <3> QED
      BY <3>1, <3>2
  <2> QED
    BY <2>3 DEF ReaderInv
<1>15. TypeOK'
  BY <1>1, <1>2, <1>10 DEF TypeOK
<1> QED
  BY <1>11, <1>12, <1>13, <1>14, <1>15 DEF BrokerInv

LEMMA LeavingKeeps ==
    ASSUME BrokerInv, NEW r \in Readers, ReadError(r) \/ ClientGone(r)
    PROVE  BrokerInv'
<1>1. TypeOK
  BY DEF BrokerInv
<1>2. /\ reader[r] = "reading" /\ reader' = [reader EXCEPT ![r] = "leaving"]
      /\ UNCHANGED <<streams, entry, run, actor, verdicts, counted, cleanups, found, cursor, got,
                     published, pruned>>
  BY DEF ReadError, ClientGone
<1>3. reader \in [Readers -> {"away", "found", "reading", "leaving", "removing", "done"}]
  BY <1>1 DEF TypeOK
<1>4. /\ reader' \in [Readers -> {"away", "found", "reading", "leaving", "removing", "done"}]
      /\ \A q \in Readers : \/ reader'[q] = reader[q]
                            \/ /\ reader[q] \notin {"away", "found"}
                               /\ reader'[q] \notin {"away", "found", "reading"}
  BY <1>2, <1>3
<1>5. Kept /\ SameStatus /\ SameReaders /\ CleanupsOK'
  BY <1>1, <1>2, SameStreams, FewerCleanups
<1> QED
  BY <1>2, <1>4, <1>5, IdleKeeps

LEMMA UnsubscribeKeeps ==
    ASSUME BrokerInv, NEW r \in Readers, Unsubscribe(r)
    PROVE  BrokerInv'
<1>1. TypeOK /\ EmptyInv /\ SubscriberInv
  BY DEF BrokerInv
<1> DEFINE left == streams[entry].subscribers \ {r}
           s == [streams[entry] EXCEPT !.subscribers = left]
<1>2. /\ reader[r] = "leaving"
      /\ entry = 0 => streams' = streams
      /\ entry # 0 => Changed(entry, s)
      /\ \/ reader' = [reader EXCEPT ![r] = "removing"]
         \/ reader' = [reader EXCEPT ![r] = "done"]
      /\ UNCHANGED <<entry, run, actor, verdicts, counted, cleanups, found, cursor, got, published,
                     pruned>>
  BY DEF Unsubscribe, Changed
<1>3. reader \in [Readers -> {"away", "found", "reading", "leaving", "removing", "done"}]
  BY <1>1 DEF TypeOK
<1>4. /\ reader' \in [Readers -> {"away", "found", "reading", "leaving", "removing", "done"}]
      /\ reader'[r] \in {"removing", "done"}
      /\ \A q \in Readers : q # r => reader'[q] = reader[q]
  BY <1>2, <1>3
<1>5. /\ Kept /\ SameStatus /\ Len(streams') = Len(streams) /\ DOMAIN streams' = DOMAIN streams
      /\ \A i \in DOMAIN streams : streams'[i].subscribers \subseteq streams[i].subscribers
  <2>1. CASE entry = 0
    BY <1>1, <1>2, <2>1, SameStreams
  <2>2. CASE entry # 0
    <3>1. /\ entry \in DOMAIN streams /\ streams[entry] \in Stream
          /\ left \in SUBSET Readers /\ left \subseteq streams[entry].subscribers
      BY <1>1, <2>2, Ids0, StreamTypes
    <3> HIDE DEF left
    <3>2. /\ s \in Stream /\ s.closed = streams[entry].closed /\ s.known = streams[entry].known
          /\ s.backlog = streams[entry].backlog /\ s.subscribers = left
      BY <3>1, Leaves
    <3> HIDE DEF s
    <3>3. /\ Kept /\ DOMAIN streams' = DOMAIN streams /\ Len(streams') = Len(streams)
          /\ streams'[entry] = s /\ \A j \in DOMAIN streams \ {entry} : streams'[j] = streams[j]
          /\ SameStatus
      BY <1>1, <1>2, <2>2, <3>1, <3>2, OneChanges
    <3> QED
      BY <3>1, <3>2, <3>3
  <2> QED
    BY <2>1, <2>2
<1>6. EmptyInv' /\ BacklogInv' /\ CapInv'
  <2>1. run = 0 => \A q \in Readers : cursor'[q] = 0 /\ got'[q] = <<>>
    BY <1>1, <1>2 DEF EmptyInv
  <2> QED
    BY <1>2, <1>5, <2>1, QuietRun
<1>7. ServingInv'
  BY <1>2, <1>5, QuietServing
<1>8. SubscriberInv'
  <2>1. ASSUME NEW i \in DOMAIN streams', NEW q \in streams'[i].subscribers
        PROVE  found'[q] = i /\ reader'[q] # "away"
    <3>1. i \in DOMAIN streams /\ q \in streams[i].subscribers
      BY <1>5, <2>1
    <3>2. q \in Readers /\ found[q] = i /\ reader[q] # "away"
      BY <1>1, <3>1, Ids0, StreamTypes DEF SubscriberInv
    <3> QED
      BY <1>2, <1>4, <3>2
  <2>2. \A q \in Readers : reader'[q] # "away" => found'[q] # 0
    BY <1>1, <1>2, <1>4 DEF SubscriberInv
  <2> QED
    BY <2>1, <2>2 DEF SubscriberInv
<1>9. ReaderInv'
  BY <1>2, <1>4, QuietReaders
<1>10. CleanupsOK'
  BY <1>1, <1>2, FewerCleanups
<1>11. TypeOK'
  BY <1>1, <1>2, <1>4, <1>5, <1>10 DEF TypeOK, Kept, CleanupsOK, ArmedOnce
<1> QED
  BY <1>6, <1>7, <1>8, <1>9, <1>11 DEF BrokerInv

LEMMA TidyUpKeeps ==
    ASSUME BrokerInv, NEW r \in Readers, TidyUp(r)
    PROVE  BrokerInv'
<1>1. TypeOK
  BY DEF BrokerInv
<1>2. /\ reader[r] = "removing" /\ reader' = [reader EXCEPT ![r] = "done"] /\ RemoveIfIdle({})
      /\ UNCHANGED <<run, actor, verdicts, counted, found, cursor, got, published, pruned>>
  BY DEF TidyUp
<1>3. reader \in [Readers -> {"away", "found", "reading", "leaving", "removing", "done"}]
  BY <1>1 DEF TypeOK
<1>4. /\ reader' \in [Readers -> {"away", "found", "reading", "leaving", "removing", "done"}]
      /\ \A q \in Readers : \/ reader'[q] = reader[q]
                            \/ /\ reader[q] \notin {"away", "found"}
                               /\ reader'[q] \notin {"away", "found", "reading"}
  BY <1>2, <1>3
<1>5. /\ Kept /\ SameStatus /\ SameReaders /\ Len(streams') = Len(streams)
      /\ CleanupsOK' /\ entry' \in {0, entry}
      /\ actor = "serving" => entry' = entry
  BY <1>2, RemoveFacts
<1> QED
  BY <1>2, <1>4, <1>5, IdleKeeps

-----------------------------------------------------------------------------
(* The theorems.                                                           *)
LEMMA BrokerStarts == Init => BrokerInv
<1> SUFFICES ASSUME Init PROVE BrokerInv
  OBVIOUS
<1>1. /\ <<>> \in Seq(Stream) /\ <<>> \in Seq(Event) /\ Len(streams) = 0 /\ DOMAIN streams = {}
      /\ DOMAIN published = {}
  BY EmptySeq DEF Init
<1>2. TypeOK
  <2>1. 0 \in 0..Cardinality(Readers)
    BY CapIsNat, FS_CardinalityType
  <2>2. 0 \in 0..MaxVerdicts /\ 0 <= MaxStreams /\ 0 \in 0..0
    BY CapIsNat
  <2> QED
    BY <1>1, <2>1, <2>2 DEF Init, TypeOK
<1>3. EmptyInv /\ ServingInv /\ BacklogInv /\ CapInv /\ SubscriberInv
  BY <1>1 DEF Init, EmptyInv, ServingInv, BacklogInv, CapInv, SubscriberInv
<1>4. ReaderInv
  BY DEF Init, ReaderInv
<1> QED
  BY <1>2, <1>3, <1>4 DEF BrokerInv

LEMMA BrokerStep == BrokerInv /\ [Next]_vars => BrokerInv'
<1> SUFFICES ASSUME BrokerInv, [Next]_vars PROVE BrokerInv'
  OBVIOUS
<1>1. CASE ActorSteps
  BY <1>1, OpenRunKeeps, PublishKeeps, CloseStreamKeeps, PublishEndKeeps, ScheduleCleanupKeeps
     DEF ActorSteps
<1>2. CASE CleanupSteps
  BY <1>2, CleanupKeeps
<1>3. CASE \E r \in Readers : ReaderSteps(r)
  BY <1>3, FindKeeps, RegisterKeeps, ReadKeeps, LeavingKeeps, UnsubscribeKeeps, TidyUpKeeps
     DEF ReaderSteps
<1>4. CASE UNCHANGED vars
  BY <1>4 DEF vars, BrokerInv, TypeOK, EmptyInv, ServingInv, BacklogInv, CapInv, SubscriberInv,
              ReaderInv, Sent
<1> QED
  BY <1>1, <1>2, <1>3, <1>4 DEF Next

(* Every variable of the broker keeps its type: among others, no stream has *)
(* two cleanup timers armed, and the counted subscribers are readers.       *)
THEOREM BrokerTypeCorrect == Spec => []TypeOK
<1>1. BrokerInv => TypeOK
  BY DEF BrokerInv
<1> QED
  BY BrokerStarts, BrokerStep, <1>1, PTL DEF Spec

LEMMA SkipsNothing == BrokerInv => NothingSkipped
<1> SUFFICES ASSUME BrokerInv PROVE NothingSkipped
  OBVIOUS
<1>1. TypeOK /\ CapInv /\ SubscriberInv /\ ReaderInv
  BY DEF BrokerInv
<1>2. NoEventSkipped
  <2>1. ASSUME ~pruned, NEW r \in Readers, Subscribed(r)
        PROVE  /\ got[r] = SubSeq(published, 1, cursor[r])
               /\ \A k \in 1..Len(got[r]) : ~got[r][k].end
    <3>1. /\ reader[r] = "reading" /\ entry = run /\ entry # 0 /\ r \in streams[entry].subscribers
      BY <2>1 DEF Subscribed
    <3>2. entry \in DOMAIN streams
      BY <1>1, <3>1, Ids0
    <3>3. found[r] = run
      BY <1>1, <3>1, <3>2 DEF SubscriberInv
    <3>4. Sent(r)
      BY <1>1, <2>1, <3>1, <3>3 DEF ReaderInv
    <3>5. got[r] \in Seq(Event)
      BY <1>1 DEF TypeOK
    <3>6. DOMAIN got[r] = 1..Len(got[r])
      BY <3>5, EndsFinite
    <3> QED
      BY <3>4, <3>6 DEF Sent
  <2> QED
    BY <2>1 DEF NoEventSkipped
<1>3. EndSurvivesCap
  <2>1. ASSUME run # 0
        PROVE  LET log == streams[run].backlog
                   ends == {k \in DOMAIN log : log[k].end}
               IN  /\ (\E k \in DOMAIN published : published[k].end) => ends # {}
                   /\ Len(log) <= BacklogCap + Cardinality(ends)
    BY <1>1, <2>1 DEF CapInv, Ends
  <2> QED
    BY <2>1 DEF EndSurvivesCap
<1> QED
  BY <1>2, <1>3 DEF NothingSkipped

(* However many readers come and go and whatever the cap is: until the     *)
(* backlog is cut, a reader subscribed to the run's stream has been sent    *)
(* exactly the events before its cursor, and the cut never takes the        *)
(* endstream nor leaves more than the cap and the endstreams.               *)
THEOREM ReadersSkipNothing == Spec => []NothingSkipped
BY BrokerStarts, BrokerStep, SkipsNothing, PTL DEF Spec
=============================================================================
