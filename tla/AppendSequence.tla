--------------------------- MODULE AppendSequence ---------------------------
(***************************************************************************)
(* The tracker that puts the BidiAppend calls of one request id in order   *)
(* (internal/backend/forwarder/append_seq.go). Each call takes the state's *)
(* lock, is told that it is stale, is let through, or waits for the next   *)
(* release; the handler runs between Acquire and Release. A waiter holds   *)
(* the ready channel it read under the lock, so it never misses a release: *)
(* waiting is being disabled.                                              *)
(***************************************************************************)
EXTENDS Integers, Sequences, FiniteSets

CONSTANTS
    Calls,              \* BidiAppend calls the client may make
    MaxTurns,           \* bound: turns that reuse the request id
    MaxSeqno,           \* bound: messages of a turn
    OrderlyStart        \* the client waits for the answer to the first
                        \* message of a turn before it sends the others

ASSUME AppendAssumption ==
    /\ {MaxTurns, MaxSeqno} \subseteq Nat \ {0}
    /\ OrderlyStart \in BOOLEAN

VARIABLES
    next,               \* the sequence number the state lets through
    processing,         \* somebody is between Acquire and Release
    call,               \* each call: its message and where it stands
    turn,               \* the turn the client is in
    handled,            \* history: the messages handled, in order
    staled,             \* history: messages answered as stale
    expired             \* history: the state was thrown away when it was old

appendVars == <<next, processing, call, turn, handled, staled, expired>>

Message == [turn : 1..MaxTurns, seq : 1..MaxSeqno]
NoMessage == [turn |-> 0, seq |-> 0]
Call == [pc : {"unused", "waiting", "inside", "returned"},
         msg : Message \cup {NoMessage},
         orphan : BOOLEAN]

AppendTypeOK ==
    /\ next \in 1..(MaxSeqno + 1)
    /\ processing \in BOOLEAN
    /\ call \in [Calls -> Call]
    /\ turn \in 1..MaxTurns
    /\ handled \in Seq(Message)
    /\ staled \subseteq Message
    /\ expired \in BOOLEAN
    /\ processing <=> \E c \in Calls : call[c].pc = "inside"

AppendInit ==
    /\ next = 1
    /\ processing = FALSE
    /\ call = [c \in Calls |-> [pc |-> "unused", msg |-> NoMessage,
                                orphan |-> FALSE]]
    /\ turn = 1
    /\ handled = <<>>
    /\ staled = {}
    /\ expired = FALSE

Handled(m) == \E i \in DOMAIN handled : handled[i] = m
Outstanding(c) == call[c].pc \in {"waiting", "inside"}

-----------------------------------------------------------------------------
(* The client. A call that got no answer is repeated, so a message may be  *)
(* sent twice and overtaken by later ones. With OrderlyStart the first     *)
(* message of a turn, which restarts the sequence, goes ahead of the       *)
(* others and is repeated only when it was given up before it was let in.  *)
Send(c, n) ==
    LET m == [turn |-> turn, seq |-> n]
    IN  /\ call[c].pc = "unused"
        /\ OrderlyStart =>
               IF n = 1
               THEN /\ ~Handled(m)
                    /\ \A d \in Calls : Outstanding(d) => call[d].msg # m
               ELSE Handled([m EXCEPT !.seq = 1])
        /\ call' = [call EXCEPT ![c] = [pc |-> "waiting", msg |-> m,
                                        orphan |-> FALSE]]
        /\ UNCHANGED <<next, processing, turn, handled, staled, expired>>

(* The next turn begins when all calls of this one have been answered. *)
NextTurn ==
    /\ turn < MaxTurns
    /\ Handled([turn |-> turn, seq |-> 1])
    /\ \A c \in Calls : ~Outstanding(c)
    /\ turn' = turn + 1
    /\ UNCHANGED <<next, processing, call, handled, staled, expired>>

(* The call's context ends while it waits. *)
GiveUp(c) ==
    /\ call[c].pc = "waiting"
    /\ call' = [call EXCEPT ![c].pc = "returned"]
    /\ UNCHANGED <<next, processing, turn, handled, staled, expired>>

-----------------------------------------------------------------------------
(* acquire: the first number restarts a sequence that is idle. *)
Restarts(n) == n = 1 /\ next > 1

StaleUpToNext(n) == n <= next
Stale(n) == n < next /\ ~Restarts(n)

AdmittedAhead(n) == ~processing /\ (n >= next \/ Restarts(n))
Admitted(n) == ~processing /\ (n = next \/ Restarts(n))

AnswerStale(c) ==
    /\ call[c].pc = "waiting" /\ ~call[c].orphan
    /\ Stale(call[c].msg.seq)
    /\ call' = [call EXCEPT ![c].pc = "returned"]
    /\ staled' = staled \cup {call[c].msg}
    /\ UNCHANGED <<next, processing, turn, handled, expired>>

Enter(c) ==
    /\ call[c].pc = "waiting" /\ ~call[c].orphan
    /\ Admitted(call[c].msg.seq)
    /\ next' = call[c].msg.seq
    /\ processing' = TRUE
    /\ call' = [call EXCEPT ![c].pc = "inside"]
    /\ UNCHANGED <<turn, handled, staled, expired>>

(* Release: only the call that holds the state moves the sequence on. *)
NextKept(seq) == next
NextAfterRelease(seq) == IF processing /\ next = seq THEN next + 1 ELSE next

(* The handler is through, well or badly, and Release lets the next in. *)
Leave(c) ==
    /\ call[c].pc = "inside"
    /\ next' = NextAfterRelease(call[c].msg.seq)
    /\ processing' = (processing /\ next # call[c].msg.seq)
    /\ call' = [call EXCEPT ![c].pc = "returned"]
    /\ handled' = Append(handled, call[c].msg)
    /\ UNCHANGED <<turn, staled, expired>>

(* Ten minutes without a call: the next lookup throws the state away. Who  *)
(* waits on it keeps waiting there; who comes later finds a fresh one.     *)
Expire ==
    /\ ~processing
    /\ next > 1
    /\ next' = 1
    /\ expired' = TRUE
    /\ call' = [c \in Calls |-> [call[c] EXCEPT !.orphan =
                                    @ \/ call[c].pc = "waiting"]]
    /\ UNCHANGED <<processing, turn, handled, staled>>

Steps(c) == AnswerStale(c) \/ Enter(c) \/ Leave(c)

AppendNext ==
    \/ \E c \in Calls :
          \/ \E n \in 1..MaxSeqno : Send(c, n)
          \/ Steps(c)
          \/ GiveUp(c)
    \/ NextTurn
    \/ Expire

AppendSpec == AppendInit /\ [][AppendNext]_appendVars

FairAppendSpec == AppendSpec /\ \A c \in Calls : WF_appendVars(Steps(c))

-----------------------------------------------------------------------------
(* Properties *)

(* The messages of a turn are handled in the client's order, none skipped  *)
(* and none twice, however the calls overtake each other, are repeated or  *)
(* give up; a turn never goes back to an earlier one.                      *)
InOrderOnce ==
    \A i \in DOMAIN handled :
        IF i > 1 /\ handled[i].turn = handled[i - 1].turn
        THEN handled[i].seq = handled[i - 1].seq + 1
        ELSE /\ handled[i].seq = 1
             /\ i > 1 => handled[i].turn > handled[i - 1].turn

(* A message answered as stale, which the client takes for done, has been  *)
(* handled. The comment on the restart in acquire wants it of every turn:  *)
(* tool results are not discarded as stale.                                *)
NothingDiscarded == \A m \in staled : Handled(m)

(* A call whose predecessors have been handled gets its turn, if the state *)
(* is not thrown away under it.                                            *)
Ready(c) ==
    /\ call[c].pc = "waiting"
    /\ \/ call[c].msg.seq = 1
       \/ Handled([call[c].msg EXCEPT !.seq = @ - 1])

NobodyStarves ==
    \A c \in Calls : (Ready(c) /\ ~expired) ~> (~Ready(c) \/ expired)
=============================================================================
