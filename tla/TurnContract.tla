---------------------------- MODULE TurnContract ----------------------------
(***************************************************************************)
(* What a request of the forwarder promises its client, whatever the order *)
(* in which the model, the tools, the timers and the user are heard:       *)
(*                                                                         *)
(*   - a tool call is made by a model that is at work, and once answered   *)
(*     it stays answered;                                                  *)
(*   - the model goes back to work only when every call of the turn has    *)
(*     its answer (or the history refused it);                             *)
(*   - a turn is declared complete only when the model rests and no call   *)
(*     is left open, detached calls excepted;                              *)
(*   - the first verdict is the last thing that happens.                   *)
(***************************************************************************)
CONSTANTS
    Calls,              \* the tool calls the model can make
    Detached            \* those a completed turn may leave unanswered

VARIABLES
    verdict,            \* "open", or how the request ended
    thinking,           \* the model is at work
    asked,              \* calls of the current turn
    answered,           \* calls of the current turn whose result is known
    lost                \* calls whose result the history refused

vars == <<verdict, thinking, asked, answered, lost>>

Verdicts == {"completed", "canceled", "failed"}

Settled == answered \cup lost

Init ==
    /\ verdict = "open"
    /\ thinking = FALSE
    /\ asked = {}
    /\ answered = {}
    /\ lost = {}

(* The client starts another turn on the same request. *)
NewTurn ==
    /\ asked' = {}
    /\ answered' = {}

(* The current turn goes on: calls and answers only accumulate. *)
SameTurn ==
    /\ asked \subseteq asked'
    /\ asked' \subseteq Calls
    /\ asked' # asked => thinking
    /\ answered \subseteq answered'
    /\ answered' \subseteq asked'

Next ==
    /\ verdict = "open"
    /\ verdict' \in Verdicts \cup {"open"}
    /\ thinking' \in BOOLEAN
    /\ lost \subseteq lost'
    /\ lost' \subseteq Calls
    /\ NewTurn \/ SameTurn
    /\ ~thinking /\ thinking' => asked' \subseteq Settled'
    /\ verdict' = "completed" =>
          ~thinking' /\ asked' \ Detached \subseteq Settled'

Spec == Init /\ [][Next]_vars
=============================================================================
