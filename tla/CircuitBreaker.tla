--------------------------- MODULE CircuitBreaker ---------------------------
(***************************************************************************)
(* The per-channel circuit breaker of                                      *)
(* internal/backend/agent/model/circuit_breaker.go as operators on a       *)
(* breaker record.  Every exported method of the Go type holds cb.mu for   *)
(* its whole body, so each is one operator and one atomic step of whoever  *)
(* applies it (module FailoverRouter).                                     *)
(*                                                                         *)
(* Wall-clock time is abstracted to the field "cooled": TimeoutSeconds     *)
(* have passed since lastOpenedAt.  The lifetime totals and the failure    *)
(* reason, which no decision reads, are left out.                          *)
(***************************************************************************)
EXTENDS Naturals, Sequences

CONSTANTS
    FailureThreshold,   \* consecutive failures that open a closed breaker
    SuccessThreshold,   \* half-open successes that close it
    MinRequests,        \* results needed before the error rate counts
    WindowSize,         \* circuitBreakerRecentWindowSize
    RateNum, RateDen    \* ErrorRateThreshold as the fraction RateNum / RateDen

ASSUME BreakerAssumption ==
    /\ FailureThreshold \in Nat \ {0}
    /\ SuccessThreshold \in Nat \ {0}
    /\ MinRequests \in Nat \ {0}
    /\ WindowSize \in Nat \ {0}
    /\ RateNum \in Nat \ {0}
    /\ RateDen \in Nat \ {0}

CircuitState == {"closed", "open", "half_open"}

Breaker ==
    [ state : CircuitState,
      consecutiveFailures : Nat,
      consecutiveSuccesses : Nat,
      halfOpenInFlight : Nat,
      recentResults : Seq(BOOLEAN),   \* TRUE is a success
      windowFailed : Nat,
      cooled : BOOLEAN ]

NewCircuitBreaker ==
    [ state |-> "closed", consecutiveFailures |-> 0, consecutiveSuccesses |-> 0,
      halfOpenInFlight |-> 0, recentResults |-> <<>>, windowFailed |-> 0,
      cooled |-> FALSE ]

-----------------------------------------------------------------------------
(* Transitions made under the lock. *)

transitionToOpen(cb) ==
    [cb EXCEPT !.state = "open", !.cooled = FALSE,
               !.consecutiveFailures = 0, !.consecutiveSuccesses = 0]

transitionToHalfOpen(cb) ==
    [cb EXCEPT !.state = "half_open", !.consecutiveSuccesses = 0,
               !.halfOpenInFlight = 0]

transitionToClosed(cb) ==
    [cb EXCEPT !.state = "closed", !.consecutiveFailures = 0,
               !.consecutiveSuccesses = 0, !.recentResults = <<>>,
               !.windowFailed = 0]

(* Fault: a permit given back twice drives the counter below zero. *)
decrementUnguarded(n) == n - 1

decrement(n) == IF n > 0 THEN n - 1 ELSE 0

releaseHalfOpenPermit(cb, usedPermit) ==
    IF usedPermit THEN [cb EXCEPT !.halfOpenInFlight = decrement(@)] ELSE cb

(* The window is a ring: a full one drops its oldest result first. *)
pushRecentResult(cb, failed) ==
    LET full    == Len(cb.recentResults) >= WindowSize
        dropped == full /\ ~Head(cb.recentResults)
        kept    == IF full THEN Tail(cb.recentResults) ELSE cb.recentResults
        left    == IF dropped THEN decrement(cb.windowFailed) ELSE cb.windowFailed
    IN  [cb EXCEPT !.recentResults = Append(kept, ~failed),
                   !.windowFailed = IF failed THEN left + 1 ELSE left]

errorRateReached(cb) ==
    LET n == Len(cb.recentResults)
    IN  n >= MinRequests /\ cb.windowFailed * RateDen >= RateNum * n

-----------------------------------------------------------------------------
(* The exported methods. *)

(* Read-only: orders candidates, takes no permit and makes no transition. *)
IsAvailable(cb) == cb.state = "open" => cb.cooled

(* The breaker an AllowRequest call decides on: an open breaker whose      *)
(* timeout has passed is first moved to half-open.                         *)
probed(cb) ==
    IF cb.state = "open" /\ cb.cooled THEN transitionToHalfOpen(cb) ELSE cb

Allowed(cb) ==
    \/ probed(cb).state = "closed"
    \/ probed(cb).state = "half_open" /\ probed(cb).halfOpenInFlight < 1

UsesHalfOpenPermit(cb) == Allowed(cb) /\ probed(cb).state = "half_open"

AllowRequest(cb) ==
    IF UsesHalfOpenPermit(cb)
    THEN [probed(cb) EXCEPT !.halfOpenInFlight = @ + 1]
    ELSE probed(cb)

RecordSuccess(cb, usedPermit) ==
    LET noted  == [pushRecentResult(releaseHalfOpenPermit(cb, usedPermit), FALSE)
                     EXCEPT !.consecutiveFailures = 0]
        probe  == [noted EXCEPT !.consecutiveSuccesses = @ + 1]
    IN  IF cb.state # "half_open" THEN noted
        ELSE IF probe.consecutiveSuccesses >= SuccessThreshold
             THEN transitionToClosed(probe) ELSE probe

RecordFailure(cb, usedPermit) ==
    LET noted == [pushRecentResult(releaseHalfOpenPermit(cb, usedPermit), TRUE)
                    EXCEPT !.consecutiveFailures = @ + 1,
                           !.consecutiveSuccesses = 0]
    IN  IF \/ cb.state = "half_open"
           \/ /\ cb.state = "closed"
              /\ \/ noted.consecutiveFailures >= FailureThreshold
                 \/ errorRateReached(noted)
        THEN transitionToOpen(noted)
        ELSE noted

ReleaseHalfOpenPermit(cb, usedPermit) == releaseHalfOpenPermit(cb, usedPermit)
=============================================================================
