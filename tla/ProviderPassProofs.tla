------------------------- MODULE ProviderPassProofs -------------------------
(***************************************************************************)
(* Theorems about a pass to a provider, for any set of requests, channels, *)
(* calls and any thresholds and budgets.                                   *)
(*                                                                         *)
(* The router (FailoverRouter): the variables keep their types, no         *)
(* half-open permit is ever lost, and only a fault of the provider opens a *)
(* breaker.  The answer of one channel (ProviderStream): what reaches the  *)
(* sink is what the provider said, and a success is never silent.          *)
(***************************************************************************)
EXTENDS FailoverRouter, ProviderStream, SequenceTheorems, FiniteSetTheorems,
        WellFoundedInduction, TLAPS

-----------------------------------------------------------------------------
(* The router *)

(* What each breaker method returns is a breaker. *)
LEMMA TransitionsType ==
    ASSUME NEW cb \in Breaker
    PROVE  /\ transitionToOpen(cb) \in Breaker
           /\ transitionToHalfOpen(cb) \in Breaker
           /\ transitionToClosed(cb) \in Breaker
<1>1. <<>> \in Seq(BOOLEAN)
  OBVIOUS
<1>2. transitionToOpen(cb) \in Breaker
  BY DEF Breaker, CircuitState, transitionToOpen
<1>3. transitionToHalfOpen(cb) \in Breaker
  BY DEF Breaker, CircuitState, transitionToHalfOpen
<1>4. transitionToClosed(cb) \in Breaker
  BY <1>1 DEF Breaker, CircuitState, transitionToClosed
<1> QED BY <1>2, <1>3, <1>4

LEMMA ReleaseType ==
    ASSUME NEW cb \in Breaker, NEW p \in BOOLEAN
    PROVE  releaseHalfOpenPermit(cb, p) \in Breaker
BY DEF Breaker, releaseHalfOpenPermit, decrement

(* The window stays a sequence of results and its count a natural number.  *)
LEMMA PushType ==
    ASSUME NEW cb \in Breaker, NEW f \in BOOLEAN
    PROVE  pushRecentResult(cb, f) \in Breaker
<1> DEFINE full    == Len(cb.recentResults) >= WindowSize
           dropped == full /\ ~Head(cb.recentResults)
           kept    == IF full THEN Tail(cb.recentResults) ELSE cb.recentResults
           left    == IF dropped THEN decrement(cb.windowFailed)
                      ELSE cb.windowFailed
<1>1. cb.recentResults \in Seq(BOOLEAN) /\ cb.windowFailed \in Nat
  BY DEF Breaker
<1>2. kept \in Seq(BOOLEAN)
  <2>1. CASE full
    <3>1. cb.recentResults # <<>>
      BY <1>1, <2>1, BreakerAssumption
    <3>2. Tail(cb.recentResults) \in Seq(BOOLEAN)
      BY <1>1, <3>1, HeadTailProperties, Zenon
    <3> QED BY <2>1, <3>2
  <2>2. CASE ~full
    BY <1>1, <2>2
  <2> QED BY <2>1, <2>2
<1>3. Append(kept, ~f) \in Seq(BOOLEAN)
  <2> HIDE DEF kept
  <2> QED BY <1>2
<1>4. left \in Nat /\ left + 1 \in Nat
  <2>1. decrement(cb.windowFailed) \in Nat
    BY <1>1 DEF decrement
  <2> HIDE DEF dropped
  <2> QED BY <1>1, <2>1
<1> HIDE DEF kept, left
<1>5. pushRecentResult(cb, f) =
        [cb EXCEPT !.recentResults = Append(kept, ~f),
                   !.windowFailed = IF f THEN left + 1 ELSE left]
  BY DEF pushRecentResult, kept, left
<1> QED BY <1>3, <1>4, <1>5 DEF Breaker

(* Counting a result leaves everything but the window alone. *)
LEMMA PushFrame ==
    ASSUME NEW cb \in Breaker, NEW f \in BOOLEAN
    PROVE  /\ pushRecentResult(cb, f).state = cb.state
           /\ pushRecentResult(cb, f).halfOpenInFlight = cb.halfOpenInFlight
           /\ pushRecentResult(cb, f).consecutiveFailures = cb.consecutiveFailures
BY DEF Breaker, pushRecentResult

LEMMA RecordSuccessType ==
    ASSUME NEW cb \in Breaker, NEW p \in BOOLEAN
    PROVE  /\ RecordSuccess(cb, p) \in Breaker
           /\ RecordSuccess(cb, p).halfOpenInFlight
                = releaseHalfOpenPermit(cb, p).halfOpenInFlight
<1> DEFINE rel   == releaseHalfOpenPermit(cb, p)
           push  == pushRecentResult(rel, FALSE)
           noted == [push EXCEPT !.consecutiveFailures = 0]
           probe == [noted EXCEPT !.consecutiveSuccesses = @ + 1]
<1>1. rel \in Breaker
  BY ReleaseType
<1>2. push \in Breaker /\ push.halfOpenInFlight = rel.halfOpenInFlight
  <2> HIDE DEF rel
  <2> QED BY <1>1, PushType, PushFrame
<1>3. noted \in Breaker /\ noted.halfOpenInFlight = rel.halfOpenInFlight
  <2> HIDE DEF push, rel
  <2> QED BY <1>2 DEF Breaker
<1>4. probe \in Breaker /\ probe.halfOpenInFlight = rel.halfOpenInFlight
  <2> HIDE DEF noted, rel
  <2>1. noted.consecutiveSuccesses + 1 \in Nat
    BY <1>3 DEF Breaker
  <2> QED BY <1>3, <2>1 DEF Breaker
<1>5. /\ transitionToClosed(probe) \in Breaker
      /\ transitionToClosed(probe).halfOpenInFlight = rel.halfOpenInFlight
  <2> HIDE DEF probe, rel
  <2> QED BY <1>4, TransitionsType DEF transitionToClosed, Breaker
<1>6. RecordSuccess(cb, p) \in {noted, probe, transitionToClosed(probe)}
  BY DEF RecordSuccess
<1> HIDE DEF rel, push, noted, probe
<1>7. /\ RecordSuccess(cb, p) \in Breaker
      /\ RecordSuccess(cb, p).halfOpenInFlight = rel.halfOpenInFlight
  BY <1>3, <1>4, <1>5, <1>6
<1> QED BY <1>7 DEF rel

LEMMA RecordFailureType ==
    ASSUME NEW cb \in Breaker, NEW p \in BOOLEAN
    PROVE  /\ RecordFailure(cb, p) \in Breaker
           /\ RecordFailure(cb, p).halfOpenInFlight
                = releaseHalfOpenPermit(cb, p).halfOpenInFlight
<1> DEFINE rel   == releaseHalfOpenPermit(cb, p)
           push  == pushRecentResult(rel, TRUE)
           noted == [push EXCEPT !.consecutiveFailures = @ + 1,
                                 !.consecutiveSuccesses = 0]
<1>1. rel \in Breaker
  BY ReleaseType
<1>2. push \in Breaker /\ push.halfOpenInFlight = rel.halfOpenInFlight
  <2> HIDE DEF rel
  <2> QED BY <1>1, PushType, PushFrame
<1>3. noted \in Breaker /\ noted.halfOpenInFlight = rel.halfOpenInFlight
  <2> HIDE DEF push, rel
  <2>1. push.consecutiveFailures + 1 \in Nat
    BY <1>2 DEF Breaker
  <2> QED BY <1>2, <2>1 DEF Breaker
<1>4. /\ transitionToOpen(noted) \in Breaker
      /\ transitionToOpen(noted).halfOpenInFlight = rel.halfOpenInFlight
  <2> HIDE DEF noted, rel
  <2> QED BY <1>3, TransitionsType DEF transitionToOpen, Breaker
<1>5. RecordFailure(cb, p) \in {noted, transitionToOpen(noted)}
  BY DEF RecordFailure
<1> HIDE DEF rel, push, noted
<1>6. /\ RecordFailure(cb, p) \in Breaker
      /\ RecordFailure(cb, p).halfOpenInFlight = rel.halfOpenInFlight
  BY <1>3, <1>4, <1>5
<1> QED BY <1>6 DEF rel

(* Admission takes at most one permit, and only of a breaker that then     *)
(* counted none.                                                           *)
LEMMA AllowRequestType ==
    ASSUME NEW cb \in Breaker, Allowed(cb)
    PROVE  /\ AllowRequest(cb) \in Breaker
           /\ UsesHalfOpenPermit(cb) \in BOOLEAN
           /\ UsesHalfOpenPermit(cb) => AllowRequest(cb).halfOpenInFlight = 1
           /\ ~UsesHalfOpenPermit(cb) =>
                 AllowRequest(cb).halfOpenInFlight = cb.halfOpenInFlight
<1>1. probed(cb) \in Breaker
  BY TransitionsType DEF probed
<1>2. UsesHalfOpenPermit(cb) => probed(cb).halfOpenInFlight = 0
  BY <1>1 DEF UsesHalfOpenPermit, Allowed, Breaker
<1>3. ~UsesHalfOpenPermit(cb) => probed(cb) = cb
  BY DEF UsesHalfOpenPermit, Allowed, probed, transitionToHalfOpen, Breaker
<1>4. AllowRequest(cb) \in Breaker
  <2> DEFINE probe == probed(cb)
             asked == [probe EXCEPT !.halfOpenInFlight = @ + 1]
  <2>1. AllowRequest(cb) \in {asked, probe}
    BY DEF AllowRequest
  <2> HIDE DEF probe
  <2>2. probe \in Breaker
    BY <1>1 DEF probe
  <2>3. asked \in Breaker
    <3>1. probe.halfOpenInFlight + 1 \in Nat
      BY <2>2 DEF Breaker
    <3> QED BY <2>2, <3>1 DEF Breaker
  <2> QED BY <2>1, <2>2, <2>3
<1>5. UsesHalfOpenPermit(cb) => AllowRequest(cb).halfOpenInFlight = 1
  BY <1>1, <1>2 DEF AllowRequest, Breaker
<1>6. ~UsesHalfOpenPermit(cb) => AllowRequest(cb) = cb
  BY <1>3 DEF AllowRequest
<1>7. UsesHalfOpenPermit(cb) \in BOOLEAN
  BY DEF UsesHalfOpenPermit, Allowed
<1> QED BY <1>4, <1>5, <1>6, <1>7

(* Giving a permit back empties a counter of at most one; without a permit *)
(* the counter stays.                                                      *)
LEMMA ReleaseCount ==
    ASSUME NEW cb \in Breaker, NEW p \in BOOLEAN, cb.halfOpenInFlight \in {0, 1}
    PROVE  releaseHalfOpenPermit(cb, p).halfOpenInFlight
              = IF p THEN 0 ELSE cb.halfOpenInFlight
BY DEF Breaker, releaseHalfOpenPermit, decrement

-----------------------------------------------------------------------------
(* The strengthening of NoLeakedPermit that every step preserves: a request *)
(* past admission is on a channel, it holds a permit only while it runs,    *)
(* and no breaker counts more than one probe.                               *)
Located ==
    \A r \in Requests :
       /\ pc[r] \in {"admitted", "record", "decide"} => current[r] \in Channels
       /\ permit[r] => pc[r] \in {"admitted", "record"}

AtMostOneCounted ==
    \A c \in Channels : breakers[c].halfOpenInFlight \in {0, 1}

PermitInv == TypeOK /\ Located /\ AtMostOneCounted /\ NoLeakedPermit

(* Counters that stay and holders that stay keep every counted probe held. *)
LEMMA HoldersKept ==
    ASSUME NoLeakedPermit,
           \A c \in Channels :
              breakers'[c].halfOpenInFlight = breakers[c].halfOpenInFlight,
           \A r \in Requests, c \in Channels : Holder(r, c) => Holder(r, c)'
    PROVE  NoLeakedPermit'
BY Zenon DEF NoLeakedPermit

LEMMA PermitInvInit == Init => PermitInv
<1> SUFFICES ASSUME Init PROVE PermitInv
  OBVIOUS
<1>1. NewCircuitBreaker \in Breaker /\ NewCircuitBreaker.halfOpenInFlight = 0
  <2>1. <<>> \in Seq(BOOLEAN)
    OBVIOUS
  <2> QED BY <2>1 DEF NewCircuitBreaker, Breaker, CircuitState
<1>2. TypeOK
  BY <1>1 DEF Init, TypeOK, PC, Outcome
<1>3. Located
  BY DEF Init, Located
<1>4. AtMostOneCounted /\ NoLeakedPermit
  BY <1>1 DEF Init, AtMostOneCounted, NoLeakedPermit
<1> QED BY <1>2, <1>3, <1>4 DEF PermitInv

(* Steps that touch no breaker and no permit: the request moves, its holder *)
(* status does not.                                                         *)
LEMMA QuietSteps ==
    ASSUME PermitInv, NEW r \in Requests,
           \/ Submit(r) \/ SkipOpen(r) \/ Exhausted(r) \/ SinkEvent(r)
           \/ SinkFails(r) \/ StreamEnds(r) \/ Decide(r) \/ ClientCancels(r)
    PROVE  PermitInv'
<1> USE DEF PermitInv
<1>1. breakers' = breakers /\ permit' = permit
  BY DEF Submit, SkipOpen, Exhausted, SinkEvent, SinkFails, StreamEnds, Decide,
         ClientCancels
<1>2. AtMostOneCounted'
  BY <1>1 DEF AtMostOneCounted
<1>3. \A q \in Requests, c \in Channels : Holder(q, c) => Holder(q, c)'
  <2> SUFFICES ASSUME NEW q \in Requests, NEW c \in Channels, Holder(q, c)
               PROVE  Holder(q, c)'
    OBVIOUS
  <2>1. \/ pc'[q] = pc[q] /\ current'[q] = current[q]
        \/ pc[q] = "admitted" /\ pc'[q] = "record" /\ current'[q] = current[q]
    BY DEF Holder, TypeOK, Submit, SkipOpen, Exhausted, SinkEvent, SinkFails,
           StreamEnds, Decide, ClientCancels, Return, NextCandidate, Take
  <2> QED BY <1>1, <2>1 DEF Holder
<1>4. NoLeakedPermit'
  BY <1>1, <1>3, HoldersKept
<1>5. TypeOK' /\ Located'
  <2>1. CASE Submit(r)
    BY <2>1 DEF Submit, TypeOK, PC, Located
  <2>2. CASE SkipOpen(r)
    BY <2>2 DEF SkipOpen, Take, TypeOK, Located
  <2>3. CASE Exhausted(r)
    BY <2>3 DEF Exhausted, Return, TypeOK, PC, Outcome, Located
  <2>4. CASE SinkEvent(r)
    <3>1. current[r] \in Channels
      BY <2>4 DEF SinkEvent, Streaming, Located
    <3> QED BY <2>4, <3>1 DEF SinkEvent, TypeOK, Located
  <2>5. CASE SinkFails(r)
    BY <2>5 DEF SinkFails, Streaming, TypeOK, PC, Outcome, Located
  <2>6. CASE StreamEnds(r)
    <3>1. PICK o \in Outcome : outcome' = [outcome EXCEPT ![r] = o]
      BY <2>6 DEF StreamEnds, Outcome
    <3>2. TypeOK'
      BY <2>6, <3>1 DEF StreamEnds, TypeOK, PC
    <3>3. Located'
      BY <2>6 DEF StreamEnds, Streaming, TypeOK, Located
    <3> QED BY <3>2, <3>3
  <2>7. CASE Decide(r)
    <3>1. CASE Return(r)
      BY <2>7, <3>1 DEF Decide, Return, TypeOK, PC, Outcome, Located
    <3>2. CASE NextCandidate(r)
      BY <2>7, <3>2 DEF Decide, NextCandidate, TypeOK, PC, Outcome, Located
    <3> QED BY <2>7, <3>1, <3>2 DEF Decide
  <2>8. CASE ClientCancels(r)
    BY <2>8 DEF ClientCancels, TypeOK, Located
  <2> QED BY <2>1, <2>2, <2>3, <2>4, <2>5, <2>6, <2>7, <2>8
<1> QED BY <1>2, <1>4, <1>5

(* A request whose permit is given back stops being a holder; the counter   *)
(* of its channel, at most one, is then zero.                               *)
LEMMA GivenBack ==
    ASSUME PermitInv, NEW r \in Requests, NEW nb \in Breaker,
           current[r] \in Channels,
           nb.halfOpenInFlight =
              releaseHalfOpenPermit(breakers[current[r]], permit[r]).halfOpenInFlight,
           breakers' = [breakers EXCEPT ![current[r]] = nb],
           \A q \in Requests \ {r} :
              /\ pc'[q] = pc[q]
              /\ current'[q] = current[q]
              /\ permit'[q] = permit[q]
    PROVE  /\ breakers' \in [Channels -> Breaker]
           /\ AtMostOneCounted'
           /\ NoLeakedPermit'
<1> DEFINE c0 == current[r]
<1>1. /\ breakers[c0] \in Breaker
      /\ permit[r] \in BOOLEAN
      /\ breakers[c0].halfOpenInFlight \in {0, 1}
  BY DEF PermitInv, TypeOK, AtMostOneCounted
<1>2. nb.halfOpenInFlight = IF permit[r] THEN 0 ELSE breakers[c0].halfOpenInFlight
  BY <1>1, ReleaseCount
<1>3. breakers' \in [Channels -> Breaker]
  BY DEF PermitInv, TypeOK
<1>4. \A c \in Channels : breakers'[c] = IF c = c0 THEN nb ELSE breakers[c]
  BY DEF PermitInv, TypeOK
<1>5. AtMostOneCounted'
  BY <1>1, <1>2, <1>4 DEF PermitInv, AtMostOneCounted
<1>6. NoLeakedPermit'
  <2> SUFFICES ASSUME NEW c \in Channels, breakers'[c].halfOpenInFlight > 0
               PROVE  \E q \in Requests : Holder(q, c)'
    BY DEF NoLeakedPermit, Holder
  <2>1. breakers[c].halfOpenInFlight > 0 /\ (c = c0 => ~permit[r])
    BY <1>1, <1>2, <1>4
  <2>2. PICK q \in Requests : Holder(q, c)
    BY <2>1 DEF PermitInv, NoLeakedPermit
  <2>3. q # r
    BY <2>1, <2>2 DEF Holder
  <2> QED BY <2>2, <2>3 DEF Holder
<1> QED BY <1>3, <1>5, <1>6

LEMMA RecordStep ==
    ASSUME PermitInv, NEW r \in Requests, Record(r)
    PROVE  PermitInv'
<1> DEFINE cb == breakers[current[r]]
           nb == reported(cb, r)
<1>1. current[r] \in Channels /\ cb \in Breaker /\ permit[r] \in BOOLEAN
  BY DEF PermitInv, TypeOK, Located, Record
<1>2. /\ nb \in Breaker
      /\ nb.halfOpenInFlight = releaseHalfOpenPermit(cb, permit[r]).halfOpenInFlight
  <2>1. nb \in {RecordSuccess(cb, permit[r]), RecordFailure(cb, permit[r]),
                 releaseHalfOpenPermit(cb, permit[r])}
    BY DEF reported, ReleaseHalfOpenPermit
  <2> HIDE DEF cb, nb
  <2> QED BY <1>1, <2>1, RecordSuccessType, RecordFailureType, ReleaseType
<1>3. breakers' = [breakers EXCEPT ![current[r]] = nb]
  BY DEF Record
<1>4. \A q \in Requests \ {r} :
         /\ pc'[q] = pc[q]
         /\ current'[q] = current[q]
         /\ permit'[q] = permit[q]
  BY DEF PermitInv, TypeOK, Record
<1> HIDE DEF nb
<1>5. /\ breakers' \in [Channels -> Breaker]
      /\ AtMostOneCounted'
      /\ NoLeakedPermit'
  BY <1>1, <1>2, <1>3, <1>4, GivenBack
<1>6. TypeOK'
  BY <1>5 DEF PermitInv, TypeOK, Record, PC
<1>7. Located'
  BY <1>1 DEF PermitInv, TypeOK, Located, Record
<1> QED BY <1>5, <1>6, <1>7 DEF PermitInv

LEMMA RejectStep ==
    ASSUME PermitInv, NEW r \in Requests, RejectUnsupported(r)
    PROVE  PermitInv'
<1> DEFINE cb == breakers[current[r]]
           nb == IF permit[r] THEN RecordFailure(cb, TRUE) ELSE cb
<1>1. current[r] \in Channels /\ cb \in Breaker /\ permit[r] \in BOOLEAN
  BY DEF PermitInv, TypeOK, Located, RejectUnsupported
<1>2. /\ nb \in Breaker
      /\ nb.halfOpenInFlight = releaseHalfOpenPermit(cb, permit[r]).halfOpenInFlight
  <2>1. CASE permit[r]
    <3> HIDE DEF cb
    <3>1. permit[r] = TRUE
      BY <1>1, <2>1
    <3> QED BY <1>1, <3>1, RecordFailureType
  <2>2. CASE ~permit[r]
    BY <1>1, <2>2 DEF releaseHalfOpenPermit
  <2> QED BY <2>1, <2>2
<1>3. breakers' = [breakers EXCEPT ![current[r]] = nb]
  BY <1>1 DEF RejectUnsupported, PermitInv, TypeOK
<1>4. \A q \in Requests \ {r} :
         /\ pc'[q] = pc[q]
         /\ current'[q] = current[q]
         /\ permit'[q] = permit[q]
  BY DEF PermitInv, TypeOK, RejectUnsupported, NextCandidate
<1> HIDE DEF nb
<1>5. /\ breakers' \in [Channels -> Breaker]
      /\ AtMostOneCounted'
      /\ NoLeakedPermit'
  BY <1>1, <1>2, <1>3, <1>4, GivenBack
<1>6. TypeOK'
  BY <1>5 DEF PermitInv, TypeOK, RejectUnsupported, NextCandidate, PC, Outcome
<1>7. Located'
  BY DEF PermitInv, TypeOK, Located, RejectUnsupported, NextCandidate
<1> QED BY <1>5, <1>6, <1>7 DEF PermitInv

(* Admission either takes the permit, and the request becomes its holder,   *)
(* or leaves the counter alone.                                             *)
LEMMA AdmitStep ==
    ASSUME PermitInv, NEW r \in Requests, Admit(r)
    PROVE  PermitInv'
<1>1. PICK i \in candidates[r] :
         /\ Allowed(breakers[Priority[i]])
         /\ breakers' = [breakers EXCEPT ![Priority[i]] = AllowRequest(@)]
         /\ permit' = [permit EXCEPT ![r] = UsesHalfOpenPermit(breakers[Priority[i]])]
         /\ current' = [current EXCEPT ![r] = Priority[i]]
         /\ Take(r, i)
  BY DEF Admit
<1> DEFINE c0 == Priority[i]
           cb == breakers[c0]
           nb == AllowRequest(cb)
<1>2. c0 \in Channels /\ cb \in Breaker /\ cb.halfOpenInFlight \in {0, 1}
  BY RouterAssumption DEF PermitInv, TypeOK, AtMostOneCounted
<1>3. /\ nb \in Breaker
      /\ UsesHalfOpenPermit(cb) \in BOOLEAN
      /\ UsesHalfOpenPermit(cb) => nb.halfOpenInFlight = 1
      /\ ~UsesHalfOpenPermit(cb) => nb.halfOpenInFlight = cb.halfOpenInFlight
  BY <1>1, <1>2, AllowRequestType
<1>4. /\ pc[r] = "pick"
      /\ pc' = [pc EXCEPT ![r] = "admitted"]
      /\ UNCHANGED <<sinkStarted, outcome, cancelled, delivered>>
  BY DEF Admit
<1> HIDE DEF nb, cb, c0
<1>5. \A c \in Channels : breakers'[c] = IF c = c0 THEN nb ELSE breakers[c]
  BY <1>1 DEF PermitInv, TypeOK, nb, cb, c0
<1>6. breakers' \in [Channels -> Breaker]
  BY <1>1, <1>3 DEF PermitInv, TypeOK, nb, cb, c0
<1>7. TypeOK'
  BY <1>1, <1>2, <1>3, <1>4, <1>6 DEF PermitInv, TypeOK, PC, Take, cb, c0
<1>8. Located'
  BY <1>1, <1>2, <1>4 DEF PermitInv, TypeOK, Located, c0
<1>9. AtMostOneCounted'
  BY <1>2, <1>3, <1>5 DEF PermitInv, AtMostOneCounted
<1>10. NoLeakedPermit'
  <2> SUFFICES ASSUME NEW c \in Channels, breakers'[c].halfOpenInFlight > 0
               PROVE  \E q \in Requests : Holder(q, c)'
    BY DEF NoLeakedPermit, Holder
  <2>1. CASE c = c0 /\ UsesHalfOpenPermit(cb)
    BY <1>1, <1>4, <2>1 DEF PermitInv, TypeOK, Holder, cb, c0
  <2>2. CASE ~(c = c0 /\ UsesHalfOpenPermit(cb))
    <3>1. breakers[c].halfOpenInFlight > 0
      BY <1>3, <1>5, <2>2 DEF cb
    <3>2. PICK q \in Requests : Holder(q, c)
      BY <3>1 DEF PermitInv, NoLeakedPermit
    <3>3. q # r
      BY <1>4, <3>2 DEF Holder
    <3> QED BY <1>1, <1>4, <3>2, <3>3 DEF PermitInv, TypeOK, Holder
  <2> QED BY <2>1, <2>2
<1> QED BY <1>7, <1>8, <1>9, <1>10 DEF PermitInv

LEMMA CoolDownStep ==
    ASSUME PermitInv, NEW c \in Channels, CoolDown(c)
    PROVE  PermitInv'
<1>1. /\ breakers' \in [Channels -> Breaker]
      /\ \A d \in Channels :
            breakers'[d].halfOpenInFlight = breakers[d].halfOpenInFlight
  <2> DEFINE nb == [breakers[c] EXCEPT !.cooled = TRUE]
  <2>1. nb \in Breaker /\ nb.halfOpenInFlight = breakers[c].halfOpenInFlight
    <3>1. breakers[c] \in Breaker
      BY DEF PermitInv, TypeOK
    <3> QED BY <3>1 DEF Breaker
  <2>2. breakers' = [breakers EXCEPT ![c] = nb]
    BY DEF CoolDown, PermitInv, TypeOK
  <2> HIDE DEF nb
  <2> QED BY <2>1, <2>2 DEF PermitInv, TypeOK
<1>2. \A r \in Requests, d \in Channels : Holder(r, d) => Holder(r, d)'
  BY DEF CoolDown, Holder
<1>3. NoLeakedPermit'
  BY <1>1, <1>2, HoldersKept DEF PermitInv
<1>4. AtMostOneCounted'
  BY <1>1 DEF PermitInv, AtMostOneCounted
<1>5. TypeOK' /\ Located'
  BY <1>1 DEF PermitInv, TypeOK, Located, CoolDown
<1> QED BY <1>3, <1>4, <1>5 DEF PermitInv

LEMMA PermitInvStep == PermitInv /\ [Next]_vars => PermitInv'
<1> SUFFICES ASSUME PermitInv, [Next]_vars PROVE PermitInv'
  OBVIOUS
<1>1. CASE UNCHANGED vars
  BY <1>1 DEF vars, PermitInv, TypeOK, Located, AtMostOneCounted,
              NoLeakedPermit, Holder
<1>2. ASSUME NEW r \in Requests,
             Submit(r) \/ SinkEvent(r) \/ ClientCancels(r) \/ Walk(r)
      PROVE  PermitInv'
  BY <1>2, QuietSteps, AdmitStep, RejectStep, RecordStep DEF Walk
<1>3. ASSUME NEW c \in Channels, CoolDown(c)
      PROVE  PermitInv'
  BY <1>3, CoolDownStep
<1> QED BY <1>1, <1>2, <1>3 DEF Next

(* Every variable of the router keeps its type: in particular no counter of *)
(* a breaker goes below zero, whatever the order in which stale results     *)
(* arrive.                                                                  *)
THEOREM RouterTypeCorrect == Spec => []TypeOK
<1>1. PermitInv => TypeOK
  BY DEF PermitInv
<1> QED BY <1>1, PermitInvInit, PermitInvStep, PTL DEF Spec

(* A counted half-open probe always has a request that will give it back:   *)
(* no path through Router.Stream blocks a channel for good (P0-3, N-01).    *)
THEOREM PermitsNeverLeak == Spec => []NoLeakedPermit
<1>1. PermitInv => NoLeakedPermit
  BY DEF PermitInv
<1> QED BY <1>1, PermitInvInit, PermitInvStep, PTL DEF Spec

-----------------------------------------------------------------------------
(* Who opens a breaker.                                                     *)

(* Counting a result changes no state, and giving a permit back changes     *)
(* nothing else.                                                            *)
LEMMA ReleaseKeepsState ==
    ASSUME NEW cb \in Breaker, NEW p \in BOOLEAN
    PROVE  releaseHalfOpenPermit(cb, p).state = cb.state
BY DEF Breaker, releaseHalfOpenPermit

(* A success opens no breaker.                                              *)
LEMMA SuccessDoesNotOpen ==
    ASSUME NEW cb \in Breaker, NEW p \in BOOLEAN, cb.state # "open"
    PROVE  RecordSuccess(cb, p).state # "open"
<1> DEFINE rel   == releaseHalfOpenPermit(cb, p)
           push  == pushRecentResult(rel, FALSE)
           noted == [push EXCEPT !.consecutiveFailures = 0]
           probe == [noted EXCEPT !.consecutiveSuccesses = @ + 1]
<1>1. rel \in Breaker /\ rel.state = cb.state
  BY ReleaseType, ReleaseKeepsState
<1>2. push \in Breaker /\ push.state = cb.state
  <2> HIDE DEF rel
  <2> QED BY <1>1, PushType, PushFrame
<1>3. noted.state = cb.state /\ probe.state = cb.state
  <2> HIDE DEF push
  <2> QED BY <1>2 DEF Breaker
<1>4. probe \in Breaker
  <2> HIDE DEF push
  <2>1. push.consecutiveSuccesses + 1 \in Nat
    BY <1>2 DEF Breaker
  <2> QED BY <1>2, <2>1 DEF Breaker
<1>5. transitionToClosed(probe).state = "closed"
  <2> HIDE DEF probe
  <2> QED BY <1>4 DEF transitionToClosed, Breaker
<1>6. RecordSuccess(cb, p) \in {noted, probe, transitionToClosed(probe)}
  BY DEF RecordSuccess
<1> HIDE DEF noted, probe
<1> QED BY <1>3, <1>5, <1>6

(* Neither does an admission, which may only leave the open state.          *)
LEMMA AdmissionDoesNotOpen ==
    ASSUME NEW cb \in Breaker, cb.state # "open"
    PROVE  AllowRequest(cb).state # "open"
<1>1. probed(cb) = cb
  BY DEF probed
<1> QED BY <1>1 DEF AllowRequest, Breaker

(* The error of a finished stream has been classified when it is reported.  *)
Classified == \A r \in Requests : pc[r] = "record" => outcome[r] # "none"

LEMMA ClassifiedStep == TypeOK /\ Classified /\ [Next]_vars => Classified'
<1> SUFFICES ASSUME TypeOK, Classified, [Next]_vars,
                    NEW q \in Requests, pc'[q] = "record"
             PROVE  outcome'[q] # "none"
  BY DEF Classified
<1>1. CASE UNCHANGED vars
  BY <1>1 DEF vars, Classified
<1>2. ASSUME NEW r \in Requests,
             Submit(r) \/ SinkEvent(r) \/ ClientCancels(r) \/ Walk(r)
      PROVE  outcome'[q] # "none"
  <2>1. CASE Submit(r)
    <3>1. pc' = [pc EXCEPT ![r] = "pick"] /\ outcome' = outcome
      BY <2>1 DEF Submit
    <3> QED BY <3>1 DEF TypeOK, Classified
  <2>2. CASE SinkEvent(r) \/ ClientCancels(r)
    BY <2>2 DEF SinkEvent, ClientCancels, Classified
  <2>3. CASE Admit(r) \/ SkipOpen(r)
    BY <2>3 DEF Admit, SkipOpen, TypeOK, Classified
  <2>4. CASE Exhausted(r) \/ RejectUnsupported(r) \/ Decide(r)
    <3>1. /\ \/ pc' = [pc EXCEPT ![r] = "idle"]
             \/ pc' = [pc EXCEPT ![r] = "pick"]
          /\ outcome' = [outcome EXCEPT ![r] = "none"]
      BY <2>4 DEF Exhausted, RejectUnsupported, Decide, Return, NextCandidate
    <3> QED BY <3>1 DEF TypeOK, Classified
  <2>5. CASE SinkFails(r)
    BY <2>5 DEF SinkFails, TypeOK, Classified
  <2>6. CASE StreamEnds(r)
    <3>1. PICK o \in {"ok", "retryable", "fatal", "canceled"} :
             outcome' = [outcome EXCEPT ![r] = o]
      BY <2>6 DEF StreamEnds
    <3> QED BY <2>6, <3>1 DEF StreamEnds, TypeOK, Classified
  <2>7. CASE Record(r)
    BY <2>7 DEF Record, TypeOK, Classified
  <2> QED BY <1>2, <2>1, <2>2, <2>3, <2>4, <2>5, <2>6, <2>7 DEF Walk
<1>3. ASSUME NEW c \in Channels, CoolDown(c)
      PROVE  outcome'[q] # "none"
  BY <1>3 DEF Classified, CoolDown
<1> QED BY <1>1, <1>2, <1>3 DEF Next

(* A report that opens a breaker is a failure that is neither the client's  *)
(* nor the sink's.                                                          *)
LEMMA ReportOpens ==
    ASSUME PermitInv, Classified, NEW r \in Requests, Record(r), NEW c \in Channels,
           breakers[c].state # "open", breakers'[c].state = "open"
    PROVE  current[r] = c /\ outcome[r] \in {"retryable", "fatal"} /\ ~cancelled[r]
<1>1. current[r] \in Channels /\ permit[r] \in BOOLEAN /\ breakers[c] \in Breaker
  BY DEF PermitInv, TypeOK, Located, Record
<1>2. c = current[r] /\ breakers'[c] = reported(breakers[c], r)
  BY DEF PermitInv, TypeOK, Record
<1>3. reported(breakers[c], r)
        \notin {RecordSuccess(breakers[c], permit[r]),
                releaseHalfOpenPermit(breakers[c], permit[r])}
  BY <1>1, <1>2, SuccessDoesNotOpen, ReleaseKeepsState
<1>4. outcome[r] # "ok" /\ ~isClientSideCancellation(r) /\ outcome[r] # "sink_error"
  BY <1>3 DEF reported, ReleaseHalfOpenPermit
<1>5. outcome[r] \in Outcome /\ outcome[r] # "none"
  BY DEF PermitInv, TypeOK, Classified, Record
<1> QED BY <1>2, <1>4, <1>5 DEF isClientSideCancellation, Outcome

(* A step opens a breaker by reporting a fault or by giving back the probe  *)
(* of a channel whose provider type is gone.                                *)
LEMMA OpeningStep ==
    ASSUME PermitInv, Classified, [Next]_vars, NEW c \in Channels,
           breakers[c].state # "open", breakers'[c].state = "open"
    PROVE  \E r \in Requests :
              /\ current[r] = c
              /\ \/ outcome[r] \in {"retryable", "fatal"} /\ ~cancelled[r]
                 \/ pc[r] = "admitted" /\ c \in Editable /\ permit[r]
<1>1. breakers' # breakers
  OBVIOUS
<1>2. ASSUME NEW d \in Channels, CoolDown(d)
      PROVE  FALSE
  BY <1>2 DEF CoolDown, PermitInv, TypeOK, Breaker
<1>3. PICK r \in Requests : Admit(r) \/ RejectUnsupported(r) \/ Record(r)
  BY <1>1, <1>2 DEF Next, Walk, vars, Submit, SinkEvent, ClientCancels, SkipOpen,
                    Exhausted, StreamEnds, SinkFails, Decide
<1>4. ~Admit(r)
  <2> SUFFICES ASSUME Admit(r) PROVE FALSE
    OBVIOUS
  <2>1. PICK i \in candidates[r] :
           breakers' = [breakers EXCEPT ![Priority[i]] = AllowRequest(@)]
    BY DEF Admit
  <2>2. breakers[c] \in Breaker
    BY DEF PermitInv, TypeOK
  <2>3. breakers'[c] \in {breakers[c], AllowRequest(breakers[c])}
    BY <2>1 DEF PermitInv, TypeOK
  <2> QED BY <2>2, <2>3, AdmissionDoesNotOpen
<1>5. CASE Record(r)
  BY <1>5, ReportOpens
<1>6. CASE RejectUnsupported(r)
  <2>1. permit[r] /\ c = current[r] /\ c \in Editable
    BY <1>1, <1>6 DEF RejectUnsupported, PermitInv, TypeOK
  <2> QED BY <1>6, <2>1 DEF RejectUnsupported
<1> QED BY <1>3, <1>4, <1>5, <1>6

(* Only a fault of the provider, or of the channel's configuration, opens a *)
(* breaker: whatever a client that leaves or a sink that breaks does, at    *)
(* whatever moment, is not held against the channel (isClientSideCancellation, *)
(* the sink errors of Router.Stream).                                       *)
THEOREM ClientsOpenNoBreaker == Spec => OnlyProviderFaultsOpen
<1>1. Init => Classified
  BY DEF Init, Classified
<1>2. PermitInv /\ Classified /\ [Next]_vars => (PermitInv /\ Classified)'
  BY PermitInvStep, ClassifiedStep DEF PermitInv
<1>3. PermitInv /\ Classified /\ [Next]_vars =>
        [ \A c \in Channels :
            breakers[c].state # "open" /\ breakers'[c].state = "open" =>
               \E r \in Requests :
                  /\ current[r] = c
                  /\ \/ outcome[r] \in {"retryable", "fatal"} /\ ~cancelled[r]
                     \/ pc[r] = "admitted" /\ c \in Editable /\ permit[r] ]_vars
  BY OpeningStep
<1> QED BY <1>1, <1>2, <1>3, PermitInvInit, PTL DEF Spec, OnlyProviderFaultsOpen

-----------------------------------------------------------------------------
(* The answer of a channel *)

(* What an answer's output is made of, and how it grows. *)

LEMMA IndicesFinite ==
  ASSUME NEW out \in Seq(EventType), NEW kinds
  PROVE  /\ Indices(out, kinds) \subseteq 1..Len(out)
         /\ IsFiniteSet(Indices(out, kinds))
         /\ Cardinality(Indices(out, kinds)) \in Nat
<1>1. Len(out) \in Nat /\ DOMAIN out = 1..Len(out)
  OBVIOUS
<1>2. Indices(out, kinds) \in SUBSET (1..Len(out))
  BY <1>1 DEF Indices
<1>3. IsFiniteSet(1..Len(out))
  BY <1>1, FS_Interval
<1>4. IsFiniteSet(Indices(out, kinds))
  BY <1>2, <1>3, FS_Subset
<1> QED BY <1>2, <1>4, FS_CardinalityType

LEMMA Joined ==
  ASSUME NEW out \in Seq(EventType), NEW more \in Seq(EventType)
  PROVE  /\ out \o more \in Seq(EventType)
         /\ Len(out \o more) = Len(out) + Len(more)
         /\ \A i \in 1..Len(out) : (out \o more)[i] = out[i]
         /\ \A i \in 1..Len(more) : (out \o more)[Len(out) + i] = more[i]
         /\ Len(out) \in Nat /\ Len(more) \in Nat
         /\ DOMAIN out = 1..Len(out) /\ DOMAIN more = 1..Len(more)
         /\ DOMAIN (out \o more) = 1..(Len(out) + Len(more))
  OBVIOUS

LEMMA AppendOne ==
  ASSUME NEW out \in Seq(EventType), NEW e \in EventType
  PROVE  /\ Append(out, e) \in Seq(EventType)
         /\ Len(Append(out, e)) = Len(out) + 1
         /\ \A i \in 1..Len(out) : Append(out, e)[i] = out[i]
         /\ Append(out, e)[Len(out) + 1] = e
         /\ Len(out) \in Nat
         /\ DOMAIN out = 1..Len(out)
         /\ DOMAIN Append(out, e) = 1..(Len(out) + 1)
         /\ Append(out, e) # <<>>
  OBVIOUS

LEMMA IndicesAppend ==
  ASSUME NEW out \in Seq(EventType), NEW e \in EventType, NEW kinds
  PROVE  Indices(Append(out, e), kinds) =
            Indices(out, kinds) \cup (IF e.kind \in kinds THEN {Len(out) + 1} ELSE {})
<1>1. ASSUME NEW i \in 1..(Len(out) + 1)
      PROVE  i \in 1..Len(out) \/ i = Len(out) + 1
  BY AppendOne
<1>2. Len(out) + 1 \in 1..(Len(out) + 1)
  BY AppendOne
<1> QED BY <1>1, <1>2, AppendOne DEF Indices

LEMMA CallsInAppend ==
  ASSUME NEW out \in Seq(EventType), NEW e \in EventType, NEW c \in Calls
  PROVE  CallsIn(Append(out, e), c) =
            CallsIn(out, c) \cup
            (IF e.kind = "call" /\ e.call = c THEN {Len(out) + 1} ELSE {})
<1>1. Indices(out, {"call"}) \subseteq 1..Len(out)
  BY IndicesFinite
<1> QED BY <1>1, AppendOne, IndicesAppend DEF CallsIn

LEMMA PreviewsInAppend ==
  ASSUME NEW out \in Seq(EventType), NEW e \in EventType, NEW c \in Calls
  PROVE  PreviewsIn(Append(out, e), c) =
            PreviewsIn(out, c) \cup
            (IF e.kind = "preview" /\ e.call = c THEN {Len(out) + 1} ELSE {})
<1>1. Indices(out, {"preview"}) \subseteq 1..Len(out)
  BY IndicesFinite
<1> QED BY <1>1, AppendOne, IndicesAppend DEF PreviewsIn

LEMMA ShownFinite ==
  ASSUME NEW out \in Seq(EventType), NEW c \in Calls
  PROVE  /\ Shown(out, c) \subseteq (1..Len(out)) \X (1..ArgLen)
         /\ IsFiniteSet(Shown(out, c))
         /\ Cardinality(Shown(out, c)) \in Nat
<1>1. PreviewsIn(out, c) \subseteq 1..Len(out)
  BY IndicesFinite DEF PreviewsIn
<1>2. \A i \in PreviewsIn(out, c) : out[i].units \in 0..ArgLen
  <2>1. \A i \in 1..Len(out) : out[i] \in EventType
    BY AppendOne
  <2> QED BY <1>1, <2>1 DEF EventType
<1>3. ArgLen \in Nat /\ Len(out) \in Nat
  BY DEF ArgLen
<1>4. \A i \in PreviewsIn(out, c) : 1..out[i].units \subseteq 1..ArgLen
  BY <1>2, <1>3
<1>5. Shown(out, c) \in SUBSET ((1..Len(out)) \X (1..ArgLen))
  BY <1>1, <1>4 DEF Shown
<1>6. IsFiniteSet((1..Len(out)) \X (1..ArgLen))
  <2>1. IsFiniteSet(1..Len(out)) /\ IsFiniteSet(1..ArgLen)
    <3>1. 1 \in Int /\ Len(out) \in Int /\ ArgLen \in Int
      BY <1>3
    <3> QED BY <3>1, FS_Interval
  <2> QED BY <2>1, FS_Product
<1>7. IsFiniteSet(Shown(out, c))
  BY <1>5, <1>6, FS_Subset
<1> QED BY <1>5, <1>7, FS_CardinalityType

LEMMA ShownMembers ==
  ASSUME NEW out, NEW c
  PROVE  \A x : x \in Shown(out, c) <=>
                   \E i \in PreviewsIn(out, c) : x \in {i} \X (1..out[i].units)
BY Zenon DEF Shown

LEMMA ShownAppend ==
  ASSUME NEW out \in Seq(EventType), NEW e \in EventType, NEW c \in Calls
  PROVE  Cardinality(Shown(Append(out, e), c)) =
            Cardinality(Shown(out, c)) +
            (IF e.kind = "preview" /\ e.call = c THEN e.units ELSE 0)
<1> DEFINE n == Len(out) + 1
           o == Append(out, e)
           block == {n} \X (1..e.units)
<1>1. n \in Nat /\ e.units \in Nat /\ o[n] = e
  BY AppendOne DEF EventType, ArgLen
<1>2. PreviewsIn(out, c) \subseteq 1..Len(out) /\ n \notin 1..Len(out)
  BY IndicesFinite, AppendOne DEF PreviewsIn
<1>3. \A i \in PreviewsIn(out, c) : o[i] = out[i]
  BY <1>2, AppendOne
<1>4. Cardinality(Shown(out, c)) \in Nat /\ IsFiniteSet(Shown(out, c))
  BY ShownFinite
<1>5. CASE e.kind = "preview" /\ e.call = c
  <2>1. PreviewsIn(o, c) = PreviewsIn(out, c) \cup {n}
    BY <1>5, PreviewsInAppend
  <2>2. Shown(o, c) = Shown(out, c) \cup block
    <3>1. \A x : x \in Shown(o, c) <=>
                    \E i \in PreviewsIn(out, c) \cup {n} : x \in {i} \X (1..o[i].units)
      BY <2>1, ShownMembers
    <3>2. \A x : x \in Shown(out, c) <=>
                    \E i \in PreviewsIn(out, c) : x \in {i} \X (1..o[i].units)
      <4>1. \A i \in PreviewsIn(out, c) :
                {i} \X (1..o[i].units) = {i} \X (1..out[i].units)
        BY <1>3
      <4> HIDE DEF o
      <4> QED BY <4>1, ShownMembers, Zenon
    <3>3. \A x : x \in block <=> x \in {n} \X (1..o[n].units)
      BY <1>1
    <3> HIDE DEF o, n, block
    <3>4. \A x : x \in Shown(o, c) <=> x \in Shown(out, c) \/ x \in block
      BY <3>1, <3>2, <3>3, Zenon
    <3> QED BY <3>4
  <2>3. Shown(out, c) \cap block = {}
    <3>1. Shown(out, c) \subseteq (1..Len(out)) \X (1..ArgLen)
      BY ShownFinite
    <3> QED BY <3>1, <1>2
  <2>4. IsFiniteSet(block) /\ Cardinality(block) = e.units
    <3>1. IsFiniteSet({n}) /\ Cardinality({n}) = 1
      BY FS_Singleton
    <3>2. IsFiniteSet(1..e.units) /\ Cardinality(1..e.units) = e.units
      <4>1. 1 \in Int /\ e.units \in Int
        BY <1>1
      <4>2. Cardinality(1..e.units) = IF 1 > e.units THEN 0 ELSE e.units - 1 + 1
        BY <4>1, FS_Interval
      <4> QED BY <4>1, <4>2, <1>1, FS_Interval
    <3>3. IsFiniteSet(block) /\ Cardinality(block) = 1 * e.units
      BY <3>1, <3>2, FS_Product
    <3> QED BY <3>3, <1>1
  <2>5. Cardinality(Shown(out, c) \cap block) = 0
    BY <2>3, FS_EmptySet
  <2> HIDE DEF block
  <2>6. Cardinality(Shown(out, c) \cup block) =
            Cardinality(Shown(out, c)) + e.units - 0
    BY <2>4, <2>5, <1>4, FS_Union
  <2> QED BY <2>2, <2>6, <1>4, <1>1, <1>5
<1>6. CASE ~(e.kind = "preview" /\ e.call = c)
  <2>1. PreviewsIn(o, c) = PreviewsIn(out, c)
    <3>1. PreviewsIn(o, c) = PreviewsIn(out, c) \cup {}
      BY <1>6, PreviewsInAppend
    <3> QED BY <3>1
  <2>2. Shown(o, c) = Shown(out, c)
    BY <2>1, <1>3 DEF Shown
  <2> QED BY <2>2, <1>4, <1>6
<1> QED BY <1>5, <1>6

LEMMA CountAppend ==
  ASSUME NEW out \in Seq(EventType), NEW e \in EventType, NEW kinds
  PROVE  Cardinality(Indices(Append(out, e), kinds)) =
            Cardinality(Indices(out, kinds)) + (IF e.kind \in kinds THEN 1 ELSE 0)
<1>1. Len(out) + 1 \notin Indices(out, kinds)
  BY IndicesFinite, AppendOne
<1>2. IsFiniteSet(Indices(out, kinds)) /\ Cardinality(Indices(out, kinds)) \in Nat
  BY IndicesFinite
<1>3. CASE e.kind \in kinds
  <2>1. Indices(Append(out, e), kinds) = Indices(out, kinds) \cup {Len(out) + 1}
    BY <1>3, IndicesAppend
  <2> QED BY <2>1, <1>1, <1>2, <1>3, FS_AddElement
<1>4. CASE e.kind \notin kinds
  <2>1. Indices(Append(out, e), kinds) = Indices(out, kinds)
    <3>1. Indices(Append(out, e), kinds) = Indices(out, kinds) \cup {}
      BY <1>4, IndicesAppend
    <3> QED BY <3>1
  <2> QED BY <2>1, <1>2, <1>4
<1> QED BY <1>3, <1>4

(* A reasoning that is still open may be closed by what comes.             *)
Thoughts(out, open) ==
    \A i \in Indices(out, {"thinking"}) :
        \/ Closes(out, i)
        \/ open /\ \A k \in i..Len(out) : out[k].kind \notin {"text", "finished"}

LEMMA ClosesAppend ==
  ASSUME NEW out \in Seq(EventType), NEW e \in EventType, NEW i \in 1..Len(out),
         Closes(out, i)
  PROVE  Closes(Append(out, e), i)
<1>1. PICK j \in i..Len(out) :
        /\ out[j].kind = "thought"
        /\ \A k \in i..j : out[k].kind \notin {"text", "finished"}
  BY DEF Closes
<1>2. j \in i..(Len(out) + 1) /\ j \in 1..Len(out)
  BY <1>1, AppendOne
<1>3. \A k \in i..j : k \in 1..Len(out)
  BY <1>1, <1>2, AppendOne
<1> QED BY <1>1, <1>2, <1>3, AppendOne DEF Closes

LEMMA ThoughtsAppend ==
  ASSUME NEW out \in Seq(EventType), NEW e \in EventType, NEW open \in BOOLEAN,
         Thoughts(out, open)
  PROVE  LET o == Append(out, e)
         IN  /\ e.kind = "thought" => Thoughts(o, FALSE)
             /\ e.kind \notin {"text", "finished"} => Thoughts(o, TRUE)
             /\ e.kind \notin {"text", "finished", "thinking"} => Thoughts(o, open)
             /\ e.kind # "thinking" /\ ~open => Thoughts(o, FALSE)
<1> DEFINE o == Append(out, e)
           n == Len(out) + 1
<1>1. Indices(o, {"thinking"}) =
        Indices(out, {"thinking"}) \cup (IF e.kind = "thinking" THEN {n} ELSE {})
  BY IndicesAppend
<1>2. Indices(out, {"thinking"}) \subseteq 1..Len(out)
  BY IndicesFinite
<1>3. \A i \in Indices(out, {"thinking"}) :
        \/ Closes(o, i)
        \/ open /\ \A k \in i..Len(out) : o[k].kind \notin {"text", "finished"}
  <2> TAKE i \in Indices(out, {"thinking"})
  <2>1. CASE Closes(out, i)
    BY <2>1, <1>2, ClosesAppend
  <2>2. CASE open /\ \A k \in i..Len(out) : out[k].kind \notin {"text", "finished"}
    <3>1. \A k \in i..Len(out) : o[k] = out[k]
      BY <1>2, AppendOne
    <3> QED BY <2>2, <3>1
  <2> QED BY <2>1, <2>2 DEF Thoughts
<1>4. Len(o) = n /\ o[n] = e /\ n \in Nat
  BY AppendOne
<1>5. \A i \in 1..n : \A k \in i..n : k \in i..Len(out) \/ k = n
  BY AppendOne
<1>6. ASSUME e.kind \notin {"text", "finished"}
      PROVE  \A i \in Indices(o, {"thinking"}) :
               \/ Closes(o, i)
               \/ (open \/ e.kind = "thinking")
                  /\ \A k \in i..n : o[k].kind \notin {"text", "finished"}
  <2> TAKE i \in Indices(o, {"thinking"})
  <2>1. CASE i \in Indices(out, {"thinking"})
    BY <2>1, <1>2, <1>3, <1>4, <1>5, <1>6
  <2>2. CASE i = n /\ e.kind = "thinking"
    <3>1. \A k \in n..n : k = n
      BY <1>4
    <3> QED BY <2>2, <3>1, <1>4, <1>6
  <2> QED BY <2>1, <2>2, <1>1
<1>7. ASSUME e.kind = "thought" PROVE Thoughts(o, FALSE)
  <2>1. SUFFICES ASSUME NEW i \in Indices(o, {"thinking"}) PROVE Closes(o, i)
    BY DEF Thoughts
  <2>2. i \in 1..Len(out)
    BY <1>1, <1>2, <1>7
  <2>3. CASE \A k \in i..n : o[k].kind \notin {"text", "finished"}
    <3>1. n \in i..Len(o)
      BY <2>2, <1>4
    <3> QED BY <2>3, <3>1, <1>4, <1>7 DEF Closes
  <2> QED BY <2>3, <1>6, <1>7
<1>8. ASSUME e.kind # "thinking", ~open PROVE Thoughts(o, FALSE)
  BY <1>1, <1>3, <1>8 DEF Thoughts
<1>9. ASSUME e.kind \notin {"text", "finished"} PROVE Thoughts(o, TRUE)
  BY <1>4, <1>6, <1>9 DEF Thoughts
<1>10. ASSUME e.kind \notin {"text", "finished", "thinking"} PROVE Thoughts(o, open)
  BY <1>4, <1>6, <1>10 DEF Thoughts
<1> QED BY <1>7, <1>8, <1>9, <1>10
-----------------------------------------------------------------------------
(* The parse of one attempt.  What was said of it: every unit but the one  *)
(* that is held back, the pieces of each call that were shown, each        *)
(* completed call once, and no reasoning left open without a note of it.   *)
Carry(s) == IF s.carry THEN 1 ELSE 0

CallsSaid(s) ==
    /\ \A i \in Indices(s.out, {"call"}) : s.out[i].call \in s.completed
    /\ \A c \in Calls :
        /\ c \in s.completed <=> CallsIn(s.out, c) # {}
        /\ \A i, j \in CallsIn(s.out, c) : i = j
        /\ \A i \in CallsIn(s.out, c) : s.out[i].units = s.args[c]

Said(s, u) ==
    /\ s \in Adapter
    /\ Cardinality(Indices(s.out, {"text", "thinking"})) + Carry(s) = u
    /\ \A c \in Calls : Cardinality(Shown(s.out, c)) = s.shown[c]
    /\ CallsSaid(s)
    /\ Thoughts(s.out, s.thinking)

Quiet(s) == Indices(s.out, {"finished"}) = {}

LEMMA ConstantTypes ==
  /\ MaxCalls \in Nat /\ Budget \in Nat
  /\ Calls = 1..MaxCalls
  /\ ArgLen = 2
BY ProviderStreamAssumption DEF Calls, ArgLen

LEMMA EventTypes ==
  /\ \A kind \in {"text", "thinking", "thought"} : Event(kind) \in EventType
  /\ \A kind \in {"text", "thinking", "thought"} : Event(kind).kind = kind
  /\ \A kind \in {"preview", "call"}, c \in Calls, n \in 0..ArgLen :
        /\ CallEvent(kind, c, n) \in EventType
        /\ CallEvent(kind, c, n).kind = kind
        /\ CallEvent(kind, c, n).call = c
        /\ CallEvent(kind, c, n).units = n
<1>1. /\ 0 \in 0..MaxCalls /\ 0 \in 0..ArgLen
      /\ \A c \in Calls : c \in 0..MaxCalls
  BY ConstantTypes
<1>2. ASSUME NEW kind \in {"text", "thinking", "thought"}
      PROVE  Event(kind) \in EventType /\ Event(kind).kind = kind
  BY <1>1 DEF Event, EventType
<1>3. ASSUME NEW kind \in {"preview", "call"}, NEW c \in Calls, NEW n \in 0..ArgLen
      PROVE  /\ CallEvent(kind, c, n) \in EventType
             /\ CallEvent(kind, c, n).kind = kind
             /\ CallEvent(kind, c, n).call = c
             /\ CallEvent(kind, c, n).units = n
  <2>1. Event(kind) \in EventType /\ Event(kind).kind = kind
    BY <1>1 DEF Event, EventType
  <2>2. [Event(kind) EXCEPT !.call = c, !.units = n] \in EventType
    BY <2>1, <1>1 DEF EventType
  <2> QED BY <2>1, <2>2 DEF CallEvent, EventType
<1> QED BY <1>2, <1>3

LEMMA AdapterFields ==
  ASSUME NEW s \in Adapter
  PROVE  /\ s.inThink \in BOOLEAN /\ s.carry \in BOOLEAN /\ s.thinking \in BOOLEAN
         /\ s.held \subseteq Calls /\ s.completed \subseteq Calls
         /\ s.args \in [Calls -> 0..ArgLen] /\ s.shown \in [Calls -> 0..ArgLen]
         /\ s.out \in Seq(EventType)
         /\ s.emittedAny \in BOOLEAN /\ s.pending \in BOOLEAN
         /\ s.sawTerminator \in BOOLEAN
         /\ s.events \in 0..(Budget + 1)
         /\ s.reason \in {"none", "stop", "completed", "end_turn", "tool_calls", "tool_use"}
         /\ Carry(s) \in 0..1
BY DEF Adapter, Carry

LEMMA EmitAdapter ==
  ASSUME NEW s \in Adapter, NEW e \in EventType
  PROVE  /\ Emit(s, e) \in Adapter
         /\ Emit(s, e) = [s EXCEPT !.out = Append(s.out, e)]
         /\ Emit(s, e).out = Append(s.out, e)
<1>1. Append(s.out, e) \in Seq(EventType)
  BY AdapterFields, AppendOne
<1>2. [s EXCEPT !.out = Append(s.out, e)] \in Adapter
  BY <1>1 DEF Adapter
<1> QED BY <1>2 DEF Emit, Adapter

(* An event that is no end of the turn is added to what was said.          *)
Tells(s, t, e) ==
    /\ t.out = Append(s.out, e)
    /\ e.kind # "finished"
    /\ \/ e.kind = "thought" /\ t.thinking = FALSE
       \/ e.kind = "thinking" /\ t.thinking = TRUE
       \/ e.kind \in {"call", "preview"} /\ t.thinking = s.thinking
       \/ e.kind = "text" /\ s.thinking = FALSE /\ t.thinking = FALSE
    /\ \A c \in Calls : t.shown[c] = s.shown[c] +
            (IF e.kind = "preview" /\ e.call = c THEN e.units ELSE 0)
    /\ t.args = s.args
    /\ e.kind = "call" =>
            /\ e.call \in Calls \ s.completed
            /\ e.units = s.args[e.call]
            /\ t.completed = s.completed \cup {e.call}
    /\ e.kind # "call" => t.completed = s.completed

LEMMA SaidMore ==
  ASSUME NEW s, NEW u, Said(s, u), Quiet(s), NEW e \in EventType,
         NEW t \in Adapter, Tells(s, t, e)
  PROVE  /\ Said(t, u + (IF e.kind \in {"text", "thinking"} THEN 1 ELSE 0)
                    + Carry(t) - Carry(s))
         /\ Quiet(t)
<1> USE DEF Tells
<1> DEFINE n == Len(s.out) + 1
<1>1. s \in Adapter /\ s.out \in Seq(EventType)
  BY AdapterFields DEF Said
<1>2. Carry(s) \in 0..1 /\ Carry(t) \in 0..1
  BY <1>1, AdapterFields
<1>3. Cardinality(Indices(t.out, {"text", "thinking"})) =
        Cardinality(Indices(s.out, {"text", "thinking"})) +
        (IF e.kind \in {"text", "thinking"} THEN 1 ELSE 0)
  BY <1>1, CountAppend
<1>4. Cardinality(Indices(s.out, {"text", "thinking"})) \in Nat
  BY <1>1, IndicesFinite
<1>5. Cardinality(Indices(s.out, {"text", "thinking"})) + Carry(s) = u
  BY DEF Said
<1>6. Cardinality(Indices(t.out, {"text", "thinking"})) + Carry(t) =
        u + (IF e.kind \in {"text", "thinking"} THEN 1 ELSE 0) + Carry(t) - Carry(s)
  BY <1>2, <1>3, <1>4, <1>5
<1>7. \A c \in Calls : Cardinality(Shown(t.out, c)) = t.shown[c]
  BY <1>1, ShownAppend DEF Said
<1>8. CallsSaid(t)
  <2> SUFFICES ASSUME NEW c \in Calls
               PROVE  /\ c \in t.completed <=> CallsIn(t.out, c) # {}
                      /\ \A i, j \in CallsIn(t.out, c) : i = j
                      /\ \A i \in CallsIn(t.out, c) : t.out[i].units = t.args[c]
    <3>1. \A i \in Indices(s.out, {"call"}) : s.out[i].call \in s.completed
      BY DEF Said, CallsSaid
    <3>2. \A i \in Indices(s.out, {"call"}) : t.out[i] = s.out[i]
      BY <1>1, IndicesFinite, AppendOne
    <3>3. Indices(t.out, {"call"}) =
            Indices(s.out, {"call"}) \cup (IF e.kind \in {"call"} THEN {n} ELSE {})
      BY <1>1, IndicesAppend
    <3>4. t.out[n] = e /\ s.completed \subseteq t.completed
      BY <1>1, AppendOne
    <3>5. \A i \in Indices(t.out, {"call"}) : t.out[i].call \in t.completed
      BY <3>1, <3>2, <3>3, <3>4
    <3> QED BY <3>5 DEF CallsSaid
  <2>1. CallsIn(t.out, c) = CallsIn(s.out, c) \cup
            (IF e.kind = "call" /\ e.call = c THEN {n} ELSE {})
    BY <1>1, CallsInAppend
  <2>2. /\ c \in s.completed <=> CallsIn(s.out, c) # {}
        /\ \A i, j \in CallsIn(s.out, c) : i = j
        /\ \A i \in CallsIn(s.out, c) : s.out[i].units = s.args[c]
    BY DEF Said, CallsSaid
  <2>3. \A i \in CallsIn(s.out, c) : t.out[i] = s.out[i]
    <3>1. CallsIn(s.out, c) \subseteq 1..Len(s.out)
      BY <1>1, IndicesFinite DEF CallsIn
    <3> QED BY <3>1, <1>1, AppendOne
  <2>4. t.out[n] = e
    BY <1>1, AppendOne
  <2>5. CASE e.kind = "call" /\ e.call = c
    BY <2>1, <2>2, <2>3, <2>4, <2>5
  <2>6. CASE ~(e.kind = "call" /\ e.call = c)
    <3>1. CallsIn(t.out, c) = CallsIn(s.out, c) \cup {}
      BY <2>1, <2>6
    <3>2. CallsIn(t.out, c) = CallsIn(s.out, c)
      BY <3>1
    <3>3. c \in t.completed <=> c \in s.completed
      BY <2>6
    <3> QED BY <3>2, <3>3, <2>2, <2>3
  <2> QED BY <2>5, <2>6
<1>9. Thoughts(t.out, t.thinking)
  <2>1. Thoughts(s.out, s.thinking) /\ s.thinking \in BOOLEAN
    BY <1>1, AdapterFields DEF Said
  <2>2. /\ e.kind = "thought" => Thoughts(t.out, FALSE)
        /\ e.kind \notin {"text", "finished"} => Thoughts(t.out, TRUE)
        /\ e.kind \notin {"text", "finished", "thinking"} => Thoughts(t.out, s.thinking)
        /\ e.kind # "thinking" /\ ~s.thinking => Thoughts(t.out, FALSE)
    BY <1>1, <2>1, ThoughtsAppend
  <2>3. CASE e.kind = "thought" /\ t.thinking = FALSE
    BY <2>2, <2>3
  <2>4. CASE e.kind = "thinking" /\ t.thinking = TRUE
    BY <2>2, <2>4
  <2>5. CASE e.kind \in {"call", "preview"} /\ t.thinking = s.thinking
    <3>1. e.kind \notin {"text", "finished", "thinking"}
      BY <2>5
    <3> QED BY <2>2, <2>5, <3>1
  <2>6. CASE e.kind = "text" /\ s.thinking = FALSE /\ t.thinking = FALSE
    BY <2>2, <2>6
  <2> QED BY <2>3, <2>4, <2>5, <2>6
<1>10. Quiet(t)
  <2>1. Indices(t.out, {"finished"}) = Indices(s.out, {"finished"}) \cup {}
    <3>1. Indices(t.out, {"finished"}) =
            Indices(s.out, {"finished"}) \cup (IF e.kind \in {"finished"} THEN {n} ELSE {})
      BY <1>1, IndicesAppend
    <3>2. e.kind \notin {"finished"}
      OBVIOUS
    <3> HIDE DEF n
    <3> QED BY <3>1, <3>2
  <2> QED BY <2>1 DEF Quiet
<1> QED BY <1>6, <1>7, <1>8, <1>9, <1>10 DEF Said

(* What changes without a word to the sink.                                *)
LEMMA SaidAsMuch ==
  ASSUME NEW s, NEW u, Said(s, u), NEW t \in Adapter,
         t.out = s.out, t.shown = s.shown, t.completed = s.completed,
         t.thinking = s.thinking,
         \A c \in s.completed : t.args[c] = s.args[c]
  PROVE  /\ Said(t, u + Carry(t) - Carry(s))
         /\ Quiet(s) => Quiet(t)
<1>1. s \in Adapter /\ s.out \in Seq(EventType)
  BY AdapterFields DEF Said
<1>2. Carry(s) \in 0..1 /\ Carry(t) \in 0..1
  BY <1>1, AdapterFields
<1>3. Cardinality(Indices(s.out, {"text", "thinking"})) \in Nat
  BY <1>1, IndicesFinite
<1>4. Cardinality(Indices(s.out, {"text", "thinking"})) + Carry(s) = u
  BY DEF Said
<1>5. Cardinality(Indices(t.out, {"text", "thinking"})) + Carry(t) =
        u + Carry(t) - Carry(s)
  BY <1>2, <1>3, <1>4
<1>6. CallsSaid(t)
  BY DEF Said, CallsSaid
<1> QED BY <1>5, <1>6 DEF Said, Quiet

(* What the emission of texts and reasoning leaves alone.                  *)
Speech(s, t) ==
    /\ s \in Adapter /\ t \in Adapter
    /\ t.held = s.held /\ t.args = s.args /\ t.shown = s.shown
    /\ t.completed = s.completed /\ t.sawTerminator = s.sawTerminator
    /\ t.pending = s.pending /\ t.reason = s.reason /\ t.events = s.events
    /\ t.out = <<>> => s.out = <<>> /\ t.emittedAny = s.emittedAny

LEMMA SpeechTransitive ==
  ASSUME NEW r, NEW s, NEW t, Speech(r, s), Speech(s, t)
  PROVE  Speech(r, t)
BY DEF Speech

LEMMA FlushThinking ==
  ASSUME NEW s, NEW u, Said(s, u), Quiet(s)
  PROVE  LET t == flushThinkingCompleted(s)
         IN  /\ Said(t, u) /\ Quiet(t) /\ Speech(s, t)
             /\ t.thinking = FALSE /\ t.carry = s.carry
<1> DEFINE t == flushThinkingCompleted(s)
<1>1. s \in Adapter
  BY DEF Said
<1>2. CASE s.thinking
  <2> DEFINE e == Event("thought")
  <2>1. e \in EventType /\ e.kind = "thought"
    BY EventTypes
  <2>2. t = [Emit(s, e) EXCEPT !.thinking = FALSE]
    BY <1>2 DEF flushThinkingCompleted
  <2>3. t = [s EXCEPT !.out = Append(s.out, e), !.thinking = FALSE]
    BY <2>1, <2>2, <1>1, EmitAdapter DEF Adapter
  <2>4. Append(s.out, e) \in Seq(EventType) /\ Append(s.out, e) # <<>>
    BY <1>1, <2>1, AdapterFields, AppendOne
  <2> HIDE DEF e, t
  <2>5. t \in Adapter
    BY <1>1, <2>3, <2>4 DEF Adapter
  <2>6. /\ t.out = Append(s.out, e) /\ t.thinking = FALSE /\ t.carry = s.carry
        /\ t.held = s.held /\ t.args = s.args /\ t.shown = s.shown
        /\ t.completed = s.completed /\ t.sawTerminator = s.sawTerminator
        /\ t.pending = s.pending /\ t.reason = s.reason /\ t.events = s.events
    BY <1>1, <2>3 DEF Adapter
  <2>7. Carry(t) = Carry(s) /\ Carry(s) \in 0..1
    BY <2>6, <1>1, AdapterFields DEF Carry
  <2>8. Said(t, u + 0 + Carry(t) - Carry(s)) /\ Quiet(t)
    <3>1. \A c \in Calls : t.shown[c] = s.shown[c] + 0
      BY <1>1, <2>6, AdapterFields
    <3>2. Tells(s, t, e)
      BY <2>1, <2>6, <3>1 DEF Tells
    <3> QED BY <2>1, <2>5, <3>2, SaidMore
  <2>9. u + 0 + Carry(t) - Carry(s) = u
    <3>1. u \in Int
      BY <1>1, IndicesFinite, AdapterFields DEF Said
    <3> QED BY <3>1, <2>7
  <2> QED BY <1>1, <2>4, <2>5, <2>6, <2>8, <2>9 DEF Speech, t
<1>3. CASE ~s.thinking
  <2>1. t = s
    BY <1>3 DEF flushThinkingCompleted
  <2> QED BY <2>1, <1>1, <1>3, AdapterFields DEF Speech
<1> QED BY <1>2, <1>3

LEMMA EmitText ==
  ASSUME NEW s, NEW u, Said(s, u), Quiet(s)
  PROVE  LET t == emitTextDelta(s)
         IN  /\ Said(t, u + 1) /\ Quiet(t) /\ Speech(s, t)
             /\ t.thinking = FALSE /\ t.carry = s.carry /\ t.out # <<>>
<1> DEFINE r == flushThinkingCompleted(s)
           t == emitTextDelta(s)
           e == Event("text")
<1>1. /\ Said(r, u) /\ Quiet(r) /\ Speech(s, r)
      /\ r.thinking = FALSE /\ r.carry = s.carry
  BY FlushThinking
<1>2. e \in EventType /\ e.kind = "text"
  BY EventTypes
<1>3. r \in Adapter
  BY <1>1 DEF Said
<1>4. t = [Emit(r, e) EXCEPT !.emittedAny = TRUE]
  BY DEF emitTextDelta
<1>5. Append(r.out, e) \in Seq(EventType) /\ Append(r.out, e) # <<>>
  BY <1>2, <1>3, AdapterFields, AppendOne
<1> HIDE DEF r, e, t
<1>6. t = [r EXCEPT !.out = Append(r.out, e), !.emittedAny = TRUE]
  BY <1>2, <1>3, <1>4, EmitAdapter DEF Adapter
<1>7. t \in Adapter
  BY <1>3, <1>5, <1>6 DEF Adapter
<1>8. /\ t.out = Append(r.out, e) /\ t.thinking = r.thinking /\ t.carry = r.carry
      /\ t.held = r.held /\ t.args = r.args /\ t.shown = r.shown
      /\ t.completed = r.completed /\ t.sawTerminator = r.sawTerminator
      /\ t.pending = r.pending /\ t.reason = r.reason
      /\ t.events = r.events
  BY <1>3, <1>6 DEF Adapter
<1>9. Said(t, u + 1 + Carry(t) - Carry(r)) /\ Quiet(t)
  <2>1. \A c \in Calls : t.shown[c] = r.shown[c] + 0
    BY <1>3, <1>8, AdapterFields
  <2>2. (IF e.kind \in {"text", "thinking"} THEN 1 ELSE 0) = 1 /\ e.kind # "finished"
    BY <1>2
  <2>3. \A c \in Calls : t.shown[c] = r.shown[c] +
            (IF e.kind = "preview" /\ e.call = c THEN e.units ELSE 0)
    BY <1>2, <2>1
  <2>4. Said(t, u + (IF e.kind \in {"text", "thinking"} THEN 1 ELSE 0)
                  + Carry(t) - Carry(r)) /\ Quiet(t)
    <3>1. Tells(r, t, e)
      BY <1>1, <1>2, <1>8, <2>3 DEF Tells
    <3> QED BY <3>1, <1>1, <1>2, <1>7, SaidMore
  <2> QED BY <2>2, <2>4
<1>10. u + 1 + Carry(t) - Carry(r) = u + 1
  <2>1. u \in Int
    BY <1>1, <1>3, IndicesFinite, AdapterFields DEF Said
  <2> QED BY <2>1, <1>3, <1>8, AdapterFields DEF Carry
<1>11. Speech(r, t)
  BY <1>3, <1>5, <1>7, <1>8 DEF Speech
<1> QED BY <1>1, <1>5, <1>8, <1>9, <1>10, <1>11, SpeechTransitive DEF t, r

LEMMA EmitThinking ==
  ASSUME NEW s, NEW u, Said(s, u), Quiet(s)
  PROVE  LET t == emitThinkingDelta(s)
         IN  /\ Said(t, u + 1) /\ Quiet(t) /\ Speech(s, t)
             /\ t.carry = s.carry /\ t.out # <<>>
<1> DEFINE t == emitThinkingDelta(s)
           e == Event("thinking")
           any == s.emittedAny \/ protocol # "responses"
<1>1. s \in Adapter
  BY DEF Said
<1>2. e \in EventType /\ e.kind = "thinking"
  BY EventTypes
<1>4. t = [Emit(s, e) EXCEPT !.thinking = TRUE, !.emittedAny = any]
  <2>1. Emit(s, e).emittedAny = s.emittedAny
    BY <1>1 DEF Emit, Adapter
  <2> HIDE DEF e
  <2>2. emitThinkingDelta(s) =
          [Emit(s, e) EXCEPT !.thinking = TRUE,
                             !.emittedAny = Emit(s, e).emittedAny \/ protocol # "responses"]
    BY DEF emitThinkingDelta, e
  <2> QED BY <2>1, <2>2
<1>5. Append(s.out, e) \in Seq(EventType) /\ Append(s.out, e) # <<>>
  BY <1>1, <1>2, AdapterFields, AppendOne
<1>12. any \in BOOLEAN
  OBVIOUS
<1> HIDE DEF e, t, any
<1>6. t = [s EXCEPT !.out = Append(s.out, e), !.thinking = TRUE, !.emittedAny = any]
  BY <1>1, <1>2, <1>4, EmitAdapter DEF Adapter
<1>7. t \in Adapter
  BY <1>1, <1>5, <1>6, <1>12 DEF Adapter
<1>8. /\ t.out = Append(s.out, e) /\ t.thinking = TRUE /\ t.carry = s.carry
      /\ t.held = s.held /\ t.args = s.args /\ t.shown = s.shown
      /\ t.completed = s.completed /\ t.sawTerminator = s.sawTerminator
      /\ t.pending = s.pending /\ t.reason = s.reason /\ t.events = s.events
  BY <1>1, <1>6 DEF Adapter
<1>9. Said(t, u + 1 + Carry(t) - Carry(s)) /\ Quiet(t)
  <2>1. \A c \in Calls : t.shown[c] = s.shown[c] + 0
    BY <1>1, <1>8, AdapterFields
  <2>2. (IF e.kind \in {"text", "thinking"} THEN 1 ELSE 0) = 1 /\ e.kind # "finished"
    BY <1>2
  <2>3. \A c \in Calls : t.shown[c] = s.shown[c] +
            (IF e.kind = "preview" /\ e.call = c THEN e.units ELSE 0)
    BY <1>2, <2>1
  <2>4. Said(t, u + (IF e.kind \in {"text", "thinking"} THEN 1 ELSE 0)
                  + Carry(t) - Carry(s)) /\ Quiet(t)
    <3>1. Tells(s, t, e)
      BY <1>2, <1>8, <2>3 DEF Tells
    <3> QED BY <3>1, <1>2, <1>7, SaidMore
  <2> QED BY <2>2, <2>4
<1>10. u + 1 + Carry(t) - Carry(s) = u + 1
  <2>1. u \in Int
    BY <1>1, IndicesFinite, AdapterFields DEF Said
  <2> QED BY <2>1, <1>1, <1>8, AdapterFields DEF Carry
<1>11. Speech(s, t)
  BY <1>1, <1>5, <1>7, <1>8 DEF Speech
<1> QED BY <1>5, <1>8, <1>9, <1>10, <1>11 DEF t

LEMMA EmitContent ==
  ASSUME NEW s, NEW u, Said(s, u), Quiet(s)
  PROVE  LET t == emitContent(s)
         IN  /\ Said(t, u + 1) /\ Quiet(t) /\ Speech(s, t)
             /\ t.carry = s.carry /\ t.out # <<>>
BY EmitText, EmitThinking DEF emitContent

LEMMA FlushTail ==
  ASSUME NEW s, NEW u, Said(s, u), Quiet(s)
  PROVE  LET t == flushTaggedContentTail(s)
         IN  /\ Said(t, u) /\ Quiet(t) /\ Speech(s, t) /\ t.carry = FALSE
<1> DEFINE r == emitContent(s)
           t == flushTaggedContentTail(s)
<1>1. s \in Adapter
  BY DEF Said
<1>2. CASE s.carry
  <2>1. /\ Said(r, u + 1) /\ Quiet(r) /\ Speech(s, r)
        /\ r.carry = s.carry /\ r.out # <<>>
    BY EmitContent
  <2>2. t = [r EXCEPT !.carry = FALSE]
    BY <1>2 DEF flushTaggedContentTail
  <2>3. r \in Adapter
    BY <2>1 DEF Said
  <2> HIDE DEF r, t
  <2>4. t \in Adapter
    BY <2>2, <2>3 DEF Adapter
  <2>5. /\ t.out = r.out /\ t.thinking = r.thinking /\ t.carry = FALSE
        /\ t.held = r.held /\ t.args = r.args /\ t.shown = r.shown
        /\ t.completed = r.completed /\ t.sawTerminator = r.sawTerminator
        /\ t.pending = r.pending /\ t.reason = r.reason
        /\ t.events = r.events
    BY <2>2, <2>3 DEF Adapter
  <2>6. Said(t, u + 1 + Carry(t) - Carry(r)) /\ Quiet(t)
    BY <2>1, <2>4, <2>5, SaidAsMuch
  <2>7. u + 1 + Carry(t) - Carry(r) = u
    <3>1. u \in Int
      BY <1>1, IndicesFinite, AdapterFields DEF Said
    <3>2. Carry(t) = 0 /\ Carry(r) = 1
      BY <1>2, <2>1, <2>5 DEF Carry
    <3> QED BY <3>1, <3>2
  <2>8. Speech(r, t)
    BY <2>1, <2>3, <2>4, <2>5 DEF Speech
  <2> QED BY <2>1, <2>5, <2>6, <2>7, <2>8, SpeechTransitive DEF t
<1>3. CASE ~s.carry
  <2>1. t = s
    BY <1>3 DEF flushTaggedContentTail
  <2> QED BY <2>1, <1>1, <1>3, AdapterFields DEF Speech
<1> QED BY <1>2, <1>3

LEMMA FlushText ==
  ASSUME NEW s, NEW u, Said(s, u), Quiet(s)
  PROVE  LET t == flushText(s)
         IN  /\ Said(t, u) /\ Quiet(t) /\ Speech(s, t)
             /\ t.thinking = FALSE /\ t.carry = FALSE
<1> DEFINE r == flushTaggedContentTail(s)
           t == flushThinkingCompleted(r)
<1>1. Said(r, u) /\ Quiet(r) /\ Speech(s, r) /\ r.carry = FALSE
  BY FlushTail
<1> HIDE DEF r
<1>2. /\ Said(t, u) /\ Quiet(t) /\ Speech(r, t)
      /\ t.thinking = FALSE /\ t.carry = r.carry
  BY <1>1, FlushThinking
<1> HIDE DEF t
<1> QED BY <1>1, <1>2, SpeechTransitive DEF t, r, flushText

(* What the calls leave alone.                                             *)
Kept(s, t) ==
    /\ s \in Adapter /\ t \in Adapter
    /\ t.carry = s.carry /\ t.thinking = s.thinking
    /\ t.sawTerminator = s.sawTerminator
    /\ t.pending = s.pending /\ t.reason = s.reason /\ t.events = s.events

LEMMA SaidNumber ==
  ASSUME NEW s, NEW u, Said(s, u)
  PROVE  u \in Nat /\ s \in Adapter
BY IndicesFinite, AdapterFields DEF Said

LEMMA KeptSaid ==
  ASSUME NEW s, NEW t, NEW u, Said(s, u), Kept(s, t),
         t.out = s.out, t.shown = s.shown, t.completed = s.completed,
         \A c \in s.completed : t.args[c] = s.args[c]
  PROVE  Said(t, u) /\ (Quiet(s) => Quiet(t))
<1>1. Carry(t) = Carry(s) /\ Carry(s) \in 0..1
  BY AdapterFields DEF Kept, Carry
<1>2. u + Carry(t) - Carry(s) = u
  BY <1>1, SaidNumber
<1> QED BY <1>2, SaidAsMuch DEF Kept

LEMMA HoldCall ==
  ASSUME NEW s, NEW u, Said(s, u), NEW c \in Calls
  PROVE  LET t == held(s, c)
         IN  /\ Said(t, u) /\ (Quiet(s) => Quiet(t)) /\ Kept(s, t)
             /\ t.held = s.held \cup {c} /\ t.completed = s.completed
             /\ t.args = s.args /\ t.shown = s.shown
             /\ t.out = s.out /\ t.emittedAny = s.emittedAny
<1> DEFINE t == held(s, c)
<1>1. s \in Adapter
  BY DEF Said
<1>2. t = [s EXCEPT !.held = s.held \cup {c}]
  BY <1>1 DEF held, Adapter
<1> HIDE DEF t
<1>3. t \in Adapter
  BY <1>1, <1>2 DEF Adapter
<1>4. /\ Kept(s, t)
      /\ t.held = s.held \cup {c} /\ t.completed = s.completed
      /\ t.args = s.args /\ t.shown = s.shown
      /\ t.out = s.out /\ t.emittedAny = s.emittedAny
  BY <1>1, <1>2, <1>3 DEF Adapter, Kept
<1> QED BY <1>4, KeptSaid DEF t

LEMMA ToolProgress ==
  ASSUME NEW s, NEW u, Said(s, u), Quiet(s), NEW c \in Calls,
         s.shown[c] <= s.args[c]
  PROVE  LET t == emitToolProgress(s, c)
         IN  /\ Said(t, u) /\ Quiet(t) /\ Kept(s, t)
             /\ t.held = s.held /\ t.completed = s.completed
             /\ t.args = s.args
             /\ t.shown = [s.shown EXCEPT ![c] = IF c \in Previewed THEN s.args[c] ELSE @]
             /\ t.out = <<>> => s.out = <<>> /\ t.emittedAny = s.emittedAny
<1> DEFINE t == emitToolProgress(s, c)
<1>1. s \in Adapter
  BY DEF Said
<1>2. s.shown[c] \in 0..ArgLen /\ s.args[c] \in 0..ArgLen /\ s.shown \in [Calls -> 0..ArgLen]
  BY <1>1, AdapterFields
<1>3. CASE c \in Previewed /\ s.args[c] > s.shown[c]
  <2> DEFINE n == s.args[c] - s.shown[c]
             e == CallEvent("preview", c, n)
  <2>1. n \in 0..ArgLen
    BY <1>2, <1>3, ConstantTypes
  <2>2. e \in EventType /\ e.kind = "preview" /\ e.call = c /\ e.units = n
    BY <2>1, EventTypes
  <2>3. t = [Emit(s, e) EXCEPT !.shown[c] = s.args[c]]
    BY <1>3 DEF emitToolProgress
  <2>4. Append(s.out, e) \in Seq(EventType) /\ Append(s.out, e) # <<>>
    BY <1>1, <2>2, AdapterFields, AppendOne
  <2>5. Emit(s, e).shown = s.shown
    BY <1>1 DEF Emit, Adapter
  <2> HIDE DEF e
  <2>6. t = [s EXCEPT !.out = Append(s.out, e),
                      !.shown = [s.shown EXCEPT ![c] = s.args[c]]]
    BY <1>1, <2>2, <2>3, <2>5, EmitAdapter DEF Adapter
  <2> HIDE DEF t
  <2>7. [s.shown EXCEPT ![c] = s.args[c]] \in [Calls -> 0..ArgLen]
    BY <1>2
  <2>8. t \in Adapter
    BY <1>1, <2>4, <2>6, <2>7 DEF Adapter
  <2>9. /\ Kept(s, t) /\ t.out = Append(s.out, e)
        /\ t.held = s.held /\ t.completed = s.completed
        /\ t.args = s.args /\ t.shown = [s.shown EXCEPT ![c] = s.args[c]]
    BY <1>1, <2>6, <2>8 DEF Adapter, Kept
  <2>10. \A d \in Calls : t.shown[d] = s.shown[d] +
            (IF e.kind = "preview" /\ e.call = d THEN e.units ELSE 0)
    <3> TAKE d \in Calls
    <3>1. s.shown[d] \in 0..ArgLen
      BY <1>1, AdapterFields
    <3> QED BY <1>2, <2>2, <2>9, <3>1, ConstantTypes
  <2>11. Said(t, u + (IF e.kind \in {"text", "thinking"} THEN 1 ELSE 0)
                   + Carry(t) - Carry(s)) /\ Quiet(t)
    <3>1. Tells(s, t, e)
      BY <2>2, <2>9, <2>10 DEF Tells, Kept
    <3> QED BY <3>1, <2>2, <2>8, SaidMore
  <2>12. u + (IF e.kind \in {"text", "thinking"} THEN 1 ELSE 0) + Carry(t) - Carry(s) = u
    <3>1. Carry(t) = Carry(s) /\ Carry(s) \in 0..1
      BY <1>1, <2>9, AdapterFields DEF Kept, Carry
    <3> QED BY <2>2, <3>1, SaidNumber
  <2> QED BY <1>3, <2>4, <2>9, <2>11, <2>12 DEF t
<1>4. CASE ~(c \in Previewed /\ s.args[c] > s.shown[c])
  <2>1. t = s
    BY <1>4 DEF emitToolProgress
  <2>2. c \in Previewed => s.shown[c] = s.args[c]
    BY <1>2, <1>4
  <2>3. s.shown = [s.shown EXCEPT ![c] = IF c \in Previewed THEN s.args[c] ELSE @]
    BY <1>2, <2>2
  <2> QED BY <1>1, <2>1, <2>3 DEF Kept
<1> QED BY <1>3, <1>4

LEMMA CompleteTool ==
  ASSUME NEW s, NEW u, Said(s, u), Quiet(s), NEW c \in Calls, c \notin s.completed
  PROVE  LET t == completeTool(s, c)
         IN  /\ Said(t, u) /\ Quiet(t) /\ Kept(s, t)
             /\ t.held = s.held \ {c} /\ t.completed = s.completed \cup {c}
             /\ t.args = s.args /\ t.shown = s.shown /\ t.out # <<>>
<1> DEFINE t == completeTool(s, c)
           e == CallEvent("call", c, s.args[c])
<1>1. s \in Adapter
  BY DEF Said
<1>2. /\ e \in EventType /\ e.kind = "call" /\ e.call = c /\ e.units = s.args[c]
  BY <1>1, AdapterFields, EventTypes
<1>3. Emit(s, e).held = s.held /\ Emit(s, e).completed = s.completed
  BY <1>1 DEF Emit, Adapter
<1>4. t = [Emit(s, e) EXCEPT !.held = @ \ {c}, !.completed = @ \cup {c}, !.emittedAny = TRUE]
  BY DEF completeTool
<1>5. Append(s.out, e) \in Seq(EventType) /\ Append(s.out, e) # <<>>
  BY <1>1, <1>2, AdapterFields, AppendOne
<1> HIDE DEF t, e
<1>6. t = [s EXCEPT !.out = Append(s.out, e), !.held = s.held \ {c},
                    !.completed = s.completed \cup {c}, !.emittedAny = TRUE]
  BY <1>1, <1>2, <1>3, <1>4, EmitAdapter DEF Adapter
<1>7. t \in Adapter
  BY <1>1, <1>5, <1>6 DEF Adapter
<1>8. /\ Kept(s, t) /\ t.out = Append(s.out, e)
      /\ t.held = s.held \ {c} /\ t.completed = s.completed \cup {c}
      /\ t.args = s.args /\ t.shown = s.shown
  BY <1>1, <1>6, <1>7 DEF Adapter, Kept
<1>9. \A d \in Calls : t.shown[d] = s.shown[d] +
            (IF e.kind = "preview" /\ e.call = d THEN e.units ELSE 0)
  BY <1>1, <1>2, <1>8, AdapterFields
<1>10. Said(t, u + (IF e.kind \in {"text", "thinking"} THEN 1 ELSE 0)
                 + Carry(t) - Carry(s)) /\ Quiet(t)
  <2>1. Tells(s, t, e)
    BY <1>2, <1>8, <1>9 DEF Tells, Kept
  <2> QED BY <2>1, <1>2, <1>7, SaidMore
<1>11. u + (IF e.kind \in {"text", "thinking"} THEN 1 ELSE 0) + Carry(t) - Carry(s) = u
  <2>1. Carry(t) = Carry(s) /\ Carry(s) \in 0..1
    BY <1>1, <1>8, AdapterFields DEF Kept, Carry
  <2> QED BY <1>2, <2>1, SaidNumber
<1> QED BY <1>5, <1>8, <1>10, <1>11 DEF t

LEMMA CompletePiece ==
  ASSUME NEW s, NEW u, Said(s, u), Quiet(s), NEW c \in Calls, c \notin s.completed,
         s.args[c] < ArgLen, s.shown[c] <= s.args[c]
  PROVE  LET t == piece(s, c)
         IN  /\ Said(t, u) /\ Quiet(t) /\ Kept(s, t)
             /\ t.held = s.held \cup {c} /\ t.completed = s.completed
             /\ t.args = [s.args EXCEPT ![c] = @ + 1]
             /\ t.shown = [s.shown EXCEPT ![c] =
                            IF c \in Previewed THEN s.args[c] + 1 ELSE @]
             /\ t.out = <<>> => s.out = <<>> /\ t.emittedAny = s.emittedAny
<1> DEFINE h == held(s, c)
           r == [h EXCEPT !.args = [s.args EXCEPT ![c] = @ + 1]]
           t == emitToolProgress(r, c)
<1>1. /\ Said(h, u) /\ Quiet(h) /\ Kept(s, h)
      /\ h.held = s.held \cup {c} /\ h.completed = s.completed
      /\ h.args = s.args /\ h.shown = s.shown
      /\ h.out = s.out /\ h.emittedAny = s.emittedAny
  BY HoldCall
<1>2. h \in Adapter /\ s \in Adapter
  BY <1>1 DEF Said, Kept
<1>3. /\ s.args \in [Calls -> 0..ArgLen] /\ s.args[c] \in 0..ArgLen
      /\ s.shown \in [Calls -> 0..ArgLen] /\ s.shown[c] \in 0..ArgLen
      /\ s.completed \subseteq Calls
  BY <1>2, AdapterFields
<1>4. [s.args EXCEPT ![c] = @ + 1] \in [Calls -> 0..ArgLen]
  BY <1>3, ConstantTypes
<1> HIDE DEF h
<1>5. /\ r \in Adapter /\ Kept(h, r) /\ r.out = h.out /\ r.shown = h.shown
      /\ r.completed = h.completed /\ r.held = h.held
      /\ r.args = [s.args EXCEPT ![c] = @ + 1] /\ r.emittedAny = h.emittedAny
  BY <1>2, <1>4 DEF Adapter, Kept
<1>6. piece(s, c) = t
  <2>1. r = [h EXCEPT !.args[c] = @ + 1]
    BY <1>1, <1>2 DEF Adapter
  <2> QED BY <2>1 DEF piece, h
<1> HIDE DEF r
<1>7. \A d \in h.completed : r.args[d] = h.args[d]
  BY <1>1, <1>3, <1>5
<1>8. Said(r, u) /\ Quiet(r)
  BY <1>1, <1>5, <1>7, KeptSaid
<1>9. r.args[c] = s.args[c] + 1 /\ r.shown[c] <= r.args[c]
  BY <1>1, <1>3, <1>5, ConstantTypes
<1>10. /\ Said(t, u) /\ Quiet(t) /\ Kept(r, t)
       /\ t.held = r.held /\ t.completed = r.completed
       /\ t.args = r.args
       /\ t.shown = [r.shown EXCEPT ![c] = IF c \in Previewed THEN r.args[c] ELSE @]
       /\ t.out = <<>> => r.out = <<>> /\ t.emittedAny = r.emittedAny
  BY <1>8, <1>9, ToolProgress
<1> HIDE DEF t
<1>11. Kept(s, t)
  BY <1>1, <1>5, <1>10 DEF Kept
<1> QED BY <1>1, <1>5, <1>6, <1>9, <1>10, <1>11

LEMMA CompleteItem ==
  ASSUME NEW s, NEW u, Said(s, u), Quiet(s), NEW c \in Calls,
         s.shown[c] <= s.args[c], c \in s.completed => s.args[c] = ArgLen
  PROVE  LET t == completeItem(s, c)
         IN  /\ Said(t, u) /\ Quiet(t) /\ Kept(s, t)
             /\ t.held = s.held \ {c} /\ t.completed = s.completed \cup {c}
             /\ t.args = [s.args EXCEPT ![c] = IF @ = 0 THEN ArgLen ELSE @]
             /\ t.shown = [s.shown EXCEPT ![c] = IF c \in Previewed THEN t.args[c] ELSE @]
             /\ t.out # <<>>
<1> DEFINE h == held(s, c)
           n == IF s.args[c] = 0 THEN ArgLen ELSE s.args[c]
           w == [h EXCEPT !.args = [s.args EXCEPT ![c] = n]]
           g == emitToolProgress(w, c)
           t == completeItem(s, c)
<1>1. /\ Said(h, u) /\ Quiet(h) /\ Kept(s, h)
      /\ h.held = s.held \cup {c} /\ h.completed = s.completed
      /\ h.args = s.args /\ h.shown = s.shown
      /\ h.out = s.out /\ h.emittedAny = s.emittedAny
  BY HoldCall
<1>2. h \in Adapter /\ s \in Adapter
  BY <1>1 DEF Said, Kept
<1>3. /\ s.args \in [Calls -> 0..ArgLen] /\ s.args[c] \in 0..ArgLen
      /\ s.shown \in [Calls -> 0..ArgLen] /\ s.shown[c] \in 0..ArgLen
      /\ s.completed \subseteq Calls
  BY <1>2, AdapterFields
<1>4. n \in 0..ArgLen /\ s.args[c] <= n /\ (c \in s.completed => n = s.args[c])
  BY <1>3, ConstantTypes
<1>5. [s.args EXCEPT ![c] = n] \in [Calls -> 0..ArgLen]
  BY <1>3, <1>4
<1>6. wholeArguments(h, c) = w
  <2>1. wholeArguments(h, c) = [h EXCEPT !.args = [h.args EXCEPT ![c] = n]]
    BY <1>1, <1>2, <1>3 DEF wholeArguments, Adapter
  <2> HIDE DEF h, n
  <2> QED BY <2>1, <1>1
<1> HIDE DEF h, n
<1>7. /\ w \in Adapter /\ Kept(h, w) /\ w.out = h.out /\ w.shown = h.shown
      /\ w.completed = h.completed /\ w.held = h.held
      /\ w.args = [s.args EXCEPT ![c] = n]
  BY <1>2, <1>5 DEF Adapter, Kept
<1> HIDE DEF w
<1>8. \A d \in h.completed : w.args[d] = h.args[d]
  BY <1>1, <1>3, <1>4, <1>7
<1>9. Said(w, u) /\ Quiet(w)
  BY <1>1, <1>7, <1>8, KeptSaid
<1>10. w.args[c] = n /\ w.shown[c] <= w.args[c]
  BY <1>1, <1>3, <1>4, <1>7, ConstantTypes
<1>11. /\ Said(g, u) /\ Quiet(g) /\ Kept(w, g)
       /\ g.held = w.held /\ g.completed = w.completed
       /\ g.args = w.args
       /\ g.shown = [w.shown EXCEPT ![c] = IF c \in Previewed THEN w.args[c] ELSE @]
  BY <1>9, <1>10, ToolProgress
<1>12. t = IF c \in s.completed THEN [g EXCEPT !.held = @ \ {c}] ELSE completeTool(g, c)
  BY <1>6 DEF completeItem, h, g
<1> HIDE DEF g, t
<1>13. g \in Adapter
  BY <1>11 DEF Said
<1>14. /\ Said(t, u) /\ Quiet(t) /\ Kept(g, t)
       /\ t.held = g.held \ {c} /\ t.completed = g.completed \cup {c}
       /\ t.args = g.args /\ t.shown = g.shown /\ t.out # <<>>
  <2>1. CASE c \notin s.completed
    <3>1. t = completeTool(g, c)
      BY <2>1, <1>12
    <3>2. c \notin g.completed
      BY <2>1, <1>1, <1>7, <1>11
    <3> QED BY <3>1, <3>2, <1>11, CompleteTool
  <2>2. CASE c \in s.completed
    <3>1. t = [g EXCEPT !.held = g.held \ {c}]
      BY <2>2, <1>12, <1>13 DEF Adapter
    <3>2. t \in Adapter
      BY <3>1, <1>13 DEF Adapter
    <3>3. /\ Kept(g, t) /\ t.held = g.held \ {c} /\ t.completed = g.completed
          /\ t.args = g.args /\ t.shown = g.shown /\ t.out = g.out
      BY <3>1, <3>2, <1>13 DEF Adapter, Kept
    <3>4. Said(t, u) /\ Quiet(t)
      BY <3>3, <1>11, KeptSaid
    <3>5. c \in g.completed
      BY <2>2, <1>1, <1>7, <1>11
    <3>6. t.out # <<>>
      <4>1. CallsIn(g.out, c) # {}
        BY <3>5, <1>11 DEF Said, CallsSaid
      <4>2. g.out \in Seq(EventType)
        BY <1>13, AdapterFields
      <4>3. CallsIn(g.out, c) \subseteq DOMAIN g.out
        BY DEF CallsIn, Indices
      <4> QED BY <4>1, <4>2, <4>3, <3>3
    <3>7. g.completed = g.completed \cup {c}
      BY <3>5
    <3> QED BY <3>3, <3>4, <3>6, <3>7
  <2> QED BY <2>1, <2>2
<1>15. Kept(s, t)
  BY <1>1, <1>7, <1>11, <1>14 DEF Kept
<1>16. t.held = s.held \ {c} /\ t.completed = s.completed \cup {c}
  BY <1>1, <1>7, <1>11, <1>14
<1>17. t.args = [s.args EXCEPT ![c] = IF @ = 0 THEN ArgLen ELSE @] /\ t.args[c] = n
  BY <1>3, <1>7, <1>10, <1>11, <1>14 DEF n
<1>18. t.shown = [s.shown EXCEPT ![c] = IF c \in Previewed THEN t.args[c] ELSE @]
  BY <1>1, <1>7, <1>10, <1>11, <1>14, <1>17
<1> QED BY <1>14, <1>15, <1>16, <1>17, <1>18 DEF t

(* Induction over the calls, for the items that the end of an answer       *)
(* repeats.                                                                *)
LEMMA NatSetInduction ==
  ASSUME NEW S, 0 \in S, \A n \in Nat : n \in S => n + 1 \in S
  PROVE  Nat \subseteq S
<1> DEFINE T    == {n \in Nat : n \notin S}
           Less == {ss \in Nat \X Nat : ss[1] < ss[2]}
<1>1. SUFFICES ASSUME T # {} PROVE FALSE
  OBVIOUS
<1>2. IsWellFoundedOn(Less, Nat)
  BY NatLessThanWellFounded DEF OpToRel
<1>3. PICK x \in T : \A y \in T : ~(<<y, x>> \in Less)
  <2>1. T \subseteq Nat OBVIOUS
  <2> HIDE DEF T, Less
  <2> QED BY <1>1, <1>2, <2>1, WFMin
<1>4. x # 0 OBVIOUS
<1>5. x - 1 \in Nat /\ x - 1 < x BY <1>4
<1>6. x - 1 \notin T BY <1>3, <1>5
<1> QED BY <1>5, <1>6

ItemsUpTo(s, f, n) ==
    f = [c \in 0..n |->
            IF c = 0 THEN s
            ELSE IF c \in provider.closed THEN completeItem(f[c - 1], c)
            ELSE f[c - 1]]

LEMMA ItemsExist ==
  ASSUME NEW s
  PROVE  \E f : ItemsUpTo(s, f, MaxCalls) /\ repeatItems(s) = f[MaxCalls]
<1> DEFINE S == {n \in Nat : \E f : ItemsUpTo(s, f, n)}
<1>1. Nat \subseteq S
  <2>1. 0 \in S
    <3>1. ItemsUpTo(s, [c \in 0..0 |-> s], 0)
      BY DEF ItemsUpTo
    <3> QED BY <3>1
  <2>2. ASSUME NEW n \in Nat, n \in S PROVE n + 1 \in S
    <3>1. PICK f : ItemsUpTo(s, f, n)
      BY <2>2
    <3>2. f = [c \in 0..n |->
                  IF c = 0 THEN s
                  ELSE IF c \in provider.closed THEN completeItem(f[c - 1], c)
                  ELSE f[c - 1]]
      BY <3>1 DEF ItemsUpTo
    <3> DEFINE last == IF n + 1 \in provider.closed THEN completeItem(f[n], n + 1) ELSE f[n]
               g == [c \in 0..(n + 1) |-> IF c = n + 1 THEN last ELSE f[c]]
    <3>3. \A c \in 0..(n + 1) : g[c] =
              IF c = 0 THEN s
              ELSE IF c \in provider.closed THEN completeItem(g[c - 1], c)
              ELSE g[c - 1]
      <4> TAKE c \in 0..(n + 1)
      <4>1. CASE c = n + 1
        <5>1. g[c] = last /\ g[c - 1] = f[n]
          BY <4>1
        <5>2. c # 0
          BY <4>1
        <5> HIDE DEF g
        <5> QED BY <4>1, <5>1, <5>2
      <4>2. CASE c # n + 1
        <5>1. c \in 0..n
          BY <4>2
        <5>2. g[c] = f[c] /\ (c # 0 => g[c - 1] = f[c - 1])
          BY <5>1
        <5>3. f[c] = IF c = 0 THEN s
                     ELSE IF c \in provider.closed THEN completeItem(f[c - 1], c)
                     ELSE f[c - 1]
          BY <3>2, <5>1
        <5> HIDE DEF g
        <5> QED BY <5>2, <5>3
      <4> QED BY <4>1, <4>2
    <3>4. g = [c \in 0..(n + 1) |-> g[c]]
      OBVIOUS
    <3> HIDE DEF g
    <3>5. ItemsUpTo(s, g, n + 1)
      BY <3>3, <3>4 DEF ItemsUpTo
    <3> QED BY <3>5
  <2> HIDE DEF S
  <2> QED BY <2>1, <2>2, NatSetInduction
<1>2. \E f : ItemsUpTo(s, f, MaxCalls)
  BY <1>1, ConstantTypes
<1> DEFINE upTo == CHOOSE f : ItemsUpTo(s, f, MaxCalls)
<1>3. ItemsUpTo(s, upTo, MaxCalls)
  BY <1>2
<1>4. repeatItems(s) = upTo[MaxCalls]
  BY DEF repeatItems, ItemsUpTo
<1> QED BY <1>3, <1>4

(* What the calls have when their arguments came through whole.            *)
ShownAsGiven(s) ==
    \A c \in Calls : s.shown[c] = IF c \in Previewed THEN s.args[c] ELSE 0

LEMMA RepeatItems ==
  ASSUME NEW s, NEW u, Said(s, u), Quiet(s), ShownAsGiven(s),
         provider.closed \subseteq Calls,
         \A c \in provider.closed \cup s.completed : s.args[c] = ArgLen
  PROVE  LET t == repeatItems(s)
         IN  /\ Said(t, u) /\ Quiet(t) /\ Kept(s, t)
             /\ t.held = s.held \ provider.closed
             /\ t.completed = s.completed \cup provider.closed
             /\ t.args = s.args /\ t.shown = s.shown
             /\ t.out = <<>> => s.out = <<>> /\ t.emittedAny = s.emittedAny
<1> DEFINE upto(n) == {c \in provider.closed : c <= n}
           Does(n, t) == /\ Said(t, u) /\ Quiet(t) /\ Kept(s, t)
                         /\ t.held = s.held \ upto(n)
                         /\ t.completed = s.completed \cup upto(n)
                         /\ t.args = s.args /\ t.shown = s.shown
                         /\ t.out = <<>> => s.out = <<>> /\ t.emittedAny = s.emittedAny
<1>1. PICK f : ItemsUpTo(s, f, MaxCalls) /\ repeatItems(s) = f[MaxCalls]
  BY ItemsExist
<1>2. /\ f[0] = s
      /\ \A n \in Nat : n + 1 <= MaxCalls =>
            f[n + 1] = IF n + 1 \in provider.closed THEN completeItem(f[n], n + 1) ELSE f[n]
  <2>1. f = [c \in 0..MaxCalls |->
                  IF c = 0 THEN s
                  ELSE IF c \in provider.closed THEN completeItem(f[c - 1], c)
                  ELSE f[c - 1]]
    BY <1>1 DEF ItemsUpTo
  <2>2. f[0] = s
    BY <2>1, ConstantTypes
  <2>3. ASSUME NEW n \in Nat, n + 1 <= MaxCalls
        PROVE  f[n + 1] = IF n + 1 \in provider.closed THEN completeItem(f[n], n + 1) ELSE f[n]
    <3>1. n + 1 \in 0..MaxCalls /\ n + 1 # 0 /\ (n + 1) - 1 = n
      BY <2>3, ConstantTypes
    <3> QED BY <2>1, <3>1
  <2> QED BY <2>2, <2>3
<1>3. s \in Adapter /\ s.args \in [Calls -> 0..ArgLen] /\ s.shown \in [Calls -> 0..ArgLen]
  BY AdapterFields DEF Said
<1>4. \A c \in Calls : c \in Nat /\ c > 0 /\ c <= MaxCalls
  BY ConstantTypes
<1> DEFINE T == {n \in Nat : n <= MaxCalls => Does(n, f[n])}
<1>5. Nat \subseteq T
  <2>1. 0 \in T
    <3>1. upto(0) = {}
      BY <1>4
    <3>2. s.held = s.held \ {} /\ s.completed = s.completed \cup {} /\ Kept(s, s)
      BY <1>3 DEF Kept
    <3> HIDE DEF upto
    <3> QED BY <1>2, <3>1, <3>2
  <2>2. ASSUME NEW n \in Nat, n \in T PROVE n + 1 \in T
    <3> SUFFICES ASSUME n + 1 <= MaxCalls PROVE Does(n + 1, f[n + 1])
      OBVIOUS
    <3>1. Does(n, f[n])
      BY <2>2, ConstantTypes
    <3> DEFINE r == f[n]
               c == n + 1
               t == f[n + 1]
    <3>2. c \in Calls
      BY ConstantTypes
    <3>3. CASE c \in provider.closed
      <4>1. t = completeItem(r, c)
        BY <3>3, <1>2
      <4>2. upto(c) = upto(n) \cup {c}
        BY <3>3, <1>4
      <4>3. s.args[c] = ArgLen /\ s.shown[c] = IF c \in Previewed THEN ArgLen ELSE 0
        BY <3>2, <3>3 DEF ShownAsGiven
      <4> HIDE DEF upto, r, c, t
      <4>4. /\ Said(r, u) /\ Quiet(r) /\ Kept(s, r)
            /\ r.held = s.held \ upto(n) /\ r.completed = s.completed \cup upto(n)
            /\ r.args = s.args /\ r.shown = s.shown
        BY <3>1 DEF r
      <4>5. r.shown[c] <= r.args[c] /\ (c \in r.completed => r.args[c] = ArgLen)
        BY <4>3, <4>4, ConstantTypes
      <4>6. /\ Said(t, u) /\ Quiet(t) /\ Kept(r, t)
            /\ t.held = r.held \ {c} /\ t.completed = r.completed \cup {c}
            /\ t.args = [r.args EXCEPT ![c] = IF @ = 0 THEN ArgLen ELSE @]
            /\ t.shown = [r.shown EXCEPT ![c] = IF c \in Previewed THEN t.args[c] ELSE @]
            /\ t.out # <<>>
        BY <3>2, <4>1, <4>4, <4>5, CompleteItem
      <4>7. t.args = s.args
        BY <4>3, <4>4, <4>6, <1>3, <3>2, ConstantTypes
      <4>8. t.shown = s.shown
        BY <4>3, <4>4, <4>6, <4>7, <1>3, <3>2
      <4>9. Kept(s, t)
        BY <4>4, <4>6 DEF Kept
      <4> QED BY <4>2, <4>4, <4>6, <4>7, <4>8, <4>9 DEF c, t
    <3>4. CASE c \notin provider.closed
      <4>1. t = r
        BY <3>4, <1>2
      <4>2. upto(c) = upto(n)
        BY <3>4, <1>4
      <4> HIDE DEF upto, c, r, t
      <4> QED BY <3>1, <4>1, <4>2 DEF c, r, t
    <3> QED BY <3>3, <3>4
  <2> HIDE DEF T
  <2> QED BY <2>1, <2>2, NatSetInduction
<1>6. Does(MaxCalls, f[MaxCalls])
  BY <1>5, ConstantTypes
<1>7. upto(MaxCalls) = provider.closed
  BY <1>4
<1> HIDE DEF upto
<1> QED BY <1>1, <1>6, <1>7

(* Calls are completed in any order, behind everything that was said.      *)
LEMMA OrderIsWhole ==
  ASSUME NEW calls \in SUBSET Calls, NEW order \in Orders(calls)
  PROVE  LET n == Cardinality(calls)
         IN  /\ n \in Nat /\ order \in [1..n -> calls]
             /\ \A i, j \in 1..n : order[i] = order[j] => i = j
             /\ \A c \in calls : \E i \in 1..n : order[i] = c
<1> DEFINE n == Cardinality(calls)
<1>1. IsFiniteSet(Calls)
  BY ConstantTypes, FS_Interval
<1>2. IsFiniteSet(calls) /\ n \in Nat
  BY <1>1, FS_Subset, FS_CardinalityType
<1> HIDE DEF n
<1>3. order \in [1..n -> calls] /\ \A i, j \in 1..n : order[i] = order[j] => i = j
  BY DEF Orders, n
<1>4. order \in Injection(1..n, calls)
  BY <1>3 DEF Injection, IsInjective
<1>5. IsFiniteSet(1..n) /\ Cardinality(1..n) = n
  <2>1. 1 \in Int /\ n \in Int
    BY <1>2
  <2> QED BY <1>2, <2>1, FS_Interval
<1>6. order \in Surjection(1..n, calls)
  BY <1>2, <1>4, <1>5, FS_Injection DEF n
<1>7. \A c \in calls : \E i \in 1..n : order[i] = c
  BY <1>6 DEF Surjection
<1> QED BY <1>2, <1>3, <1>7 DEF n

LEMMA CompleteHeld ==
  ASSUME NEW s, NEW u, Said(s, u), Quiet(s), s.held \cap s.completed = {},
         NEW t \in completeHeld(s)
  PROVE  /\ Said(t, u) /\ Quiet(t) /\ Kept(s, t)
         /\ t.held = {} /\ t.completed = s.completed \cup s.held
         /\ t.args = s.args /\ t.shown = s.shown
         /\ t.out = <<>> => s.out = <<>> /\ s.held = {} /\ t.emittedAny = s.emittedAny
<1> DEFINE n == Cardinality(s.held)
           m == Len(s.out)
<1>1. /\ s \in Adapter /\ s.held \in SUBSET Calls /\ s.args \in [Calls -> 0..ArgLen]
      /\ s.out \in Seq(EventType) /\ s.emittedAny \in BOOLEAN
      /\ s.completed \subseteq Calls
  BY AdapterFields DEF Said
<1>2. PICK order \in Orders(s.held) :
        t = [s EXCEPT !.out = s.out \o [i \in DOMAIN order |->
                                CallEvent("call", order[i], s.args[order[i]])],
               !.held = {}, !.completed = s.completed \cup s.held,
               !.emittedAny = s.emittedAny \/ s.held # {}]
  BY <1>1 DEF completeHeld, Adapter
<1>3. /\ n \in Nat /\ order \in [1..n -> s.held]
      /\ \A i, j \in 1..n : order[i] = order[j] => i = j
      /\ \A c \in s.held : \E i \in 1..n : order[i] = c
  BY <1>1, OrderIsWhole
<1> DEFINE more == [i \in 1..n |-> CallEvent("call", order[i], s.args[order[i]])]
           o == s.out \o more
           any == s.emittedAny \/ s.held # {}
<1>4. t = [s EXCEPT !.out = o, !.held = {}, !.completed = s.completed \cup s.held,
                    !.emittedAny = any]
  <2>1. DOMAIN order = 1..n
    BY <1>3
  <2> QED BY <1>2, <2>1
<1> HIDE DEF n
<1>5. \A i \in 1..n : /\ more[i] \in EventType /\ more[i].kind = "call"
                      /\ more[i].call = order[i] /\ more[i].units = s.args[order[i]]
  <2> TAKE i \in 1..n
  <2>1. order[i] \in Calls /\ s.args[order[i]] \in 0..ArgLen
    BY <1>1, <1>3
  <2>2. more[i] = CallEvent("call", order[i], s.args[order[i]])
    OBVIOUS
  <2> HIDE DEF more
  <2> QED BY <2>1, <2>2, EventTypes
<1>6. more \in Seq(EventType) /\ Len(more) = n
  BY <1>3, <1>5
<1> HIDE DEF more
<1>7. /\ o \in Seq(EventType) /\ Len(o) = m + n /\ m \in Nat
      /\ DOMAIN s.out = 1..m /\ DOMAIN o = 1..(m + n)
      /\ \A i \in 1..m : o[i] = s.out[i]
      /\ \A i \in 1..n : o[m + i] = more[i]
  BY <1>1, <1>6, Joined
<1>8. \A i \in 1..(m + n) : i \in 1..m \/ (i - m \in 1..n /\ i = m + (i - m))
  BY <1>3, <1>7
<1>9. \A i \in (1..(m + n)) \ (1..m) : o[i].kind = "call"
  BY <1>5, <1>7, <1>8
<1> HIDE DEF o, any, m
<1>10. t \in Adapter /\ Kept(s, t)
  <2>1. any \in BOOLEAN
    BY DEF any
  <2>2. t \in Adapter
    BY <1>1, <1>4, <1>7, <2>1 DEF Adapter
  <2> QED BY <1>1, <1>4, <2>2 DEF Adapter, Kept
<1>11. /\ t.out = o /\ t.held = {} /\ t.completed = s.completed \cup s.held
       /\ t.args = s.args /\ t.shown = s.shown /\ t.emittedAny = any
  BY <1>1, <1>4 DEF Adapter
<1>12. 1..m \subseteq 1..(m + n)
  BY <1>3, <1>7
<1>13. ASSUME NEW kinds, "call" \notin kinds
       PROVE  Indices(o, kinds) = Indices(s.out, kinds)
  BY <1>7, <1>9, <1>12, <1>13 DEF Indices
<1>14. Cardinality(Indices(o, {"text", "thinking"})) =
          Cardinality(Indices(s.out, {"text", "thinking"}))
  <2>1. "call" \notin {"text", "thinking"}
    OBVIOUS
  <2>2. Indices(o, {"text", "thinking"}) = Indices(s.out, {"text", "thinking"})
    BY <1>13, <2>1
  <2> QED BY <2>2
<1>15. Quiet(t)
  BY <1>11, <1>13 DEF Quiet
<1>16. ASSUME NEW c \in Calls PROVE Cardinality(Shown(o, c)) = Cardinality(Shown(s.out, c))
  <2>1. Indices(o, {"preview"}) = Indices(s.out, {"preview"})
    BY <1>13
  <2>2. \A i \in Indices(s.out, {"preview"}) : o[i] = s.out[i]
    BY <1>1, <1>7, IndicesFinite DEF m
  <2>3. PreviewsIn(o, c) = PreviewsIn(s.out, c)
    BY <2>1, <2>2 DEF PreviewsIn
  <2>4. \A i \in PreviewsIn(s.out, c) :
            {i} \X (1..o[i].units) = {i} \X (1..s.out[i].units)
    BY <2>2 DEF PreviewsIn
  <2>5. \A x : x \in Shown(o, c) <=>
                  \E i \in PreviewsIn(s.out, c) : x \in {i} \X (1..s.out[i].units)
    <3>1. \A x : x \in Shown(o, c) <=>
                    \E i \in PreviewsIn(s.out, c) : x \in {i} \X (1..o[i].units)
      BY <2>3, ShownMembers
    <3> QED BY <3>1, <2>4, Zenon
  <2>6. \A x : x \in Shown(s.out, c) <=>
                  \E i \in PreviewsIn(s.out, c) : x \in {i} \X (1..s.out[i].units)
    BY ShownMembers
  <2>7. \A x : x \in Shown(o, c) <=> x \in Shown(s.out, c)
    BY <2>5, <2>6, Zenon
  <2>8. Shown(o, c) = Shown(s.out, c)
    BY <2>7
  <2> QED BY <2>8
<1>17. CallsSaid(t)
  <2>1. \A i \in 1..m : i \in Indices(o, {"call"}) => i \in Indices(s.out, {"call"})
    BY <1>7 DEF Indices
  <2>2. \A i \in Indices(o, {"call"}) : o[i].call \in t.completed
    <3> TAKE i \in Indices(o, {"call"})
    <3>1. i \in 1..(m + n)
      BY <1>7 DEF Indices
    <3>2. CASE i \in 1..m
      BY <2>1, <3>2, <1>7, <1>11 DEF Said, CallsSaid
    <3>3. CASE i - m \in 1..n /\ i = m + (i - m)
      <4>1. o[i].call = order[i - m]
        BY <3>3, <1>5, <1>7
      <4> QED BY <3>3, <4>1, <1>3, <1>11
    <3> QED BY <3>1, <3>2, <3>3, <1>8
  <2>3. ASSUME NEW c \in Calls
        PROVE  /\ c \in t.completed <=> CallsIn(o, c) # {}
               /\ \A i, j \in CallsIn(o, c) : i = j
               /\ \A i \in CallsIn(o, c) : o[i].units = s.args[c]
    <3>1. /\ c \in s.completed <=> CallsIn(s.out, c) # {}
          /\ \A i, j \in CallsIn(s.out, c) : i = j
          /\ \A i \in CallsIn(s.out, c) : s.out[i].units = s.args[c]
      BY DEF Said, CallsSaid
    <3>2. \A i \in 1..m : i \in CallsIn(o, c) <=> i \in CallsIn(s.out, c)
      BY <1>7, <1>12 DEF CallsIn, Indices
    <3>3. CallsIn(s.out, c) \subseteq 1..m
      BY <1>7 DEF CallsIn, Indices
    <3>4. \A i \in 1..n : m + i \in CallsIn(o, c) <=> order[i] = c
      <4>1. \A i \in 1..n : m + i \in 1..(m + n)
        BY <1>3, <1>7
      <4> QED BY <4>1, <1>5, <1>7 DEF CallsIn, Indices
    <3>5. \A i \in CallsIn(o, c) : i \in 1..(m + n)
      BY <1>7 DEF CallsIn, Indices
    <3>6. CASE c \in s.held
      <4>1. CallsIn(s.out, c) = {}
        BY <3>1, <3>6
      <4>2. \A i \in CallsIn(o, c) : i - m \in 1..n /\ i = m + (i - m) /\ order[i - m] = c
        <5> TAKE i \in CallsIn(o, c)
        <5>1. i \notin 1..m
          BY <4>1, <3>2
        <5>2. i - m \in 1..n /\ i = m + (i - m)
          BY <5>1, <3>5, <1>8
        <5> QED BY <5>2, <3>4
      <4>3. PICK i \in 1..n : order[i] = c
        BY <3>6, <1>3
      <4>4. m + i \in CallsIn(o, c)
        BY <4>3, <3>4
      <4>5. \A k \in CallsIn(o, c) : o[k].units = s.args[c]
        BY <4>2, <1>5, <1>7
      <4>6. \A k, j \in CallsIn(o, c) : k = j
        <5> TAKE k, j \in CallsIn(o, c)
        <5>1. k - m = j - m
          BY <4>2, <1>3
        <5>2. k = m + (k - m) /\ j = m + (j - m)
          BY <4>2
        <5> QED BY <5>1, <5>2
      <4> QED BY <3>6, <4>4, <4>5, <4>6, <1>11
    <3>7. CASE c \notin s.held
      <4>1. \A i \in CallsIn(o, c) : i \in 1..m
        <5> TAKE i \in CallsIn(o, c)
        <5>1. ASSUME i - m \in 1..n, i = m + (i - m) PROVE FALSE
          BY <5>1, <3>4, <3>7, <1>3
        <5> QED BY <5>1, <3>5, <1>8
      <4>2. CallsIn(o, c) = CallsIn(s.out, c)
        BY <4>1, <3>2, <3>3
      <4>3. \A i \in CallsIn(o, c) : o[i] = s.out[i]
        BY <4>1, <1>7
      <4>4. c \in t.completed <=> c \in s.completed
        BY <3>7, <1>11
      <4> QED BY <3>1, <4>2, <4>3, <4>4
    <3> QED BY <3>6, <3>7
  <2> QED BY <2>2, <2>3, <1>11 DEF CallsSaid
<1>18. Thoughts(o, s.thinking)
  <2>1. SUFFICES ASSUME NEW i \in Indices(o, {"thinking"})
                 PROVE  \/ Closes(o, i)
                        \/ s.thinking /\ \A k \in i..Len(o) : o[k].kind \notin {"text", "finished"}
    BY DEF Thoughts
  <2>2. i \in Indices(s.out, {"thinking"}) /\ i \in 1..m
    BY <2>1, <1>1, <1>7, <1>13 DEF Indices
  <2>3. CASE Closes(s.out, i)
    <3>1. PICK j \in i..m : /\ s.out[j].kind = "thought"
                            /\ \A k \in i..j : s.out[k].kind \notin {"text", "finished"}
      BY <2>3 DEF Closes, m
    <3>2. j \in 1..m /\ j \in i..Len(o) /\ \A k \in i..j : k \in 1..m
      BY <2>2, <3>1, <1>3, <1>7
    <3> QED BY <3>1, <3>2, <1>7 DEF Closes
  <2>4. CASE s.thinking /\ \A k \in i..m : s.out[k].kind \notin {"text", "finished"}
    <3>1. \A k \in i..Len(o) : o[k].kind \notin {"text", "finished"}
      <4> TAKE k \in i..Len(o)
      <4>1. k \in 1..(m + n)
        BY <2>2, <1>7
      <4>2. CASE k \in 1..m
        BY <4>2, <2>2, <2>4, <1>7
      <4>3. CASE k \notin 1..m
        BY <4>1, <4>3, <1>9
      <4> QED BY <4>2, <4>3
    <3> QED BY <3>1, <2>4
  <2> QED BY <2>2, <2>3, <2>4 DEF Said, Thoughts, m
<1>19. Said(t, u)
  <2>1. Carry(t) = Carry(s)
    BY <1>10 DEF Kept, Carry
  <2> QED BY <2>1, <1>10, <1>11, <1>14, <1>16, <1>17, <1>18 DEF Said, Kept
<1>20. ASSUME t.out = <<>>
       PROVE  s.out = <<>> /\ s.held = {} /\ t.emittedAny = s.emittedAny
  <2>1. m + n = 0
    BY <1>20, <1>7, <1>11
  <2>2. m = 0 /\ n = 0
    BY <2>1, <1>3, <1>7
  <2>3. s.held = {}
    BY <2>2, <1>3
  <2> QED BY <2>2, <2>3, <1>1, <1>11 DEF m, any
<1> QED BY <1>10, <1>11, <1>15, <1>19, <1>20

(* The end of a turn, reported when it is due.                             *)
Done(s) ==
    /\ \A i \in Indices(s.out, {"finished"}) :
        /\ i = Len(s.out)
        /\ Indices(s.out, {"call"}) # {} <=>
                s.out[i].reason \in {"tool_calls", "tool_use"}
    /\ ~Quiet(s) => ~s.carry /\ ~s.thinking /\ ~s.pending /\ s.held = {}

LEMMA QuietIsDone ==
  ASSUME NEW s, Quiet(s)
  PROVE  Done(s)
BY DEF Quiet, Done

LEMMA NothingHeld ==
  ASSUME NEW s \in Adapter, s.held = {}, NEW t \in completeHeld(s)
  PROVE  t = s
<1>1. /\ s.out \in Seq(EventType) /\ s.emittedAny \in BOOLEAN
  BY AdapterFields
<1>2. PICK order \in Orders(s.held) :
        t = [s EXCEPT !.out = s.out \o [i \in DOMAIN order |->
                                CallEvent("call", order[i], s.args[order[i]])],
               !.held = {}, !.completed = s.completed \cup s.held,
               !.emittedAny = s.emittedAny \/ s.held # {}]
  BY DEF completeHeld, Adapter
<1>3. Cardinality(s.held) = 0 /\ 1..0 = {}
  BY FS_EmptySet
<1>4. DOMAIN order = {}
  BY <1>3 DEF Orders
<1> DEFINE more == [i \in DOMAIN order |-> CallEvent("call", order[i], s.args[order[i]])]
<1>5. more = <<>>
  BY <1>4
<1>6. s.out \o more = s.out
  BY <1>1, <1>5
<1> HIDE DEF more
<1>7. s.completed \cup s.held = s.completed /\ (s.emittedAny \/ s.held # {}) = s.emittedAny
  BY <1>1
<1>8. t = [s EXCEPT !.out = s.out, !.held = s.held, !.completed = s.completed,
                    !.emittedAny = s.emittedAny]
  BY <1>2, <1>6, <1>7 DEF more
<1> QED BY <1>8 DEF Adapter

LEMMA FinishedEventType ==
  ASSUME NEW r \in {"none", "stop", "completed", "end_turn", "tool_calls", "tool_use"}
  PROVE  /\ FinishedEvent(r) \in EventType
         /\ FinishedEvent(r).kind = "finished" /\ FinishedEvent(r).reason = r
<1>1. Event("finished") \in EventType /\ Event("finished").kind = "finished"
  BY ConstantTypes DEF Event, EventType
<1> QED BY <1>1 DEF FinishedEvent, EventType

(* What is the same before and after the end of the turn is reported.      *)
Same(s, t) ==
    /\ s \in Adapter /\ t \in Adapter
    /\ t.held = s.held /\ t.args = s.args /\ t.shown = s.shown
    /\ t.completed = s.completed /\ t.sawTerminator = s.sawTerminator
    /\ t.emittedAny = s.emittedAny /\ t.reason = s.reason /\ t.events = s.events
    /\ t.carry = s.carry /\ t.thinking = s.thinking

LEMMA CallsAreCompleted ==
  ASSUME NEW s, NEW u, Said(s, u)
  PROVE  Indices(s.out, {"call"}) # {} <=> s.completed # {}
<1>1. s.completed \subseteq Calls
  BY AdapterFields DEF Said
<1>2. ASSUME s.completed # {} PROVE Indices(s.out, {"call"}) # {}
  <2>1. PICK c \in Calls : c \in s.completed
    BY <1>1, <1>2
  <2>2. CallsIn(s.out, c) # {}
    BY <2>1 DEF Said, CallsSaid
  <2> QED BY <2>2 DEF CallsIn
<1> QED BY <1>2 DEF Said, CallsSaid

LEMMA Finish ==
  ASSUME NEW s, NEW u, Said(s, u), Done(s), s.carry = FALSE, s.thinking = FALSE,
         s.pending =>
            /\ s.held = {}
            /\ s.completed # {} <=>
                    effectiveFinishReason(s) \in {"tool_calls", "tool_use"}
  PROVE  LET t == flushTurnFinished(s)
         IN  /\ Said(t, u) /\ Done(t) /\ t.pending = FALSE /\ Same(s, t)
             /\ t.out = <<>> => s.out = <<>>
<1> DEFINE r == effectiveFinishReason(s)
           e == FinishedEvent(r)
           t == flushTurnFinished(s)
           n == Len(s.out) + 1
<1>1. s \in Adapter /\ s.out \in Seq(EventType)
  BY AdapterFields DEF Said
<1>2. r \in {"none", "stop", "completed", "end_turn", "tool_calls", "tool_use"}
  BY <1>1, AdapterFields DEF effectiveFinishReason
<1> HIDE DEF r
<1>3. e \in EventType /\ e.kind = "finished" /\ e.reason = r
  BY <1>2, FinishedEventType
<1>4. CASE ~s.pending
  <2>1. t = s
    BY <1>4 DEF flushTurnFinished
  <2> QED BY <2>1, <1>1, <1>4, AdapterFields DEF Same
<1>5. CASE s.pending
  <2>1. t = [Emit(s, e) EXCEPT !.pending = FALSE]
    BY <1>5 DEF flushTurnFinished, r
  <2> HIDE DEF e
  <2>2. /\ Append(s.out, e) \in Seq(EventType) /\ Append(s.out, e) # <<>>
        /\ Len(Append(s.out, e)) = n /\ Append(s.out, e)[n] = e
        /\ \A i \in 1..Len(s.out) : Append(s.out, e)[i] = s.out[i]
        /\ Len(s.out) \in Nat
    BY <1>1, <1>3, AppendOne
  <2>3. t = [s EXCEPT !.out = Append(s.out, e), !.pending = FALSE]
    BY <1>1, <1>3, <2>1, EmitAdapter DEF Adapter
  <2> HIDE DEF t
  <2>4. t \in Adapter
    BY <1>1, <2>2, <2>3 DEF Adapter
  <2>5. t.out = Append(s.out, e) /\ t.pending = FALSE /\ Same(s, t)
    BY <1>1, <2>3, <2>4 DEF Adapter, Same
  <2>6. Quiet(s)
    BY <1>5 DEF Done
  <2>7. ASSUME NEW kinds, "finished" \notin kinds
        PROVE  Indices(t.out, kinds) = Indices(s.out, kinds)
    <3>1. e.kind \notin kinds
      BY <1>3, <2>7
    <3>2. Indices(t.out, kinds) =
            Indices(s.out, kinds) \cup (IF e.kind \in kinds THEN {n} ELSE {})
      BY <1>1, <1>3, <2>5, IndicesAppend
    <3> HIDE DEF n
    <3> QED BY <3>1, <3>2
  <2>8. Indices(t.out, {"finished"}) = {n}
    <3>1. Indices(t.out, {"finished"}) = Indices(s.out, {"finished"}) \cup {n}
      BY <1>1, <1>3, <2>5, IndicesAppend
    <3> QED BY <3>1, <2>6 DEF Quiet
  <2>9. \A kinds : Indices(s.out, kinds) \subseteq 1..Len(s.out)
    BY <1>1, IndicesFinite
  <2>10. CallsSaid(t)
    <3>1. Indices(t.out, {"call"}) = Indices(s.out, {"call"})
      BY <2>7
    <3>2. \A i \in Indices(s.out, {"call"}) : t.out[i] = s.out[i]
      BY <2>2, <2>5, <2>9
    <3>3. \A c \in Calls : CallsIn(t.out, c) = CallsIn(s.out, c)
      BY <3>1, <3>2 DEF CallsIn
    <3>4. \A c \in Calls : \A i \in CallsIn(s.out, c) : t.out[i] = s.out[i]
      BY <3>2 DEF CallsIn
    <3>5. CallsSaid(s)
      BY DEF Said
    <3>6. t.completed = s.completed /\ t.args = s.args
      BY <2>5 DEF Same
    <3>7. \A i \in Indices(t.out, {"call"}) : t.out[i].call \in t.completed
      BY <3>1, <3>2, <3>5, <3>6 DEF CallsSaid
    <3>8. ASSUME NEW c \in Calls
          PROVE  /\ c \in t.completed <=> CallsIn(t.out, c) # {}
                 /\ \A i, j \in CallsIn(t.out, c) : i = j
                 /\ \A i \in CallsIn(t.out, c) : t.out[i].units = t.args[c]
      <4>1. CallsIn(t.out, c) = CallsIn(s.out, c)
        BY <3>3
      <4>2. /\ c \in s.completed <=> CallsIn(s.out, c) # {}
            /\ \A i, j \in CallsIn(s.out, c) : i = j
            /\ \A i \in CallsIn(s.out, c) : s.out[i].units = s.args[c]
        BY <3>5 DEF CallsSaid
      <4>3. \A i \in CallsIn(s.out, c) : t.out[i].units = s.args[c]
        BY <3>4, <4>2
      <4> QED BY <4>1, <4>2, <4>3, <3>6
    <3> QED BY <3>7, <3>8 DEF CallsSaid
  <2>11. Thoughts(t.out, t.thinking)
    <3>1. Thoughts(s.out, FALSE)
      BY DEF Said
    <3>2. Thoughts(t.out, FALSE)
      BY <3>1, <1>1, <1>3, <2>5, ThoughtsAppend
    <3> QED BY <3>2, <2>5 DEF Same
  <2>12. \A c \in Calls : Cardinality(Shown(t.out, c)) = t.shown[c]
    <3> TAKE c \in Calls
    <3>1. Cardinality(Shown(t.out, c)) = Cardinality(Shown(s.out, c)) + 0
      BY <1>1, <1>3, <2>5, ShownAppend
    <3>2. Cardinality(Shown(s.out, c)) = s.shown[c] /\ s.shown[c] \in 0..ArgLen
      BY <1>1, AdapterFields DEF Said
    <3> QED BY <3>1, <3>2, <2>5 DEF Same
  <2>13. Said(t, u)
    <3>1. "finished" \notin {"text", "thinking"}
      OBVIOUS
    <3>2. Indices(t.out, {"text", "thinking"}) = Indices(s.out, {"text", "thinking"})
      BY <2>7, <3>1
    <3>3. Carry(t) = Carry(s)
      BY <2>5 DEF Same, Carry
    <3> QED BY <3>2, <3>3, <2>4, <2>10, <2>11, <2>12 DEF Said
  <2>14. Done(t)
    <3>1. Indices(t.out, {"call"}) # {} <=> t.completed # {}
      BY <2>13, CallsAreCompleted
    <3>2. t.completed = s.completed /\ t.held = {} /\ ~t.pending /\ ~t.carry /\ ~t.thinking
      BY <1>5, <2>5 DEF Same
    <3>3. t.out[n] = e /\ Len(t.out) = n
      BY <2>2, <2>5
    <3>4. t.completed # {} <=> r \in {"tool_calls", "tool_use"}
      BY <1>5, <3>2 DEF r
    <3> HIDE DEF n
    <3> QED BY <2>8, <3>1, <3>2, <3>3, <3>4, <1>3 DEF Done
  <2> QED BY <2>2, <2>5, <2>13, <2>14 DEF t
<1> QED BY <1>4, <1>5

(* Texts, reasoning and tags.                                              *)
LEMMA TaggedText ==
  ASSUME NEW s, NEW u, Said(s, u), Quiet(s), NEW text \in {"plain", "beginning", "rest"},
         text = "rest" => s.carry
  PROVE  LET t == Consume(s, text)
         IN  /\ Said(t, IF text = "rest" THEN u - 1 ELSE u + 1)
             /\ Quiet(t) /\ Speech(s, t)
<1> DEFINE t == Consume(s, text)
           f == flushTaggedContentTail(s)
<1>1. /\ Said(f, u) /\ Quiet(f) /\ Speech(s, f) /\ f.carry = FALSE
  BY FlushTail
<1>2. s \in Adapter /\ f \in Adapter
  BY <1>1 DEF Said
<1>3. CASE text = "plain"
  <2>1. t = emitContent(f)
    BY <1>3 DEF Consume
  <2> HIDE DEF f, t
  <2>2. Said(t, u + 1) /\ Quiet(t) /\ Speech(f, t)
    BY <1>1, <2>1, EmitContent
  <2>3. Speech(s, t)
    BY <1>1, <2>2, SpeechTransitive
  <2> QED BY <1>3, <2>2, <2>3 DEF t
<1>4. CASE text = "beginning"
  <2>1. t = [f EXCEPT !.carry = TRUE]
    BY <1>4 DEF Consume
  <2> HIDE DEF f, t
  <2>2. t \in Adapter
    BY <1>2, <2>1 DEF Adapter
  <2>3. /\ Speech(f, t) /\ t.out = f.out /\ t.shown = f.shown /\ t.thinking = f.thinking
        /\ t.completed = f.completed /\ t.args = f.args /\ t.carry = TRUE
    BY <1>2, <2>1, <2>2 DEF Adapter, Speech
  <2>4. Said(t, u + Carry(t) - Carry(f)) /\ Quiet(t)
    BY <1>1, <2>2, <2>3, SaidAsMuch
  <2>5. u + Carry(t) - Carry(f) = u + 1
    <3>1. Carry(t) = 1 /\ Carry(f) = 0
      BY <1>1, <2>3 DEF Carry
    <3> QED BY <3>1, <1>1, SaidNumber
  <2>6. Speech(s, t)
    BY <1>1, <2>3, SpeechTransitive
  <2> QED BY <1>4, <2>4, <2>5, <2>6 DEF t
<1>5. CASE text = "rest"
  <2> DEFINE g == IF s.inThink THEN flushThinkingCompleted(s) ELSE s
  <2>1. t = [g EXCEPT !.inThink = ~@, !.carry = FALSE]
    BY <1>5 DEF Consume
  <2>2. Said(g, u) /\ Quiet(g) /\ Speech(s, g) /\ g.carry = s.carry
    <3>1. Speech(s, s)
      BY <1>2 DEF Speech
    <3>2. CASE s.inThink
      BY <3>2, FlushThinking
    <3>3. CASE ~s.inThink
      BY <3>1, <3>3
    <3> QED BY <3>2, <3>3
  <2> HIDE DEF g, t
  <2>3. g \in Adapter
    BY <2>2 DEF Said
  <2>4. t \in Adapter
    BY <2>1, <2>3 DEF Adapter
  <2>5. /\ Speech(g, t) /\ t.out = g.out /\ t.shown = g.shown /\ t.thinking = g.thinking
        /\ t.completed = g.completed /\ t.args = g.args /\ t.carry = FALSE
    BY <2>1, <2>3, <2>4 DEF Adapter, Speech
  <2>6. Said(t, u + Carry(t) - Carry(g)) /\ Quiet(t)
    BY <2>2, <2>4, <2>5, SaidAsMuch
  <2>7. u + Carry(t) - Carry(g) = u - 1
    <3>1. Carry(t) = 0 /\ Carry(g) = 1
      BY <1>5, <2>2, <2>5 DEF Carry
    <3> QED BY <3>1, SaidNumber
  <2>8. Speech(s, t)
    BY <2>2, <2>5, SpeechTransitive
  <2> QED BY <1>5, <2>6, <2>7, <2>8 DEF t
<1> QED BY <1>3, <1>4, <1>5

LEMMA AlreadyFlushed ==
  ASSUME NEW s, s.carry = FALSE, s.thinking = FALSE
  PROVE  flushText(s) = s
BY DEF flushText, flushTaggedContentTail, flushThinkingCompleted

(* The parse against what the provider has sent.                           *)
ProviderType ==
    [units : Nat, started : 0..MaxCalls, sent : [Calls -> 0..ArgLen],
     closed : SUBSET Calls, ended : {"no", "finish", "DONE"}]

Full(p, c) == IF protocol = "chat" THEN p.sent[c] = ArgLen ELSE c \in p.closed

CallsMatch(s, p) ==
    /\ p \in ProviderType
    /\ s.args = p.sent
    /\ ShownAsGiven(s)
    /\ s.held \cap s.completed = {}
    /\ s.held \cup s.completed = 1..p.started
    /\ p.closed \subseteq 1..p.started
    /\ \A c \in p.closed \cup s.completed : p.sent[c] = ArgLen
    /\ \A c \in Calls : c > p.started => p.sent[c] = 0
    /\ protocol # "chat" => s.completed \subseteq p.closed
    /\ protocol = "anthropic" => p.closed \subseteq s.completed
    /\ protocol = "chat" => p.closed = {}

EndMatches(s, p) ==
    /\ p.ended # "no" =>
        /\ \A c \in 1..p.started : Full(p, c)
        /\ protocol # "responses" => s.held = {}
    /\ p.ended = "no" => ~s.pending /\ Quiet(s)
    /\ s.pending =>
        /\ protocol # "anthropic"
        /\ s.reason = IF protocol = "responses" THEN "completed"
                      ELSE IF s.completed = {} THEN "stop" ELSE "tool_calls"

(* What made the adapter say that something of an answer came was passed   *)
(* on, but for a call of the messages protocol that is still open.         *)
Speaks(s) ==
    s.emittedAny /\ s.out = <<>> => protocol = "anthropic" /\ s.held # {}

Live(s, p) ==
    Said(s, p.units) /\ Done(s) /\ Speaks(s) /\ CallsMatch(s, p) /\ EndMatches(s, p)

LEMMA SpeechIsLive ==
  ASSUME NEW s, NEW p, Live(s, p), NEW t, Speech(s, t), Quiet(t), Quiet(s),
         NEW u \in Nat, Said(t, u)
  PROVE  Live(t, [p EXCEPT !.units = u])
<1> DEFINE q == [p EXCEPT !.units = u]
<1>1. /\ p \in ProviderType /\ s \in Adapter /\ t \in Adapter
  BY DEF Live, CallsMatch, Speech
<1>2. /\ q \in ProviderType /\ q.units = u /\ q.started = p.started /\ q.sent = p.sent
      /\ q.closed = p.closed /\ q.ended = p.ended
  BY <1>1 DEF ProviderType
<1> HIDE DEF q
<1>3. Done(t)
  BY QuietIsDone
<1>4. Speaks(t)
  BY DEF Live, Speech, Speaks
<1>5. CallsMatch(t, q)
  BY <1>2 DEF Live, Speech, CallsMatch, ShownAsGiven
<1>6. EndMatches(t, q)
  BY <1>2 DEF Live, Speech, EndMatches, Full
<1> QED BY <1>2, <1>3, <1>4, <1>5, <1>6 DEF Live, q

(* The same state with one more event counted.                             *)
LEMMA CountedIsLive ==
  ASSUME NEW s, NEW p, Live(s, p), s.events <= Budget
  PROVE  LET t == [s EXCEPT !.events = @ + 1]
         IN  Live(t, p) /\ t.events = s.events + 1 /\ t.carry = s.carry
<1> DEFINE t == [s EXCEPT !.events = @ + 1]
<1>1. s \in Adapter
  BY DEF Live, Said
<1>2. s.events + 1 \in 0..(Budget + 1)
  BY <1>1, AdapterFields, ConstantTypes
<1>3. t = [s EXCEPT !.events = s.events + 1]
  BY <1>1 DEF Adapter
<1> HIDE DEF t
<1>4. t \in Adapter
  BY <1>1, <1>2, <1>3 DEF Adapter
<1>5. /\ t.held = s.held /\ t.args = s.args /\ t.shown = s.shown
      /\ t.completed = s.completed /\ t.pending = s.pending /\ t.reason = s.reason
      /\ t.emittedAny = s.emittedAny /\ t.carry = s.carry /\ t.thinking = s.thinking
      /\ t.out = s.out /\ t.events = s.events + 1
  BY <1>1, <1>3 DEF Adapter
<1>6. Said(t, p.units)
  BY <1>4, <1>5 DEF Live, Said, Carry, CallsSaid
<1>7. Done(t) /\ Speaks(t) /\ CallsMatch(t, p) /\ EndMatches(t, p)
  BY <1>5 DEF Live, Done, Quiet, Speaks, CallsMatch, EndMatches, ShownAsGiven
<1> QED BY <1>5, <1>6, <1>7 DEF Live, t

(* What the provider may send, and what that makes of its answer.          *)
Talks == Open = {} /\ provider.ended = "no"

LEMMA SendableMeans ==
  ASSUME NEW event \in Sendable, event.type # "error",
         protocol \in {"chat", "responses", "anthropic"}
  PROVE  \/ /\ event.type = "text" /\ Talks
            /\ event.text \in {"plain", "beginning", "rest"}
            /\ event.text = "rest" => adapter.carry
         \/ event.type = "reasoning" /\ Talks
         \/ /\ event.type = "start" /\ Talks
            /\ provider.started < MaxCalls /\ event.call = provider.started + 1
         \/ event.type = "piece" /\ event.call \in Open /\ ~Given(event.call)
         \/ /\ event.type = "close" /\ event.call \in Open
            /\ event.whole = FALSE /\ Given(event.call)
         \/ /\ event.type = "close" /\ event.call \in Open
            /\ event.whole = TRUE /\ protocol = "responses"
            /\ provider.sent[event.call] \in {0, ArgLen}
         \/ event.type = "finish" /\ Talks
         \/ event.type = "usage" /\ provider.ended = "finish" /\ protocol = "chat"
         \/ /\ event.type = "DONE" /\ provider.ended = "finish"
            /\ protocol \in {"chat", "responses"}
<1> DEFINE text == {TextOf(t) : t \in {"plain", "beginning"}}
                    \cup (IF adapter.carry THEN {TextOf("rest")} ELSE {})
           starts == IF provider.started < MaxCalls
                     THEN {Of("start", provider.started + 1)} ELSE {}
           pieces == {Of("piece", c) : c \in {d \in Open : ~Given(d)}}
           closing == {Of("close", c) : c \in {d \in Open : Given(d)}}
           whole == {[Of("close", c) EXCEPT !.whole = TRUE] :
                        c \in {d \in Open : provider.sent[d] \in {0, ArgLen}}}
           after == IF provider.ended # "finish" THEN {}
                    ELSE CASE protocol = "chat" -> {Answer("usage"), Answer("DONE")}
                           [] protocol = "responses" -> {Answer("DONE")}
                           [] protocol = "anthropic" -> {}
<1>1. event \in after =>
        /\ provider.ended = "finish"
        /\ \/ protocol = "chat" /\ event \in {Answer("usage"), Answer("DONE")}
           \/ protocol = "responses" /\ event = Answer("DONE")
  OBVIOUS
<1>2. \/ Talks /\ (event \in text \/ event = Answer("reasoning") \/ event \in starts
                     \/ event = Answer("finish"))
      \/ event \in pieces \/ event \in closing
      \/ protocol = "responses" /\ event \in whole
      \/ event \in after
      \/ event = Answer("error")
  BY DEF Sendable, Talks
<1>3. CASE Talks /\ event \in text
  BY <1>3 DEF TextOf, Answer
<1>4. CASE Talks /\ (event = Answer("reasoning") \/ event = Answer("finish"))
  BY <1>4 DEF Answer
<1>5. CASE Talks /\ event \in starts
  BY <1>5 DEF Of, Answer
<1>6. CASE event \in pieces
  BY <1>6 DEF Of, Answer
<1>7. CASE event \in closing
  BY <1>7 DEF Of, Answer
<1>8. CASE protocol = "responses" /\ event \in whole
  BY <1>8 DEF Of, Answer
<1>9. CASE event \in after
  <2> HIDE DEF after
  <2> QED BY <1>1, <1>9 DEF Answer
<1>10. CASE event = Answer("error")
  BY <1>10 DEF Answer
<1> QED BY <1>2, <1>3, <1>4, <1>5, <1>6, <1>7, <1>8, <1>9, <1>10

LEMMA SentMeans ==
  ASSUME NEW event
  PROVE  /\ event.type = "text" =>
                Sent(event) = [provider EXCEPT !.units =
                                 IF event.text = "rest" THEN provider.units - 1
                                 ELSE provider.units + 1]
         /\ event.type = "reasoning" =>
                Sent(event) = [provider EXCEPT !.units = provider.units + 1]
         /\ event.type = "start" => Sent(event) = [provider EXCEPT !.started = event.call]
         /\ event.type = "piece" =>
                Sent(event) = [provider EXCEPT !.sent[event.call] = @ + 1]
         /\ event.type = "close" =>
                Sent(event) = [provider EXCEPT !.sent[event.call] = ArgLen,
                                               !.closed = @ \cup {event.call}]
         /\ event.type = "finish" => Sent(event) = [provider EXCEPT !.ended = "finish"]
         /\ event.type = "DONE" => Sent(event) = [provider EXCEPT !.ended = "DONE"]
         /\ event.type = "usage" => Sent(event) = provider
<1>1. CASE event.type = "text"
  BY <1>1 DEF Sent
<1>2. CASE event.type = "reasoning"
  BY <1>2 DEF Sent
<1>3. CASE event.type = "start"
  BY <1>3 DEF Sent
<1>4. CASE event.type = "piece"
  BY <1>4 DEF Sent
<1>5. CASE event.type = "close"
  BY <1>5 DEF Sent
<1>6. CASE event.type = "finish"
  BY <1>6 DEF Sent
<1>7. CASE event.type = "DONE"
  BY <1>7 DEF Sent
<1>8. CASE event.type = "usage"
  BY <1>8 DEF Sent
<1> QED BY <1>1, <1>2, <1>3, <1>4, <1>5, <1>6, <1>7, <1>8

(* The three changes of a call.                                            *)
LEMMA StartIsNew ==
  ASSUME NEW s, NEW p, CallsMatch(s, p), p.started < MaxCalls
  PROVE  LET c == p.started + 1
         IN  c \in Calls /\ s.args[c] = 0 /\ s.shown[c] = 0
<1> DEFINE c == p.started + 1
<1>1. p \in ProviderType /\ p.started \in 0..MaxCalls
  BY DEF CallsMatch, ProviderType
<1>2. c \in Calls /\ c > p.started
  BY <1>1, ConstantTypes
<1> HIDE DEF c
<1>3. s.args[c] = 0
  BY <1>2 DEF CallsMatch
<1> QED BY <1>2, <1>3 DEF CallsMatch, ShownAsGiven, c

LEMMA StartMatches ==
  ASSUME NEW s, NEW p, CallsMatch(s, p), s \in Adapter, p.started < MaxCalls,
         NEW t, t.held = s.held \cup {p.started + 1}, t.completed = s.completed,
         t.args = s.args, t.shown = s.shown
  PROVE  CallsMatch(t, [p EXCEPT !.started = p.started + 1])
<1> DEFINE c == p.started + 1
           q == [p EXCEPT !.started = c]
<1>1. /\ p \in ProviderType /\ p.started \in 0..MaxCalls /\ p.closed \subseteq 1..p.started
      /\ s.held \cup s.completed = 1..p.started
  BY DEF CallsMatch, ProviderType
<1>2. c \in Calls /\ c \in 0..MaxCalls /\ c \notin 1..p.started /\ 1..c = 1..p.started \cup {c}
  BY <1>1, ConstantTypes
<1>3. /\ q \in ProviderType /\ q.started = c /\ q.sent = p.sent /\ q.closed = p.closed
  BY <1>1, <1>2 DEF ProviderType
<1>5. \A d \in Calls : d > c => d > p.started
  BY <1>1, ConstantTypes
<1> HIDE DEF q, c
<1>6. t.held \cup t.completed = 1..c
  BY <1>1, <1>2 DEF c
<1>7. t.held \cap t.completed = {}
  BY <1>1, <1>2 DEF CallsMatch, c
<1>8. p.closed \subseteq 1..c
  BY <1>1, <1>2
<1>9. CallsMatch(t, q)
  BY <1>3, <1>5, <1>6, <1>7, <1>8 DEF CallsMatch, ShownAsGiven
<1> QED BY <1>9 DEF q, c

LEMMA PieceMatches ==
  ASSUME NEW s, NEW p, CallsMatch(s, p), s \in Adapter,
         NEW c \in 1..p.started, p.sent[c] # ArgLen
  PROVE  /\ c \in Calls /\ c \notin s.completed
         /\ s.args[c] < ArgLen /\ s.shown[c] <= s.args[c]
         /\ \A t : /\ t.held = s.held \cup {c} /\ t.completed = s.completed
                   /\ t.args = [s.args EXCEPT ![c] = @ + 1]
                   /\ t.shown = [s.shown EXCEPT ![c] =
                                    IF c \in Previewed THEN s.args[c] + 1 ELSE @]
                   => CallsMatch(t, [p EXCEPT !.sent[c] = @ + 1])
<1> DEFINE q == [p EXCEPT !.sent[c] = @ + 1]
<1>1. /\ p \in ProviderType /\ p.started \in 0..MaxCalls
      /\ p.sent \in [Calls -> 0..ArgLen] /\ s.args = p.sent
      /\ s.shown \in [Calls -> 0..ArgLen]
      /\ s.held \cup s.completed = 1..p.started
  BY AdapterFields DEF CallsMatch, ProviderType
<1>2. c \in Calls /\ c <= p.started
  BY <1>1, ConstantTypes
<1>3. p.sent[c] < ArgLen /\ p.sent[c] + 1 \in 0..ArgLen
  BY <1>1, <1>2, ConstantTypes
<1>4. c \notin s.completed /\ c \notin p.closed /\ s.shown[c] <= s.args[c] /\ c \in s.held
  BY <1>1, <1>2, <1>3, ConstantTypes DEF CallsMatch, ShownAsGiven
<1>5. /\ q \in ProviderType /\ q.started = p.started /\ q.closed = p.closed
      /\ q.sent = [p.sent EXCEPT ![c] = p.sent[c] + 1]
  BY <1>1, <1>2, <1>3 DEF ProviderType
<1> HIDE DEF q
<1>6. ASSUME NEW t, t.held = s.held \cup {c}, t.completed = s.completed,
             t.args = [s.args EXCEPT ![c] = @ + 1],
             t.shown = [s.shown EXCEPT ![c] =
                            IF c \in Previewed THEN s.args[c] + 1 ELSE @]
      PROVE  CallsMatch(t, q)
  <2>1. t.args = q.sent
    BY <1>1, <1>5, <1>6
  <2>2. ShownAsGiven(t)
    <3> SUFFICES ASSUME NEW d \in Calls
                 PROVE  t.shown[d] = IF d \in Previewed THEN t.args[d] ELSE 0
      BY DEF ShownAsGiven
    <3>1. s.shown[d] = IF d \in Previewed THEN s.args[d] ELSE 0
      BY DEF CallsMatch, ShownAsGiven
    <3>2. CASE d = c
      <4>1. t.args[c] = s.args[c] + 1
        BY <1>1, <1>2, <1>6
      <4>2. t.shown[c] = IF c \in Previewed THEN s.args[c] + 1 ELSE s.shown[c]
        BY <1>1, <1>2, <1>6
      <4> QED BY <3>1, <3>2, <4>1, <4>2
    <3>3. CASE d # c
      BY <1>1, <1>6, <3>1, <3>3
    <3> QED BY <3>2, <3>3
  <2>3. t.held = s.held
    BY <1>4, <1>6
  <2>4. \A d \in Calls : d # c => q.sent[d] = p.sent[d]
    BY <1>1, <1>5
  <2>5. \A d \in Calls : d > p.started => q.sent[d] = 0
    BY <1>2, <2>4, <1>1, ConstantTypes DEF CallsMatch
  <2>6. p.closed \cup s.completed \subseteq Calls
    BY <1>1, AdapterFields DEF ProviderType
  <2>7. \A d \in p.closed \cup s.completed : q.sent[d] = ArgLen
    BY <1>4, <2>4, <2>6 DEF CallsMatch
  <2> QED BY <1>5, <1>6, <2>1, <2>2, <2>3, <2>5, <2>7 DEF CallsMatch
<1> QED BY <1>1, <1>2, <1>3, <1>4, <1>6 DEF q

LEMMA CloseMatches ==
  ASSUME NEW s, NEW p, CallsMatch(s, p), s \in Adapter, protocol # "chat",
         NEW c \in 1..p.started, c \notin p.closed, p.sent[c] \in {0, ArgLen}
  PROVE  /\ c \in Calls /\ c \notin s.completed /\ s.shown[c] <= s.args[c]
         /\ s.args[c] \in {0, ArgLen}
         /\ \A t : /\ \/ t.held = s.held \ {c} /\ t.completed = s.completed \cup {c}
                      \/ /\ protocol # "anthropic"
                         /\ t.held = s.held \cup {c} /\ t.completed = s.completed
                   /\ t.args = [s.args EXCEPT ![c] = ArgLen]
                   /\ t.shown = [s.shown EXCEPT ![c] =
                                    IF c \in Previewed THEN ArgLen ELSE @]
                   => CallsMatch(t, [p EXCEPT !.sent[c] = ArgLen,
                                              !.closed = @ \cup {c}])
<1> DEFINE q == [p EXCEPT !.sent[c] = ArgLen, !.closed = @ \cup {c}]
<1>1. /\ p \in ProviderType /\ p.started \in 0..MaxCalls
      /\ p.sent \in [Calls -> 0..ArgLen] /\ s.args = p.sent
      /\ s.shown \in [Calls -> 0..ArgLen]
      /\ s.held \cup s.completed = 1..p.started
      /\ s.held \cap s.completed = {}
      /\ s.completed \subseteq Calls /\ p.closed \subseteq Calls
      /\ p.closed \subseteq 1..p.started
      /\ s.completed \subseteq p.closed
  BY AdapterFields DEF CallsMatch, ProviderType
<1>2. c \in Calls /\ c <= p.started
  BY <1>1, ConstantTypes
<1>3. c \notin s.completed /\ c \in s.held /\ s.shown[c] <= s.args[c]
  BY <1>1, <1>2, ConstantTypes DEF CallsMatch, ShownAsGiven
<1>4. /\ q \in ProviderType /\ q.started = p.started /\ q.closed = p.closed \cup {c}
      /\ q.sent = [p.sent EXCEPT ![c] = ArgLen]
  <2>1. ArgLen \in 0..ArgLen
    BY ConstantTypes
  <2> QED BY <1>1, <1>2, <2>1 DEF ProviderType
<1> HIDE DEF q
<1>5. ASSUME NEW t,
             \/ t.held = s.held \ {c} /\ t.completed = s.completed \cup {c}
             \/ /\ protocol # "anthropic"
                /\ t.held = s.held \cup {c} /\ t.completed = s.completed,
             t.args = [s.args EXCEPT ![c] = ArgLen],
             t.shown = [s.shown EXCEPT ![c] = IF c \in Previewed THEN ArgLen ELSE @]
      PROVE  CallsMatch(t, q)
  <2>1. t.args = q.sent
    BY <1>1, <1>4, <1>5
  <2>2. ShownAsGiven(t)
    BY <1>1, <1>2, <1>5 DEF CallsMatch, ShownAsGiven
  <2>3. t.held \cup t.completed = 1..p.started /\ t.held \cap t.completed = {}
    BY <1>1, <1>3, <1>5
  <2>4. \A d \in Calls : q.sent[d] = IF d = c THEN ArgLen ELSE p.sent[d]
    BY <1>1, <1>4
  <2>5. \A d \in Calls : d > p.started => q.sent[d] = 0
    BY <1>2, <2>4, <1>1, ConstantTypes DEF CallsMatch
  <2>6. t.completed \subseteq q.closed /\ q.closed \subseteq 1..p.started
    BY <1>1, <1>4, <1>5
  <2>7. \A d \in q.closed \cup t.completed : q.sent[d] = ArgLen
    BY <1>1, <1>2, <1>4, <2>4, <2>6 DEF CallsMatch
  <2>8. protocol = "anthropic" => q.closed \subseteq t.completed
    BY <1>4, <1>5 DEF CallsMatch
  <2> QED BY <1>4, <2>1, <2>2, <2>3, <2>5, <2>6, <2>7, <2>8 DEF CallsMatch
<1> QED BY <1>1, <1>2, <1>3, <1>5 DEF q

(* The last things of an answer: the texts, the calls that are still held, *)
(* the end of the turn.                                                    *)
LEMMA FlushDone ==
  ASSUME NEW s, NEW u, Said(s, u), Done(s)
  PROVE  LET t == flushText(s)
         IN  /\ Said(t, u) /\ Done(t) /\ Speech(s, t)
             /\ t.thinking = FALSE /\ t.carry = FALSE
             /\ Quiet(s) => Quiet(t)
<1>1. s \in Adapter /\ s.carry \in BOOLEAN /\ s.thinking \in BOOLEAN
  BY AdapterFields DEF Said
<1>2. CASE Quiet(s)
  BY <1>2, FlushText, QuietIsDone
<1>3. CASE ~Quiet(s)
  <2>1. s.carry = FALSE /\ s.thinking = FALSE
    BY <1>1, <1>3 DEF Done
  <2>2. flushText(s) = s
    BY <2>1, AlreadyFlushed
  <2> QED BY <1>1, <1>3, <2>1, <2>2 DEF Speech
<1> QED BY <1>2, <1>3

LEMMA CompleteDone ==
  ASSUME NEW s, NEW u, Said(s, u), Done(s), s.held \cap s.completed = {},
         NEW t \in completeHeld(s)
  PROVE  /\ Said(t, u) /\ Done(t) /\ Kept(s, t)
         /\ t.held = {} /\ t.completed = s.completed \cup s.held
         /\ t.args = s.args /\ t.shown = s.shown
         /\ t.out = <<>> => s.out = <<>> /\ s.held = {} /\ t.emittedAny = s.emittedAny
         /\ Quiet(s) => Quiet(t)
<1>1. s \in Adapter
  BY DEF Said
<1>2. CASE Quiet(s)
  BY <1>2, CompleteHeld, QuietIsDone
<1>3. CASE ~Quiet(s)
  <2>1. s.held = {}
    BY <1>3 DEF Done
  <2>2. t = s
    BY <1>1, <2>1, NothingHeld
  <2> QED BY <1>1, <1>3, <2>1, <2>2 DEF Kept
<1> QED BY <1>2, <1>3

Due(s) ==
    s.pending => /\ s.held = {}
                 /\ s.completed # {} <=>
                        effectiveFinishReason(s) \in {"tool_calls", "tool_use"}

LEMMA Concluded ==
  ASSUME NEW s, NEW u, Said(s, u), Done(s), Due(s)
  PROVE  LET t == concluded(s)
         IN  /\ Said(t, u) /\ Done(t) /\ t.pending = FALSE
             /\ t.carry = FALSE /\ t.thinking = FALSE
             /\ t.held = s.held /\ t.args = s.args /\ t.shown = s.shown
             /\ t.completed = s.completed /\ t.sawTerminator = s.sawTerminator
             /\ t.reason = s.reason /\ t.events = s.events
             /\ t.out = <<>> => s.out = <<>> /\ t.emittedAny = s.emittedAny
<1> DEFINE r == flushText(s)
           t == flushTurnFinished(r)
<1>1. /\ Said(r, u) /\ Done(r) /\ Speech(s, r)
      /\ r.thinking = FALSE /\ r.carry = FALSE
  BY FlushDone
<1> HIDE DEF r
<1>2. r.pending =>
            /\ r.held = {}
            /\ r.completed # {} <=>
                    effectiveFinishReason(r) \in {"tool_calls", "tool_use"}
  BY <1>1 DEF Due, Speech, effectiveFinishReason
<1>3. /\ Said(t, u) /\ Done(t) /\ t.pending = FALSE /\ Same(r, t)
      /\ t.out = <<>> => r.out = <<>>
  BY <1>1, <1>2, Finish
<1> HIDE DEF t
<1>4. concluded(s) = t
  BY DEF concluded, t, r
<1> QED BY <1>1, <1>3, <1>4 DEF Same, Speech

(* An end of the turn that is pending says what it must once nothing is held. *)
LEMMA PendingIsDue ==
  ASSUME NEW s, NEW p, EndMatches(s, p), s.held = {} \/ ~s.pending,
         protocol \in {"chat", "responses", "anthropic"}
  PROVE  Due(s)
BY DEF EndMatches, Due, effectiveFinishReason

LEMMA Scanned ==
  ASSUME NEW s, NEW p, Live(s, p), protocol \in {"chat", "responses", "anthropic"},
         NEW t \in scanned(s)
  PROVE  /\ Said(t, p.units) /\ Done(t) /\ Due(t)
         /\ t.args = s.args /\ t.shown = s.shown
         /\ t.sawTerminator = s.sawTerminator /\ t.events = s.events
         /\ \A c \in Calls : Full(p, c) => c \in t.completed
         /\ t.out = <<>> =>
                /\ s.out = <<>> /\ t.emittedAny = s.emittedAny
                /\ protocol # "anthropic" => s.held = {}
<1>1. s \in Adapter /\ s.held \cap s.completed = {}
  BY DEF Live, Said, CallsMatch
<1>2. \A c \in Calls : Full(p, c) => c \in s.held \cup s.completed
  BY ConstantTypes DEF Live, CallsMatch, Full, ProviderType
<1>3. CASE protocol = "anthropic"
  <2>1. t = s
    BY <1>3 DEF scanned
  <2>2. Due(s)
    BY <1>3, PendingIsDue DEF Live, EndMatches
  <2>3. \A c \in Calls : Full(p, c) => c \in s.completed
    BY <1>3 DEF Live, CallsMatch, Full
  <2> QED BY <1>3, <2>1, <2>2, <2>3 DEF Live
<1>4. CASE protocol # "anthropic"
  <2>1. t \in completeHeld(s)
    BY <1>4 DEF scanned
  <2>2. /\ Said(t, p.units) /\ Done(t) /\ Kept(s, t)
        /\ t.held = {} /\ t.completed = s.completed \cup s.held
        /\ t.args = s.args /\ t.shown = s.shown
        /\ t.out = <<>> => s.out = <<>> /\ s.held = {} /\ t.emittedAny = s.emittedAny
    BY <1>1, <2>1, CompleteDone DEF Live
  <2>3. Due(t)
    <3>1. CASE ~s.pending
      BY <2>2, <3>1 DEF Kept, Due
    <3>2. CASE s.pending
      <4>1. /\ t.reason = s.reason /\ s.reason = IF protocol = "responses" THEN "completed"
                      ELSE IF s.completed = {} THEN "stop" ELSE "tool_calls"
        BY <2>2, <3>2 DEF Kept, Live, EndMatches
      <4>2. protocol # "responses" => s.held = {}
        BY <3>2 DEF Live, EndMatches
      <4>3. protocol # "responses" => t.completed = s.completed
        BY <2>2, <4>2
      <4> QED BY <1>4, <2>2, <4>1, <4>3 DEF Due, effectiveFinishReason
    <3> QED BY <3>1, <3>2, <1>1, AdapterFields
  <2>4. \A c \in Calls : Full(p, c) => c \in t.completed
    BY <1>2, <2>2
  <2> QED BY <1>4, <2>2, <2>3, <2>4 DEF Kept
<1> QED BY <1>3, <1>4

(* The steps of the adapters keep the parse live.                          *)
LEMMA Marked ==
  ASSUME NEW s, NEW u, Said(s, u), NEW t \in Adapter,
         t.out = s.out, t.shown = s.shown, t.completed = s.completed,
         t.thinking = s.thinking, t.args = s.args, t.carry = s.carry
  PROVE  Said(t, u) /\ (Quiet(s) => Quiet(t))
<1>1. Carry(t) = Carry(s) /\ Carry(s) \in 0..1
  BY AdapterFields DEF Said, Carry
<1>2. u + Carry(t) - Carry(s) = u
  BY <1>1, SaidNumber
<1> QED BY <1>2, SaidAsMuch

LEMMA SpeechKeeps ==
  ASSUME NEW s, NEW p, Live(s, p), NEW t, Speech(s, t), Said(t, p.units), Done(t),
         Quiet(s) => Quiet(t)
  PROVE  Live(t, p)
<1>1. Speaks(t)
  BY DEF Live, Speech, Speaks
<1>2. CallsMatch(t, p) /\ EndMatches(t, p)
  BY DEF Live, Speech, CallsMatch, ShownAsGiven, EndMatches
<1> QED BY <1>1, <1>2 DEF Live

LEMMA LiveBefore ==
  ASSUME NEW t, NEW q, Said(t, q.units), Quiet(t), CallsMatch(t, q), Speaks(t),
         q.ended = "no", t.pending = FALSE
  PROVE  Live(t, q)
BY QuietIsDone DEF Live, EndMatches

LEMMA OpenTalks ==
  ASSUME NEW s, Live(s, provider), NEW c \in Open
  PROVE  /\ provider.ended = "no" /\ c \in 1..provider.started /\ ~Full(provider, c)
         /\ protocol = "chat" => provider.sent[c] # ArgLen
         /\ protocol # "chat" => c \notin provider.closed
<1>1. c \in 1..provider.started /\ ~Full(provider, c)
  BY DEF Open, Complete, Given, Full
<1> QED BY <1>1 DEF Live, EndMatches, Full

LEMMA BeforeTheEnd ==
  ASSUME NEW s, NEW p, Live(s, p), p.ended = "no"
  PROVE  /\ Said(s, p.units) /\ Quiet(s) /\ s.pending = FALSE /\ s \in Adapter
         /\ CallsMatch(s, p) /\ p \in ProviderType /\ Speaks(s)
BY AdapterFields DEF Live, Said, EndMatches, CallsMatch

LEMMA AllFull ==
  ASSUME NEW s, Live(s, provider), Open = {} \/ provider.ended # "no"
  PROVE  \A c \in 1..provider.started : Full(provider, c)
BY DEF Live, EndMatches, Open, Complete, Given, Full

LEMMA ChatStarts ==
  ASSUME NEW s, Live(s, provider), protocol = "chat", Talks,
         provider.started < MaxCalls
  PROVE  LET c == provider.started + 1
             t == held(flushText(s), c)
         IN  Live(t, [provider EXCEPT !.started = c]) /\ t.events = s.events
<1> DEFINE p == provider
           c == p.started + 1
           r == flushText(s)
           t == held(r, c)
           q == [p EXCEPT !.started = c]
<1>1. /\ Said(s, p.units) /\ Quiet(s) /\ s.pending = FALSE /\ s \in Adapter
      /\ CallsMatch(s, p) /\ p \in ProviderType /\ Speaks(s)
  BY BeforeTheEnd DEF Talks
<1>2. Said(r, p.units) /\ Quiet(r) /\ Speech(s, r)
  BY <1>1, FlushText
<1>3. Live(r, p)
  BY <1>2, SpeechKeeps, QuietIsDone
<1> HIDE DEF r
<1>4. r \in Adapter /\ CallsMatch(r, p) /\ Speaks(r)
  BY <1>3 DEF Live, Said
<1>5. c \in Calls
  BY <1>4, StartIsNew
<1>6. /\ Said(t, p.units) /\ Quiet(t) /\ Kept(r, t)
      /\ t.held = r.held \cup {c} /\ t.completed = r.completed
      /\ t.args = r.args /\ t.shown = r.shown
      /\ t.out = r.out /\ t.emittedAny = r.emittedAny
  BY <1>2, <1>5, HoldCall
<1> HIDE DEF t
<1>7. CallsMatch(t, q)
  BY <1>4, <1>6, StartMatches
<1>8. q.units = p.units /\ q.ended = "no"
  BY <1>1 DEF ProviderType, Talks
<1>9. t.pending = FALSE /\ t.events = s.events
  BY <1>1, <1>2, <1>6 DEF Kept, Speech
<1>10. Speaks(t)
  BY <1>4, <1>6 DEF Speaks
<1> HIDE DEF q
<1>11. Live(t, q)
  BY <1>6, <1>7, <1>8, <1>9, <1>10, LiveBefore
<1> QED BY <1>9, <1>11 DEF q, t, r

LEMMA PieceLive ==
  ASSUME NEW r, Live(r, provider), NEW c \in Open, provider.sent[c] # ArgLen
  PROVE  LET t == piece(r, c)
             q == [provider EXCEPT !.sent[c] = @ + 1]
         IN  /\ Said(t, q.units) /\ Quiet(t) /\ CallsMatch(t, q) /\ q.ended = "no"
             /\ t.pending = FALSE /\ t.events = r.events /\ c \in t.held
             /\ t.out = <<>> => r.out = <<>> /\ t.emittedAny = r.emittedAny
<1> DEFINE p == provider
           t == piece(r, c)
           q == [p EXCEPT !.sent[c] = @ + 1]
<1>1. p.ended = "no" /\ c \in 1..p.started
  BY OpenTalks
<1>2. /\ Said(r, p.units) /\ Quiet(r) /\ r.pending = FALSE /\ r \in Adapter
      /\ CallsMatch(r, p) /\ p \in ProviderType
  BY <1>1, BeforeTheEnd
<1>3. /\ c \in Calls /\ c \notin r.completed
      /\ r.args[c] < ArgLen /\ r.shown[c] <= r.args[c]
  BY <1>1, <1>2, PieceMatches
<1>4. /\ Said(t, p.units) /\ Quiet(t) /\ Kept(r, t)
      /\ t.held = r.held \cup {c} /\ t.completed = r.completed
      /\ t.args = [r.args EXCEPT ![c] = @ + 1]
      /\ t.shown = [r.shown EXCEPT ![c] =
                        IF c \in Previewed THEN r.args[c] + 1 ELSE @]
      /\ t.out = <<>> => r.out = <<>> /\ t.emittedAny = r.emittedAny
  BY <1>2, <1>3, CompletePiece
<1> HIDE DEF t
<1>5. CallsMatch(t, q)
  BY <1>1, <1>2, <1>4, PieceMatches
<1>6. q.units = p.units /\ q.ended = "no"
  BY <1>1, <1>2 DEF ProviderType
<1> HIDE DEF q
<1> QED BY <1>2, <1>4, <1>5, <1>6 DEF Kept, t, q

LEMMA ConcludedLive ==
  ASSUME NEW s, NEW p, CallsMatch(s, p), Speaks(s), s \in Adapter, p.ended # "no",
         EndMatches(s, p), Done(s), Said(s, p.units), Due(s)
  PROVE  LET t == concluded(s) IN Live(t, p) /\ t.events = s.events
<1> DEFINE t == concluded(s)
<1>1. /\ Said(t, p.units) /\ Done(t) /\ t.pending = FALSE
      /\ t.held = s.held /\ t.args = s.args /\ t.shown = s.shown
      /\ t.completed = s.completed /\ t.events = s.events
      /\ t.out = <<>> => s.out = <<>> /\ t.emittedAny = s.emittedAny
  BY Concluded
<1> HIDE DEF t
<1>2. Speaks(t) /\ CallsMatch(t, p) /\ EndMatches(t, p)
  BY <1>1 DEF Speaks, CallsMatch, ShownAsGiven, EndMatches
<1> QED BY <1>1, <1>2 DEF Live, t

(* The end of the provider's answer, of which the parse takes note.        *)
LEMMA EndedIs ==
  ASSUME NEW s, NEW p, CallsMatch(s, p), NEW e \in {"finish", "DONE"}
  PROVE  LET q == [p EXCEPT !.ended = e]
         IN  /\ CallsMatch(s, q) /\ q.units = p.units /\ q.ended = e
             /\ q.started = p.started /\ \A c : Full(q, c) <=> Full(p, c)
<1> DEFINE q == [p EXCEPT !.ended = e]
<1>1. p \in ProviderType
  BY DEF CallsMatch
<1>2. /\ q \in ProviderType /\ q.units = p.units /\ q.started = p.started
      /\ q.sent = p.sent /\ q.closed = p.closed /\ q.ended = e
  BY <1>1 DEF ProviderType
<1> HIDE DEF q
<1>3. CallsMatch(s, q)
  BY <1>2 DEF CallsMatch
<1> QED BY <1>2, <1>3 DEF Full, q

LEMMA ChatFinishes ==
  ASSUME NEW s, Live(s, provider), protocol = "chat", Talks,
         NEW h \in completeHeld(flushText(s))
  PROVE  LET t == [h EXCEPT !.reason = IF h.completed = {} THEN "stop" ELSE "tool_calls",
                            !.sawTerminator = TRUE, !.pending = TRUE]
         IN  Live(t, [provider EXCEPT !.ended = "finish"]) /\ t.events = s.events
<1> DEFINE p == provider
           r == flushText(s)
           why == IF h.completed = {} THEN "stop" ELSE "tool_calls"
           t == [h EXCEPT !.reason = why, !.sawTerminator = TRUE, !.pending = TRUE]
           q == [p EXCEPT !.ended = "finish"]
<1>1. /\ Said(s, p.units) /\ Quiet(s) /\ s.pending = FALSE /\ s \in Adapter
      /\ CallsMatch(s, p) /\ p \in ProviderType /\ Speaks(s)
  BY BeforeTheEnd DEF Talks
<1>2. Said(r, p.units) /\ Quiet(r) /\ Speech(s, r)
  BY <1>1, FlushText
<1>3. Live(r, p)
  BY <1>2, SpeechKeeps, QuietIsDone
<1> HIDE DEF r
<1>4. r \in Adapter /\ CallsMatch(r, p) /\ Speaks(r) /\ r.held \cap r.completed = {}
  BY <1>3 DEF Live, Said, CallsMatch
<1>5. h \in completeHeld(r)
  BY DEF r
<1>6. /\ Said(h, p.units) /\ Quiet(h) /\ Kept(r, h)
      /\ h.held = {} /\ h.completed = r.completed \cup r.held
      /\ h.args = r.args /\ h.shown = r.shown
      /\ h.out = <<>> => r.out = <<>> /\ r.held = {} /\ h.emittedAny = r.emittedAny
  BY <1>2, <1>4, <1>5, CompleteHeld
<1>7. h \in Adapter /\ why \in {"stop", "tool_calls"}
  BY <1>6 DEF Said
<1> HIDE DEF why
<1>8. t \in Adapter
  BY <1>7 DEF Adapter
<1>9. /\ t.out = h.out /\ t.shown = h.shown /\ t.completed = h.completed
      /\ t.thinking = h.thinking /\ t.args = h.args /\ t.carry = h.carry
      /\ t.held = h.held /\ t.reason = why /\ t.emittedAny = h.emittedAny
      /\ t.events = h.events /\ t.pending = TRUE
  BY <1>7 DEF Adapter
<1> HIDE DEF t
<1>10. Said(t, p.units) /\ Quiet(t)
  BY <1>6, <1>8, <1>9, Marked
<1>11. \A c \in 1..p.started : Full(p, c)
  BY AllFull DEF Talks
<1>12. t.held = {} /\ t.completed = 1..p.started
  BY <1>4, <1>6, <1>9 DEF CallsMatch
<1>13. CallsMatch(t, p)
  BY <1>4, <1>6, <1>9, <1>11, <1>12 DEF CallsMatch, ShownAsGiven, Full
<1>14. CallsMatch(t, q) /\ q.units = p.units /\ q.ended = "finish"
       /\ q.started = p.started /\ \A c : Full(q, c) <=> Full(p, c)
  BY <1>13, EndedIs
<1> HIDE DEF q
<1>15. EndMatches(t, q)
  BY <1>9, <1>11, <1>12, <1>14 DEF EndMatches, why
<1>16. Speaks(t)
  BY <1>4, <1>6, <1>9 DEF Speaks
<1>17. t.events = s.events
  BY <1>2, <1>6, <1>9 DEF Kept, Speech
<1> QED BY <1>10, <1>14, <1>15, <1>16, <1>17, QuietIsDone DEF Live, t, q, why

LEMMA ChatEnds ==
  ASSUME NEW s, Live(s, provider), protocol = "chat", provider.ended = "finish"
  PROVE  /\ LET t == concluded(s) IN Live(t, provider) /\ t.events = s.events
         /\ LET t == concluded([s EXCEPT !.sawTerminator = TRUE])
            IN  Live(t, [provider EXCEPT !.ended = "DONE"]) /\ t.events = s.events
<1> DEFINE p == provider
           m == [s EXCEPT !.sawTerminator = TRUE]
           q == [p EXCEPT !.ended = "DONE"]
<1>1. /\ s \in Adapter /\ Said(s, p.units) /\ Done(s) /\ Speaks(s)
      /\ CallsMatch(s, p) /\ EndMatches(s, p) /\ s.held = {}
  BY DEF Live, Said, EndMatches
<1>2. Due(s)
  BY <1>1, PendingIsDue
<1>3. Live(concluded(s), p) /\ concluded(s).events = s.events
  BY <1>1, <1>2, ConcludedLive
<1>4. m \in Adapter
  BY <1>1 DEF Adapter
<1>5. /\ m.out = s.out /\ m.shown = s.shown /\ m.completed = s.completed
      /\ m.thinking = s.thinking /\ m.args = s.args /\ m.carry = s.carry
      /\ m.held = s.held /\ m.reason = s.reason /\ m.emittedAny = s.emittedAny
      /\ m.events = s.events /\ m.pending = s.pending
  BY <1>1 DEF Adapter
<1> HIDE DEF m
<1>6. Said(m, p.units)
  BY <1>1, <1>4, <1>5, Marked
<1>7. Done(m) /\ Speaks(m) /\ Due(m) /\ CallsMatch(m, p)
  BY <1>1, <1>2, <1>5 DEF Done, Quiet, Speaks, Due, effectiveFinishReason, CallsMatch,
                          ShownAsGiven
<1>8. CallsMatch(m, q) /\ q.units = p.units /\ q.ended = "DONE"
       /\ q.started = p.started /\ \A c : Full(q, c) <=> Full(p, c)
  BY <1>7, EndedIs
<1> HIDE DEF q
<1>9. EndMatches(m, q)
  BY <1>1, <1>5, <1>8 DEF EndMatches
<1>10. Live(concluded(m), q) /\ concluded(m).events = m.events
  BY <1>4, <1>6, <1>7, <1>8, <1>9, ConcludedLive
<1> QED BY <1>3, <1>5, <1>10 DEF m, q

LEMMA ChatStep ==
  ASSUME NEW s, Live(s, provider), protocol = "chat",
         NEW event \in Sendable, event.type \notin {"error", "text", "reasoning"},
         NEW t \in chat(s, event)
  PROVE  Live(t, Sent(event)) /\ t.events = s.events
<1> DEFINE c == event.call
           p == provider
<1>1. CASE event.type = "start"
  <2>1. Talks /\ p.started < MaxCalls /\ c = p.started + 1
    BY <1>1, SendableMeans
  <2>2. t = held(flushText(s), c)
    BY <1>1 DEF chat
  <2>3. Sent(event) = [p EXCEPT !.started = c]
    BY <1>1, SentMeans
  <2> QED BY <2>1, <2>2, <2>3, ChatStarts
<1>2. CASE event.type = "piece"
  <2>1. c \in Open /\ p.sent[c] # ArgLen
    BY <1>2, SendableMeans DEF Given
  <2>2. t = piece(flushText(s), c)
    BY <1>2 DEF chat
  <2>3. Sent(event) = [p EXCEPT !.sent[c] = @ + 1]
    BY <1>2, SentMeans
  <2> DEFINE r == flushText(s)
             q == [p EXCEPT !.sent[c] = @ + 1]
  <2>4. Said(s, p.units) /\ Done(s)
    BY DEF Live
  <2>5. Said(r, p.units) /\ Done(r) /\ Speech(s, r) /\ (Quiet(s) => Quiet(r))
    BY <2>4, FlushDone
  <2>6. Live(r, p)
    BY <2>5, SpeechKeeps
  <2> HIDE DEF r
  <2>7. /\ Said(t, q.units) /\ Quiet(t) /\ CallsMatch(t, q) /\ q.ended = "no"
        /\ t.pending = FALSE /\ t.events = r.events
        /\ t.out = <<>> => r.out = <<>> /\ t.emittedAny = r.emittedAny
    <3>1. t = piece(r, c)
      BY <2>2 DEF r
    <3> QED BY <2>1, <2>6, <3>1, PieceLive
  <2> HIDE DEF q
  <2>8. Speaks(t)
    BY <2>6, <2>7 DEF Live, Speaks
  <2>9. Live(t, q)
    BY <2>7, <2>8, LiveBefore
  <2> QED BY <2>3, <2>5, <2>7, <2>9 DEF Speech, q
<1>3. CASE event.type = "close"
  <2>1. c \in Open /\ Given(c)
    BY <1>3, SendableMeans
  <2> QED BY <2>1 DEF Open, Complete
<1>4. CASE event.type = "finish"
  <2>1. Talks
    BY <1>4, SendableMeans
  <2>2. PICK h \in completeHeld(flushText(s)) :
            t = [h EXCEPT !.reason = IF h.completed = {} THEN "stop" ELSE "tool_calls",
                          !.sawTerminator = TRUE, !.pending = TRUE]
    BY <1>4 DEF chat
  <2>3. Sent(event) = [p EXCEPT !.ended = "finish"]
    BY <1>4, SentMeans
  <2> QED BY <2>1, <2>2, <2>3, ChatFinishes
<1>5. CASE event.type = "usage"
  <2>1. p.ended = "finish"
    BY <1>5, SendableMeans
  <2>2. t = concluded(s)
    BY <1>5 DEF chat, concluded
  <2>3. Sent(event) = p
    BY <1>5, SentMeans
  <2> QED BY <2>1, <2>2, <2>3, ChatEnds
<1>6. CASE event.type = "DONE"
  <2>1. p.ended = "finish"
    BY <1>6, SendableMeans
  <2>2. t = concluded([s EXCEPT !.sawTerminator = TRUE])
    BY <1>6 DEF chat, concluded
  <2>3. Sent(event) = [p EXCEPT !.ended = "DONE"]
    BY <1>6, SentMeans
  <2> QED BY <2>1, <2>2, <2>3, ChatEnds
<1> QED BY <1>1, <1>2, <1>3, <1>4, <1>5, <1>6, SendableMeans

LEMMA ResponsesStarts ==
  ASSUME NEW s, Live(s, provider), protocol = "responses", Talks,
         provider.started < MaxCalls
  PROVE  LET c == provider.started + 1
             t == held(s, c)
         IN  Live(t, [provider EXCEPT !.started = c]) /\ t.events = s.events
<1> DEFINE p == provider
           c == p.started + 1
           t == held(s, c)
           q == [p EXCEPT !.started = c]
<1>1. /\ Said(s, p.units) /\ Quiet(s) /\ s.pending = FALSE /\ s \in Adapter
      /\ CallsMatch(s, p) /\ p \in ProviderType /\ Speaks(s)
  BY BeforeTheEnd DEF Talks
<1>2. c \in Calls
  BY <1>1, StartIsNew
<1>3. /\ Said(t, p.units) /\ Quiet(t) /\ Kept(s, t)
      /\ t.held = s.held \cup {c} /\ t.completed = s.completed
      /\ t.args = s.args /\ t.shown = s.shown
      /\ t.out = s.out /\ t.emittedAny = s.emittedAny
  BY <1>1, <1>2, HoldCall
<1> HIDE DEF t
<1>4. CallsMatch(t, q)
  BY <1>1, <1>3, StartMatches
<1>5. q.units = p.units /\ q.ended = "no"
  BY <1>1 DEF ProviderType, Talks
<1>6. t.pending = FALSE /\ t.events = s.events
  BY <1>1, <1>3 DEF Kept
<1>7. Speaks(t)
  BY <1>1, <1>3 DEF Speaks
<1> HIDE DEF q
<1>8. Live(t, q)
  BY <1>3, <1>4, <1>5, <1>6, <1>7, LiveBefore
<1> QED BY <1>6, <1>8 DEF q, t

LEMMA ResponsesCloses ==
  ASSUME NEW s, Live(s, provider), protocol = "responses", NEW c \in Open,
         provider.sent[c] \in {0, ArgLen}
  PROVE  LET q == [provider EXCEPT !.sent[c] = ArgLen, !.closed = @ \cup {c}]
             t == completeItem(s, c)
             h == emitToolProgress(held(s, c), c)
         IN  /\ Live(t, q) /\ t.events = s.events
             /\ provider.sent[c] = ArgLen => Live(h, q) /\ h.events = s.events
<1> DEFINE p == provider
           q == [p EXCEPT !.sent[c] = ArgLen, !.closed = @ \cup {c}]
           t == completeItem(s, c)
           g == held(s, c)
           h == emitToolProgress(g, c)
<1>1. p.ended = "no" /\ c \in 1..p.started /\ c \notin p.closed
  BY OpenTalks
<1>2. /\ Said(s, p.units) /\ Quiet(s) /\ s.pending = FALSE /\ s \in Adapter
      /\ CallsMatch(s, p) /\ p \in ProviderType /\ Speaks(s)
  BY <1>1, BeforeTheEnd
<1>3. /\ c \in Calls /\ c \notin s.completed /\ s.shown[c] <= s.args[c]
      /\ s.args[c] \in {0, ArgLen}
  BY <1>1, <1>2, CloseMatches
<1>4. s.args \in [Calls -> 0..ArgLen] /\ s.shown \in [Calls -> 0..ArgLen]
  BY <1>2, AdapterFields
<1>5. q.units = p.units /\ q.ended = "no"
  BY <1>1, <1>2 DEF ProviderType
<1>6. Live(t, q) /\ t.events = s.events
  <2>1. /\ Said(t, p.units) /\ Quiet(t) /\ Kept(s, t)
        /\ t.held = s.held \ {c} /\ t.completed = s.completed \cup {c}
        /\ t.args = [s.args EXCEPT ![c] = IF @ = 0 THEN ArgLen ELSE @]
        /\ t.shown = [s.shown EXCEPT ![c] = IF c \in Previewed THEN t.args[c] ELSE @]
        /\ t.out # <<>>
    BY <1>2, <1>3, CompleteItem
  <2> HIDE DEF t
  <2>2. t.args = [s.args EXCEPT ![c] = ArgLen] /\ t.args[c] = ArgLen
    BY <1>3, <1>4, <2>1
  <2>3. t.shown = [s.shown EXCEPT ![c] = IF c \in Previewed THEN ArgLen ELSE @]
    BY <2>1, <2>2
  <2>4. CallsMatch(t, q)
    BY <1>1, <1>2, <2>1, <2>2, <2>3, CloseMatches
  <2> HIDE DEF q
  <2>5. Speaks(t) /\ t.pending = FALSE /\ t.events = s.events
    BY <1>2, <2>1 DEF Speaks, Kept
  <2> QED BY <1>5, <2>1, <2>4, <2>5, LiveBefore
<1>7. ASSUME p.sent[c] = ArgLen PROVE Live(h, q) /\ h.events = s.events
  <2>1. /\ Said(g, p.units) /\ Quiet(g) /\ Kept(s, g)
        /\ g.held = s.held \cup {c} /\ g.completed = s.completed
        /\ g.args = s.args /\ g.shown = s.shown
        /\ g.out = s.out /\ g.emittedAny = s.emittedAny
    BY <1>2, <1>3, HoldCall
  <2> HIDE DEF g
  <2>2. g.shown[c] <= g.args[c] /\ g.args[c] = ArgLen
    BY <1>2, <1>3, <1>7, <2>1 DEF CallsMatch
  <2>3. /\ Said(h, p.units) /\ Quiet(h) /\ Kept(g, h)
        /\ h.held = g.held /\ h.completed = g.completed
        /\ h.args = g.args
        /\ h.shown = [g.shown EXCEPT ![c] = IF c \in Previewed THEN g.args[c] ELSE @]
        /\ h.out = <<>> => g.out = <<>> /\ h.emittedAny = g.emittedAny
    BY <1>3, <2>1, <2>2, ToolProgress
  <2> HIDE DEF h
  <2>4. h.args = [s.args EXCEPT ![c] = ArgLen]
    BY <1>3, <1>4, <2>1, <2>2, <2>3
  <2>5. h.shown = [s.shown EXCEPT ![c] = IF c \in Previewed THEN ArgLen ELSE @]
    BY <2>1, <2>2, <2>3
  <2>6. h.held = s.held \cup {c} /\ h.completed = s.completed
    BY <2>1, <2>3
  <2>7. CallsMatch(h, q)
    BY <1>1, <1>2, <2>4, <2>5, <2>6, CloseMatches
  <2> HIDE DEF q
  <2>8. Speaks(h) /\ h.pending = FALSE /\ h.events = s.events
    BY <1>2, <2>1, <2>3 DEF Speaks, Kept
  <2> QED BY <1>5, <2>3, <2>7, <2>8, LiveBefore
<1> QED BY <1>6, <1>7

LEMMA ResponsesFinishes ==
  ASSUME NEW s, Live(s, provider), protocol = "responses", Talks,
         NEW h \in {flushText(s), repeatItems(flushText(s))}
  PROVE  LET t == [h EXCEPT !.reason = "completed", !.sawTerminator = TRUE, !.pending = TRUE]
         IN  Live(t, [provider EXCEPT !.ended = "finish"]) /\ t.events = s.events
<1> DEFINE p == provider
           r == flushText(s)
           t == [h EXCEPT !.reason = "completed", !.sawTerminator = TRUE, !.pending = TRUE]
           q == [p EXCEPT !.ended = "finish"]
<1>1. /\ Said(s, p.units) /\ Quiet(s) /\ s.pending = FALSE /\ s \in Adapter
      /\ CallsMatch(s, p) /\ p \in ProviderType /\ Speaks(s)
  BY BeforeTheEnd DEF Talks
<1>2. Said(r, p.units) /\ Quiet(r) /\ Speech(s, r)
  BY <1>1, FlushText
<1>3. Live(r, p)
  BY <1>2, SpeechKeeps, QuietIsDone
<1> HIDE DEF r
<1>4. r \in Adapter /\ CallsMatch(r, p) /\ Speaks(r)
  BY <1>3 DEF Live, Said
<1>5. \A c \in 1..p.started : c \in p.closed
  BY AllFull DEF Talks, Full
<1>6. /\ Said(h, p.units) /\ Quiet(h) /\ CallsMatch(h, p)
      /\ h.out = <<>> => r.out = <<>> /\ h.emittedAny = r.emittedAny
      /\ h.events = s.events
  <2>1. CASE h = r
    BY <2>1, <1>2, <1>4 DEF Speech
  <2>2. CASE h = repeatItems(r)
    <3>1. /\ p.closed \subseteq Calls /\ ShownAsGiven(r) /\ r.args = p.sent
          /\ p.closed \subseteq 1..p.started
          /\ \A c \in p.closed \cup r.completed : p.sent[c] = ArgLen
          /\ r.held \cup r.completed = 1..p.started
          /\ r.held \cap r.completed = {}
      BY <1>1, <1>4 DEF CallsMatch, ProviderType
    <3>2. /\ Said(h, p.units) /\ Quiet(h) /\ Kept(r, h)
          /\ h.held = r.held \ p.closed
          /\ h.completed = r.completed \cup p.closed
          /\ h.args = r.args /\ h.shown = r.shown
          /\ h.out = <<>> => r.out = <<>> /\ h.emittedAny = r.emittedAny
      BY <2>2, <1>2, <3>1, RepeatItems
    <3>3. h.held = {} /\ h.completed = 1..p.started /\ h.completed = p.closed
      BY <1>5, <3>1, <3>2
    <3>4. CallsMatch(h, p)
      BY <1>4, <3>1, <3>2, <3>3 DEF CallsMatch, ShownAsGiven
    <3> QED BY <1>2, <3>2, <3>4 DEF Kept, Speech
  <2> QED BY <2>1, <2>2 DEF r
<1>7. h \in Adapter
  BY <1>6 DEF Said
<1>8. t \in Adapter
  BY <1>7 DEF Adapter
<1>9. /\ t.out = h.out /\ t.shown = h.shown /\ t.completed = h.completed
      /\ t.thinking = h.thinking /\ t.args = h.args /\ t.carry = h.carry
      /\ t.held = h.held /\ t.reason = "completed" /\ t.emittedAny = h.emittedAny
      /\ t.events = h.events /\ t.pending = TRUE
  BY <1>7 DEF Adapter
<1> HIDE DEF t
<1>10. Said(t, p.units) /\ Quiet(t)
  BY <1>6, <1>8, <1>9, Marked
<1>11. CallsMatch(t, p)
  BY <1>6, <1>9 DEF CallsMatch, ShownAsGiven
<1>12. CallsMatch(t, q) /\ q.units = p.units /\ q.ended = "finish"
       /\ q.started = p.started /\ \A c : Full(q, c) <=> Full(p, c)
  BY <1>11, EndedIs
<1> HIDE DEF q
<1>13. EndMatches(t, q)
  BY <1>5, <1>9, <1>12 DEF EndMatches, Full
<1>14. Speaks(t)
  BY <1>4, <1>6, <1>9 DEF Speaks
<1> QED BY <1>6, <1>9, <1>10, <1>12, <1>13, <1>14, QuietIsDone DEF Live, t, q

LEMMA ResponsesEnds ==
  ASSUME NEW s, Live(s, provider), protocol = "responses", provider.ended = "finish",
         NEW h \in completeHeld(flushText(s))
  PROVE  LET t == flushTurnFinished(h)
         IN  Live(t, [provider EXCEPT !.ended = "DONE"]) /\ t.events = s.events
<1> DEFINE p == provider
           r == flushText(s)
           t == flushTurnFinished(h)
           q == [p EXCEPT !.ended = "DONE"]
<1>1. Said(s, p.units) /\ Done(s) /\ p \in ProviderType
  BY DEF Live, CallsMatch
<1>2. /\ Said(r, p.units) /\ Done(r) /\ Speech(s, r) /\ (Quiet(s) => Quiet(r))
      /\ r.thinking = FALSE /\ r.carry = FALSE
  BY <1>1, FlushDone
<1>3. Live(r, p)
  BY <1>2, SpeechKeeps
<1> HIDE DEF r
<1>4. r \in Adapter /\ CallsMatch(r, p) /\ Speaks(r) /\ EndMatches(r, p)
  BY <1>3 DEF Live, Said
<1>5. r.held \cap r.completed = {} /\ h \in completeHeld(r)
  BY <1>4 DEF CallsMatch, r
<1>6. /\ Said(h, p.units) /\ Done(h) /\ Kept(r, h)
      /\ h.held = {} /\ h.completed = r.completed \cup r.held
      /\ h.args = r.args /\ h.shown = r.shown
      /\ h.out = <<>> => r.out = <<>> /\ r.held = {} /\ h.emittedAny = r.emittedAny
  BY <1>2, <1>5, CompleteDone
<1>7. h.pending =>
            /\ h.held = {}
            /\ h.completed # {} <=>
                    effectiveFinishReason(h) \in {"tool_calls", "tool_use"}
  <2>1. h.pending => h.reason = "completed"
    BY <1>4, <1>6 DEF Kept, EndMatches
  <2> QED BY <1>6, <2>1 DEF effectiveFinishReason
<1>8. /\ Said(t, p.units) /\ Done(t) /\ t.pending = FALSE /\ Same(h, t)
      /\ t.out = <<>> => h.out = <<>>
  BY <1>2, <1>6, <1>7, Finish DEF Kept
<1> HIDE DEF t
<1>9. \A c \in 1..p.started : c \in p.closed
  BY AllFull DEF Full
<1>10. t.held = {} /\ t.completed = 1..p.started /\ t.args = r.args /\ t.shown = r.shown
  BY <1>4, <1>6, <1>8 DEF CallsMatch, Same
<1>11. CallsMatch(t, p)
  <2>1. p.closed = 1..p.started
    BY <1>4, <1>9 DEF CallsMatch
  <2> QED BY <1>4, <1>10, <2>1 DEF CallsMatch, ShownAsGiven
<1>12. CallsMatch(t, q) /\ q.units = p.units /\ q.ended = "DONE"
       /\ q.started = p.started /\ \A c : Full(q, c) <=> Full(p, c)
  BY <1>11, EndedIs
<1> HIDE DEF q
<1>13. EndMatches(t, q)
  BY <1>8, <1>9, <1>12 DEF EndMatches, Full
<1>14. Speaks(t)
  BY <1>4, <1>6, <1>8 DEF Speaks, Same
<1>15. t.events = s.events
  BY <1>2, <1>6, <1>8 DEF Speech, Kept, Same
<1> QED BY <1>8, <1>12, <1>13, <1>14, <1>15 DEF Live, t, q

LEMMA ResponsesStep ==
  ASSUME NEW s, Live(s, provider), protocol = "responses",
         NEW event \in Sendable, event.type \notin {"error", "text", "reasoning"},
         NEW t \in responses(s, event)
  PROVE  Live(t, Sent(event)) /\ t.events = s.events
<1> DEFINE c == event.call
           p == provider
<1>1. CASE event.type = "start"
  <2>1. Talks /\ p.started < MaxCalls /\ c = p.started + 1
    BY <1>1, SendableMeans
  <2>2. t = held(s, c)
    BY <1>1 DEF responses
  <2>3. Sent(event) = [p EXCEPT !.started = c]
    BY <1>1, SentMeans
  <2> QED BY <2>1, <2>2, <2>3, ResponsesStarts
<1>2. CASE event.type = "piece"
  <2>1. c \in Open /\ p.sent[c] # ArgLen
    BY <1>2, SendableMeans DEF Given
  <2>2. t = piece(s, c)
    BY <1>2 DEF responses
  <2>3. Sent(event) = [p EXCEPT !.sent[c] = @ + 1]
    BY <1>2, SentMeans
  <2> DEFINE q == [p EXCEPT !.sent[c] = @ + 1]
  <2>4. /\ Said(t, q.units) /\ Quiet(t) /\ CallsMatch(t, q) /\ q.ended = "no"
        /\ t.pending = FALSE /\ t.events = s.events
        /\ t.out = <<>> => s.out = <<>> /\ t.emittedAny = s.emittedAny
    BY <2>1, <2>2, PieceLive
  <2> HIDE DEF q
  <2>5. Speaks(t)
    BY <2>4 DEF Live, Speaks
  <2>6. Live(t, q)
    BY <2>4, <2>5, LiveBefore
  <2> QED BY <2>3, <2>4, <2>6 DEF q
<1>3. CASE event.type = "close"
  <2>1. /\ c \in Open /\ p.sent[c] \in {0, ArgLen}
        /\ event.whole \/ (~event.whole /\ p.sent[c] = ArgLen)
    BY <1>3, SendableMeans DEF Given
  <2>2. \/ t = completeItem(s, c)
        \/ p.sent[c] = ArgLen /\ t = emitToolProgress(held(s, c), c)
    BY <1>3, <2>1 DEF responses
  <2>3. Sent(event) = [p EXCEPT !.sent[c] = ArgLen, !.closed = @ \cup {c}]
    BY <1>3, SentMeans
  <2> DEFINE q == [p EXCEPT !.sent[c] = ArgLen, !.closed = @ \cup {c}]
             one == completeItem(s, c)
             other == emitToolProgress(held(s, c), c)
  <2>4. /\ Live(one, q) /\ one.events = s.events
        /\ p.sent[c] = ArgLen => Live(other, q) /\ other.events = s.events
    BY <2>1, ResponsesCloses
  <2> HIDE DEF q, one, other
  <2>5. Sent(event) = q
    BY <2>3 DEF q
  <2>6. t = one \/ (p.sent[c] = ArgLen /\ t = other)
    BY <2>2 DEF one, other
  <2> QED BY <2>4, <2>5, <2>6
<1>4. CASE event.type = "finish"
  <2>1. Talks
    BY <1>4, SendableMeans
  <2>2. PICK h \in {flushText(s), repeatItems(flushText(s))} :
            t = [h EXCEPT !.reason = "completed", !.sawTerminator = TRUE, !.pending = TRUE]
    BY <1>4 DEF responses
  <2>3. Sent(event) = [p EXCEPT !.ended = "finish"]
    BY <1>4, SentMeans
  <2> QED BY <2>1, <2>2, <2>3, ResponsesFinishes
<1>5. CASE event.type = "usage"
  BY <1>5, SendableMeans
<1>6. CASE event.type = "DONE"
  <2>1. p.ended = "finish"
    BY <1>6, SendableMeans
  <2>2. PICK h \in completeHeld(flushText(s)) : t = flushTurnFinished(h)
    BY <1>6 DEF responses
  <2>3. Sent(event) = [p EXCEPT !.ended = "DONE"]
    BY <1>6, SentMeans
  <2> QED BY <2>1, <2>2, <2>3, ResponsesEnds
<1> QED BY <1>1, <1>2, <1>3, <1>4, <1>5, <1>6, SendableMeans

LEMMA AnthropicStarts ==
  ASSUME NEW s, Live(s, provider), protocol = "anthropic", Talks,
         provider.started < MaxCalls
  PROVE  LET c == provider.started + 1
             t == emitToolProgress([held(flushText(s), c) EXCEPT !.emittedAny = TRUE], c)
         IN  Live(t, [provider EXCEPT !.started = c]) /\ t.events = s.events
<1> DEFINE p == provider
           c == p.started + 1
           r == flushText(s)
           h == held(r, c)
           g == [h EXCEPT !.emittedAny = TRUE]
           t == emitToolProgress(g, c)
           q == [p EXCEPT !.started = c]
<1>1. /\ Said(s, p.units) /\ Quiet(s) /\ s.pending = FALSE /\ s \in Adapter
      /\ CallsMatch(s, p) /\ p \in ProviderType /\ Speaks(s)
  BY BeforeTheEnd DEF Talks
<1>2. Said(r, p.units) /\ Quiet(r) /\ Speech(s, r)
  BY <1>1, FlushText
<1>3. Live(r, p)
  BY <1>2, SpeechKeeps, QuietIsDone
<1> HIDE DEF r
<1>4. r \in Adapter /\ CallsMatch(r, p)
  BY <1>3 DEF Live, Said
<1>5. c \in Calls /\ r.args[c] = 0 /\ r.shown[c] = 0
  BY <1>4, StartIsNew
<1>6. /\ Said(h, p.units) /\ Quiet(h) /\ Kept(r, h)
      /\ h.held = r.held \cup {c} /\ h.completed = r.completed
      /\ h.args = r.args /\ h.shown = r.shown
      /\ h.out = r.out /\ h.emittedAny = r.emittedAny
  BY <1>2, <1>5, HoldCall
<1> HIDE DEF h
<1>7. h \in Adapter
  BY <1>6 DEF Said
<1>8. g \in Adapter
  BY <1>7 DEF Adapter
<1>9. /\ g.out = h.out /\ g.shown = h.shown /\ g.completed = h.completed
      /\ g.thinking = h.thinking /\ g.args = h.args /\ g.carry = h.carry
      /\ g.held = h.held /\ g.events = h.events /\ g.pending = h.pending
  BY <1>7 DEF Adapter
<1> HIDE DEF g
<1>10. Said(g, p.units) /\ Quiet(g)
  BY <1>6, <1>8, <1>9, Marked
<1>11. g.shown[c] <= g.args[c]
  BY <1>5, <1>6, <1>9
<1>12. /\ Said(t, p.units) /\ Quiet(t) /\ Kept(g, t)
       /\ t.held = g.held /\ t.completed = g.completed
       /\ t.args = g.args
       /\ t.shown = [g.shown EXCEPT ![c] = IF c \in Previewed THEN g.args[c] ELSE @]
  BY <1>5, <1>10, <1>11, ToolProgress
<1> HIDE DEF t
<1>13. t.shown = r.shown
  <2>1. r.shown \in [Calls -> 0..ArgLen]
    BY <1>4, AdapterFields
  <2> QED BY <2>1, <1>5, <1>6, <1>9, <1>12
<1>14. CallsMatch(t, q)
  <2>1. t.held = r.held \cup {c} /\ t.completed = r.completed /\ t.args = r.args
    BY <1>6, <1>9, <1>12
  <2> QED BY <1>1, <1>4, <1>13, <2>1, StartMatches
<1>15. q.units = p.units /\ q.ended = "no"
  BY <1>1 DEF ProviderType, Talks
<1>16. t.pending = FALSE /\ t.events = s.events
  BY <1>1, <1>2, <1>6, <1>9, <1>12 DEF Kept, Speech
<1>17. Speaks(t)
  BY <1>6, <1>9, <1>12 DEF Speaks
<1> HIDE DEF q
<1>18. Live(t, q)
  BY <1>12, <1>14, <1>15, <1>16, <1>17, LiveBefore
<1> QED BY <1>16, <1>18 DEF q, t, g, h, r

LEMMA AnthropicCloses ==
  ASSUME NEW s, Live(s, provider), protocol = "anthropic", NEW c \in Open, Given(c)
  PROVE  LET q == [provider EXCEPT !.sent[c] = ArgLen, !.closed = @ \cup {c}]
             t == completeTool(emitToolProgress(s, c), c)
         IN  Live(t, q) /\ t.events = s.events
<1> DEFINE p == provider
           q == [p EXCEPT !.sent[c] = ArgLen, !.closed = @ \cup {c}]
           g == emitToolProgress(s, c)
           t == completeTool(g, c)
<1>1. p.ended = "no" /\ c \in 1..p.started /\ c \notin p.closed /\ p.sent[c] = ArgLen
  BY OpenTalks DEF Given
<1>2. /\ Said(s, p.units) /\ Quiet(s) /\ s.pending = FALSE /\ s \in Adapter
      /\ CallsMatch(s, p) /\ p \in ProviderType
  BY <1>1, BeforeTheEnd
<1>3. /\ c \in Calls /\ c \notin s.completed /\ s.shown[c] <= s.args[c]
  BY <1>1, <1>2, CloseMatches
<1>4. s.args \in [Calls -> 0..ArgLen] /\ s.args[c] = ArgLen
  BY <1>1, <1>2, AdapterFields DEF CallsMatch
<1>5. q.units = p.units /\ q.ended = "no"
  BY <1>1, <1>2 DEF ProviderType
<1>6. /\ Said(g, p.units) /\ Quiet(g) /\ Kept(s, g)
      /\ g.held = s.held /\ g.completed = s.completed
      /\ g.args = s.args
      /\ g.shown = [s.shown EXCEPT ![c] = IF c \in Previewed THEN s.args[c] ELSE @]
  BY <1>2, <1>3, ToolProgress
<1> HIDE DEF g
<1>7. c \notin g.completed
  BY <1>3, <1>6
<1>8. /\ Said(t, p.units) /\ Quiet(t) /\ Kept(g, t)
      /\ t.held = g.held \ {c} /\ t.completed = g.completed \cup {c}
      /\ t.args = g.args /\ t.shown = g.shown /\ t.out # <<>>
  BY <1>3, <1>6, <1>7, CompleteTool
<1> HIDE DEF t
<1>9. t.args = [s.args EXCEPT ![c] = ArgLen]
  BY <1>3, <1>4, <1>6, <1>8
<1>10. t.shown = [s.shown EXCEPT ![c] = IF c \in Previewed THEN ArgLen ELSE @]
  BY <1>4, <1>6, <1>8
<1>11. t.held = s.held \ {c} /\ t.completed = s.completed \cup {c}
  BY <1>6, <1>8
<1>12. CallsMatch(t, q)
  BY <1>1, <1>2, <1>9, <1>10, <1>11, CloseMatches
<1> HIDE DEF q
<1>13. Speaks(t) /\ t.pending = FALSE /\ t.events = s.events
  BY <1>2, <1>6, <1>8 DEF Speaks, Kept
<1>14. Live(t, q)
  BY <1>5, <1>8, <1>12, <1>13, LiveBefore
<1> QED BY <1>13, <1>14 DEF t, g, q

LEMMA AnthropicFinishes ==
  ASSUME NEW s, Live(s, provider), protocol = "anthropic", Talks
  PROVE  LET stopped == flushText([s EXCEPT !.reason = IF s.completed = {} THEN "end_turn"
                                                       ELSE "tool_use"])
             t == flushTurnFinished([stopped EXCEPT !.sawTerminator = TRUE,
                                                    !.pending = TRUE])
         IN  Live(t, [provider EXCEPT !.ended = "finish"]) /\ t.events = s.events
<1> DEFINE p == provider
           why == IF s.completed = {} THEN "end_turn" ELSE "tool_use"
           m == [s EXCEPT !.reason = why]
           r == flushText(m)
           h == [r EXCEPT !.sawTerminator = TRUE, !.pending = TRUE]
           t == flushTurnFinished(h)
           q == [p EXCEPT !.ended = "finish"]
<1>1. /\ Said(s, p.units) /\ Quiet(s) /\ s.pending = FALSE /\ s \in Adapter
      /\ CallsMatch(s, p) /\ p \in ProviderType /\ Speaks(s)
  BY BeforeTheEnd DEF Talks
<1>2. why \in {"end_turn", "tool_use"} /\ (s.completed # {} <=> why = "tool_use")
  OBVIOUS
<1> HIDE DEF why
<1>3. m \in Adapter
  BY <1>1, <1>2 DEF Adapter
<1>4. /\ m.out = s.out /\ m.shown = s.shown /\ m.completed = s.completed
      /\ m.thinking = s.thinking /\ m.args = s.args /\ m.carry = s.carry
      /\ m.held = s.held /\ m.reason = why /\ m.emittedAny = s.emittedAny
      /\ m.events = s.events
  BY <1>1 DEF Adapter
<1> HIDE DEF m
<1>5. Said(m, p.units) /\ Quiet(m)
  BY <1>1, <1>3, <1>4, Marked
<1>6. /\ Said(r, p.units) /\ Quiet(r) /\ Speech(m, r)
      /\ r.thinking = FALSE /\ r.carry = FALSE
  BY <1>5, FlushText
<1> HIDE DEF r
<1>7. r \in Adapter
  BY <1>6 DEF Said
<1>8. h \in Adapter
  BY <1>7 DEF Adapter
<1>9. /\ h.out = r.out /\ h.shown = r.shown /\ h.completed = r.completed
      /\ h.thinking = r.thinking /\ h.args = r.args /\ h.carry = r.carry
      /\ h.held = r.held /\ h.reason = r.reason /\ h.emittedAny = r.emittedAny
      /\ h.events = r.events
  BY <1>7 DEF Adapter
<1> HIDE DEF h
<1>10. Said(h, p.units) /\ Quiet(h)
  BY <1>6, <1>8, <1>9, Marked
<1>11. h.carry = FALSE /\ h.thinking = FALSE /\ h.reason = why
       /\ h.completed = s.completed /\ h.held = s.held
       /\ h.args = s.args /\ h.shown = s.shown /\ h.events = s.events
  BY <1>4, <1>6, <1>9 DEF Speech
<1>12. \A c \in 1..p.started : c \in p.closed
  BY AllFull DEF Talks, Full
<1>13. s.held = {}
  <2>1. 1..p.started \subseteq s.completed
    BY <1>1, <1>12 DEF CallsMatch
  <2> QED BY <1>1, <2>1 DEF CallsMatch
<1>14. h.pending =>
            /\ h.held = {}
            /\ h.completed # {} <=>
                    effectiveFinishReason(h) \in {"tool_calls", "tool_use"}
  BY <1>2, <1>11, <1>13 DEF effectiveFinishReason
<1>15. /\ Said(t, p.units) /\ Done(t) /\ t.pending = FALSE /\ Same(h, t)
       /\ t.out = <<>> => h.out = <<>>
  BY <1>10, <1>11, <1>14, Finish, QuietIsDone
<1> HIDE DEF t
<1>16. CallsMatch(t, p)
  BY <1>1, <1>11, <1>15 DEF CallsMatch, ShownAsGiven, Same
<1>17. CallsMatch(t, q) /\ q.units = p.units /\ q.ended = "finish"
       /\ q.started = p.started /\ \A c : Full(q, c) <=> Full(p, c)
  BY <1>16, EndedIs
<1> HIDE DEF q
<1>18. EndMatches(t, q)
  BY <1>11, <1>12, <1>13, <1>15, <1>17 DEF EndMatches, Full, Same
<1>19. Speaks(t)
  BY <1>1, <1>4, <1>6, <1>9, <1>11, <1>15 DEF Speaks, Same, Speech
<1>20. t.events = s.events
  BY <1>11, <1>15 DEF Same
<1> QED BY <1>15, <1>17, <1>18, <1>19, <1>20 DEF Live, t, h, r, m, why, q

LEMMA AnthropicStep ==
  ASSUME NEW s, Live(s, provider), protocol = "anthropic",
         NEW event \in Sendable, event.type \notin {"error", "text", "reasoning"},
         NEW t \in anthropic(s, event)
  PROVE  Live(t, Sent(event)) /\ t.events = s.events
<1> DEFINE c == event.call
           p == provider
<1>1. CASE event.type = "start"
  <2>1. Talks /\ p.started < MaxCalls /\ c = p.started + 1
    BY <1>1, SendableMeans
  <2>2. t = emitToolProgress([held(flushText(s), c) EXCEPT !.emittedAny = TRUE], c)
    BY <1>1 DEF anthropic
  <2>3. Sent(event) = [p EXCEPT !.started = c]
    BY <1>1, SentMeans
  <2> QED BY <2>1, <2>2, <2>3, AnthropicStarts
<1>2. CASE event.type = "piece"
  <2>1. c \in Open /\ p.sent[c] # ArgLen
    BY <1>2, SendableMeans DEF Given
  <2>2. t = [piece(s, c) EXCEPT !.emittedAny = TRUE]
    BY <1>2 DEF anthropic
  <2>3. Sent(event) = [p EXCEPT !.sent[c] = @ + 1]
    BY <1>2, SentMeans
  <2> DEFINE q == [p EXCEPT !.sent[c] = @ + 1]
             h == piece(s, c)
  <2>4. /\ Said(h, q.units) /\ Quiet(h) /\ CallsMatch(h, q) /\ q.ended = "no"
        /\ h.pending = FALSE /\ h.events = s.events /\ c \in h.held
    BY <2>1, PieceLive
  <2>5. t = [h EXCEPT !.emittedAny = TRUE]
    BY <2>2
  <2> HIDE DEF q, h
  <2>6. h \in Adapter
    BY <2>4 DEF Said
  <2>7. t \in Adapter
    BY <2>5, <2>6 DEF Adapter
  <2>8. /\ t.out = h.out /\ t.shown = h.shown /\ t.completed = h.completed
        /\ t.thinking = h.thinking /\ t.args = h.args /\ t.carry = h.carry
        /\ t.held = h.held /\ t.events = h.events /\ t.pending = h.pending
    BY <2>5, <2>6 DEF Adapter
  <2>9. Said(t, q.units) /\ Quiet(t)
    BY <2>4, <2>7, <2>8, Marked
  <2>10. CallsMatch(t, q) /\ Speaks(t)
    BY <2>4, <2>8 DEF CallsMatch, ShownAsGiven, Speaks
  <2>11. Live(t, q)
    BY <2>4, <2>8, <2>9, <2>10, LiveBefore
  <2> QED BY <2>3, <2>4, <2>8, <2>11 DEF q
<1>3. CASE event.type = "close"
  <2>1. c \in Open /\ Given(c)
    BY <1>3, SendableMeans
  <2>2. t = completeTool(emitToolProgress(s, c), c)
    BY <1>3 DEF anthropic
  <2>3. Sent(event) = [p EXCEPT !.sent[c] = ArgLen, !.closed = @ \cup {c}]
    BY <1>3, SentMeans
  <2> DEFINE q == [p EXCEPT !.sent[c] = ArgLen, !.closed = @ \cup {c}]
             one == completeTool(emitToolProgress(s, c), c)
  <2>4. Live(one, q) /\ one.events = s.events
    BY <2>1, AnthropicCloses
  <2> HIDE DEF q, one
  <2>5. Sent(event) = q /\ t = one
    BY <2>2, <2>3 DEF q, one
  <2> QED BY <2>4, <2>5
<1>4. CASE event.type = "finish"
  <2>1. Talks
    BY <1>4, SendableMeans
  <2>2. t = flushTurnFinished([flushText([s EXCEPT !.reason =
                IF s.completed = {} THEN "end_turn" ELSE "tool_use"])
                    EXCEPT !.sawTerminator = TRUE, !.pending = TRUE])
    BY <1>4 DEF anthropic
  <2>3. Sent(event) = [p EXCEPT !.ended = "finish"]
    BY <1>4, SentMeans
  <2> QED BY <2>1, <2>2, <2>3, AnthropicFinishes
<1>5. event.type \notin {"usage", "DONE"}
  BY SendableMeans
<1> QED BY <1>1, <1>2, <1>3, <1>4, <1>5, SendableMeans

LEMMA HandledLive ==
  ASSUME NEW s, Live(s, provider), protocol \in {"chat", "responses", "anthropic"},
         s.carry = adapter.carry,
         NEW event \in Sendable, event.type # "error",
         NEW t \in Handled(s, event)
  PROVE  Live(t, Sent(event)) /\ t.events = s.events
<1> DEFINE p == provider
<1>1. CASE event.type = "text"
  <2>1. /\ Talks /\ event.text \in {"plain", "beginning", "rest"}
        /\ event.text = "rest" => s.carry
    BY <1>1, SendableMeans
  <2>2. t = Consume(s, event.text)
    BY <1>1 DEF Handled
  <2> DEFINE u == IF event.text = "rest" THEN p.units - 1 ELSE p.units + 1
  <2>3. Sent(event) = [p EXCEPT !.units = u]
    BY <1>1, SentMeans
  <2>4. Said(s, p.units) /\ Quiet(s)
    BY <2>1, BeforeTheEnd DEF Talks
  <2>5. Said(t, u) /\ Quiet(t) /\ Speech(s, t)
    BY <2>1, <2>2, <2>4, TaggedText
  <2> HIDE DEF u
  <2>6. u \in Nat
    BY <2>5, SaidNumber
  <2>7. Live(t, [p EXCEPT !.units = u])
    BY <2>4, <2>5, <2>6, SpeechIsLive
  <2> QED BY <2>3, <2>5, <2>7 DEF Speech
<1>2. CASE event.type = "reasoning"
  <2>1. Talks
    BY <1>2, SendableMeans
  <2>2. t = emitThinkingDelta(s)
    BY <1>2 DEF Handled
  <2>3. Sent(event) = [p EXCEPT !.units = p.units + 1]
    BY <1>2, SentMeans
  <2>4. Said(s, p.units) /\ Quiet(s)
    BY <2>1, BeforeTheEnd DEF Talks
  <2>5. Said(t, p.units + 1) /\ Quiet(t) /\ Speech(s, t)
    BY <2>2, <2>4, EmitThinking
  <2>6. p.units + 1 \in Nat
    BY <2>5, SaidNumber
  <2>7. Live(t, [p EXCEPT !.units = p.units + 1])
    BY <2>4, <2>5, <2>6, SpeechIsLive
  <2> QED BY <2>3, <2>5, <2>7 DEF Speech
<1>3. CASE event.type \notin {"text", "reasoning"} /\ protocol = "chat"
  <2>1. t \in chat(s, event)
    BY <1>3 DEF Handled
  <2> QED BY <1>3, <2>1, ChatStep
<1>4. CASE event.type \notin {"text", "reasoning"} /\ protocol = "responses"
  <2>1. t \in responses(s, event)
    BY <1>4 DEF Handled
  <2> QED BY <1>4, <2>1, ResponsesStep
<1>5. CASE event.type \notin {"text", "reasoning"} /\ protocol = "anthropic"
  <2>1. t \in anthropic(s, event)
    BY <1>5 DEF Handled
  <2> QED BY <1>5, <2>1, AnthropicStep
<1> QED BY <1>1, <1>2, <1>3, <1>4, <1>5

(* What holds of an output whatever the verdict, and of its prefixes.      *)
Exact(out, p) ==
    \A c \in Calls : Full(p, c) =>
        /\ \A i, j \in CallsIn(out, c) : i = j
        /\ \A i \in CallsIn(out, c) : out[i].units = ArgLen
        /\ Cardinality(Shown(out, c)) <= ArgLen

Last(out) ==
    \A i \in Indices(out, {"finished"}) :
        /\ i = Len(out)
        /\ Indices(out, {"call"}) # {} <=> out[i].reason \in {"tool_calls", "tool_use"}

Told(s, p) ==
    /\ \A c \in Calls : Full(p, c) =>
        /\ CallsIn(s.out, c) # {}
        /\ c \in Previewed => Cardinality(Shown(s.out, c)) = ArgLen
    /\ Cardinality(Indices(s.out, {"text", "thinking"})) = p.units
    /\ \A i \in Indices(s.out, {"thinking"}) : Closes(s.out, i)

LEMMA SaidIsExact ==
  ASSUME NEW s, NEW p, NEW u, Said(s, u), Done(s), s.args = p.sent,
         \A c \in Calls : Full(p, c) => p.sent[c] = ArgLen
  PROVE  Exact(s.out, p) /\ Last(s.out)
<1>1. s \in Adapter /\ s.shown \in [Calls -> 0..ArgLen]
  BY AdapterFields DEF Said
<1>2. ASSUME NEW c \in Calls, Full(p, c)
      PROVE  /\ \A i, j \in CallsIn(s.out, c) : i = j
             /\ \A i \in CallsIn(s.out, c) : s.out[i].units = ArgLen
             /\ Cardinality(Shown(s.out, c)) <= ArgLen
  <2>1. s.args[c] = ArgLen
    BY <1>2
  <2>2. Cardinality(Shown(s.out, c)) = s.shown[c] /\ s.shown[c] \in 0..ArgLen
    BY <1>1 DEF Said
  <2>3. /\ \A i, j \in CallsIn(s.out, c) : i = j
        /\ \A i \in CallsIn(s.out, c) : s.out[i].units = s.args[c]
    BY DEF Said, CallsSaid
  <2> QED BY <2>1, <2>2, <2>3, ConstantTypes
<1>3. Last(s.out)
  BY DEF Done, Last
<1> QED BY <1>2, <1>3 DEF Exact

LEMMA FullIsSent ==
  ASSUME NEW s, NEW p, CallsMatch(s, p)
  PROVE  \A c \in Calls : Full(p, c) => p.sent[c] = ArgLen
BY DEF CallsMatch, Full

(* What was heard before the sink refused an event.                        *)
LEMMA PrefixIsExact ==
  ASSUME NEW s \in Adapter, NEW p, Exact(s.out, p), Last(s.out),
         NEW n \in 0..(Len(s.out) - 1)
  PROVE  LET o == SubSeq(s.out, 1, n)
         IN  Exact(o, p) /\ Last(o) /\ o \in Seq(EventType)
<1> DEFINE o == SubSeq(s.out, 1, n)
<1>1. s.out \in Seq(EventType) /\ Len(s.out) \in Nat /\ DOMAIN s.out = 1..Len(s.out)
  BY AdapterFields, AppendOne
<1>2. /\ o \in Seq(EventType) /\ Len(o) = n /\ DOMAIN o = 1..n
      /\ \A i \in 1..n : o[i] = s.out[i]
      /\ 1..n \subseteq 1..Len(s.out) /\ Len(s.out) \notin 1..n
  BY <1>1
<1> HIDE DEF o
<1>3. \A kinds : Indices(o, kinds) = {i \in 1..n : i \in Indices(s.out, kinds)}
  BY <1>1, <1>2 DEF Indices
<1>4. ASSUME NEW c \in Calls, Full(p, c)
      PROVE  /\ \A i, j \in CallsIn(o, c) : i = j
             /\ \A i \in CallsIn(o, c) : o[i].units = ArgLen
             /\ Cardinality(Shown(o, c)) <= ArgLen
  <2>1. /\ \A i, j \in CallsIn(s.out, c) : i = j
        /\ \A i \in CallsIn(s.out, c) : s.out[i].units = ArgLen
        /\ Cardinality(Shown(s.out, c)) <= ArgLen
    BY <1>4 DEF Exact
  <2>2. \A i \in CallsIn(o, c) : i \in CallsIn(s.out, c) /\ o[i] = s.out[i]
    BY <1>2, <1>3 DEF CallsIn
  <2>3. \A i \in PreviewsIn(o, c) : i \in PreviewsIn(s.out, c) /\ o[i] = s.out[i]
    BY <1>2, <1>3 DEF PreviewsIn
  <2>4. Shown(o, c) \subseteq Shown(s.out, c)
    <3>1. \A x : x \in Shown(o, c) <=>
                    \E i \in PreviewsIn(o, c) : x \in {i} \X (1..o[i].units)
      BY ShownMembers
    <3>2. \A x : x \in Shown(s.out, c) <=>
                    \E i \in PreviewsIn(s.out, c) : x \in {i} \X (1..s.out[i].units)
      BY ShownMembers
    <3>3. \A i \in PreviewsIn(o, c) :
              {i} \X (1..o[i].units) = {i} \X (1..s.out[i].units)
      BY <2>3
    <3>4. \A x : x \in Shown(o, c) => x \in Shown(s.out, c)
      BY <3>1, <3>2, <3>3, <2>3, Zenon
    <3> QED BY <3>4
  <2>5. /\ IsFiniteSet(Shown(s.out, c)) /\ Cardinality(Shown(s.out, c)) \in Nat
        /\ Cardinality(Shown(o, c)) \in Nat
    BY <1>1, <1>2, ShownFinite
  <2>6. Cardinality(Shown(o, c)) <= Cardinality(Shown(s.out, c))
    BY <2>4, <2>5, FS_Subset
  <2>7. Cardinality(Shown(o, c)) <= ArgLen
    BY <2>1, <2>5, <2>6, ConstantTypes
  <2> QED BY <2>1, <2>2, <2>7
<1>5. Indices(o, {"finished"}) = {}
  <2>1. \A i \in Indices(s.out, {"finished"}) : i = Len(s.out)
    BY DEF Last
  <2> QED BY <2>1, <1>2, <1>3
<1>6. Last(o)
  BY <1>5 DEF Last
<1> QED BY <1>2, <1>4, <1>6 DEF Exact, o

LEMMA FreshIsLive ==
  Live(Fresh, Silent) /\ Exact(Fresh.out, Silent) /\ Last(Fresh.out)
<1>1. Fresh \in Adapter
  BY ConstantTypes DEF Fresh, Adapter
<1>2. /\ Fresh.out = <<>> /\ Fresh.carry = FALSE /\ Fresh.thinking = FALSE
      /\ Fresh.held = {} /\ Fresh.completed = {} /\ Fresh.pending = FALSE
      /\ Fresh.emittedAny = FALSE
      /\ Fresh.args = [c \in Calls |-> 0] /\ Fresh.shown = [c \in Calls |-> 0]
  BY DEF Fresh
<1>3. /\ Silent.units = 0 /\ Silent.started = 0 /\ Silent.sent = [c \in Calls |-> 0]
      /\ Silent.closed = {} /\ Silent.ended = "no" /\ Silent \in ProviderType
  BY ConstantTypes DEF Silent, ProviderType
<1> HIDE DEF Fresh, Silent
<1>4. \A kinds : Indices(Fresh.out, kinds) = {}
  BY <1>2 DEF Indices
<1>5. \A c \in Calls : Shown(Fresh.out, c) = {}
  BY <1>4 DEF Shown, PreviewsIn
<1>6. Said(Fresh, 0)
  <2>1. Cardinality({}) = 0 /\ Carry(Fresh) = 0
    BY <1>2, FS_EmptySet DEF Carry
  <2>2. \A c \in Calls : Cardinality(Shown(Fresh.out, c)) = Fresh.shown[c]
    BY <1>2, <1>5, <2>1
  <2>3. CallsSaid(Fresh)
    BY <1>2, <1>4 DEF CallsSaid, CallsIn
  <2>4. Thoughts(Fresh.out, Fresh.thinking)
    BY <1>4 DEF Thoughts
  <2> QED BY <1>1, <1>4, <2>1, <2>2, <2>3, <2>4 DEF Said
<1>7. Quiet(Fresh)
  BY <1>4 DEF Quiet
<1>8. CallsMatch(Fresh, Silent)
  BY <1>2, <1>3, ConstantTypes DEF CallsMatch, ShownAsGiven
<1>9. Live(Fresh, Silent)
  BY <1>2, <1>3, <1>6, <1>7, <1>8, LiveBefore DEF Speaks
<1>10. Exact(Fresh.out, Silent) /\ Last(Fresh.out)
  BY <1>9, SaidIsExact, FullIsSent DEF Live, CallsMatch
<1> QED BY <1>9, <1>10

LEMMA LiveIsExact ==
  ASSUME NEW s, NEW p, Live(s, p)
  PROVE  s \in Adapter /\ Exact(s.out, p) /\ Last(s.out)
BY SaidIsExact, FullIsSent DEF Live, Said, CallsMatch

(* A request that goes out has no answer yet; an answer is parsed until the *)
(* verdict, and what has been told of it is exact then.  Only the last     *)
(* attempt was heard.                                                      *)
SilentCut ==
    conn = "ended" /\ protocol = "anthropic" /\ adapter.out = <<>> => adapter.held = {}

AnswerInv ==
    /\ AnswerTypeOK
    /\ heard \in Seq({<<>>})
    /\ conn = "connecting" => adapter = Fresh /\ provider = Silent
    /\ conn # "closed" => Live(adapter, provider)
    /\ Exact(adapter.out, provider) /\ Last(adapter.out)
    /\ verdict = "ok" => Told(adapter, provider)
    /\ "cut_in_call" \notin Quirks => NoSilentSuccess /\ SilentCut

LEMMA ProtocolTypes ==
  ASSUME protocol \in Protocols
  PROVE  protocol \in {"chat", "responses", "anthropic"}
BY ProviderStreamAssumption

LEMMA FailsKeeps ==
  ASSUME AnswerInv, NEW s \in Adapter, NEW signature \in BOOLEAN, Fails(s, signature),
         provider' \in ProviderType, Exact(s.out, provider'), Last(s.out)
  PROVE  AnswerInv'
<1>1. /\ adapter' = s /\ conn' = "closed" /\ timer' = "stopped"
      /\ verdict' \in {"signature", "failed"}
      /\ protocol' = protocol /\ heard' = heard /\ rectified' = rectified
  BY DEF Fails
<1>2. AnswerTypeOK'
  BY <1>1 DEF AnswerInv, AnswerTypeOK, ProviderType
<1>3. Exact(adapter.out, provider)' /\ Last(adapter.out)'
  BY <1>1 DEF Exact, Full, Last
<1>4. NoSilentSuccess' /\ SilentCut'
  BY <1>1 DEF NoSilentSuccess, SilentCut
<1> QED BY <1>1, <1>2, <1>3, <1>4 DEF AnswerInv

LEMMA RefusalKeeps ==
  ASSUME AnswerInv, NEW s \in Adapter, SinkRefuses(s),
         provider' \in ProviderType, Exact(s.out, provider'), Last(s.out)
  PROVE  AnswerInv'
<1>1. adapter \in Adapter
  BY DEF AnswerInv, AnswerTypeOK
<1>2. PICK n \in Len(adapter.out)..(Len(s.out) - 1) :
            Fails([adapter EXCEPT !.out = SubSeq(s.out, 1, n)], FALSE)
  BY DEF SinkRefuses
<1> DEFINE o == SubSeq(s.out, 1, n)
           t == [adapter EXCEPT !.out = o]
<1>3. n \in 0..(Len(s.out) - 1)
  BY <1>1, AdapterFields, AppendOne
<1>4. Exact(o, provider') /\ Last(o) /\ o \in Seq(EventType)
  BY <1>3, PrefixIsExact
<1> HIDE DEF o
<1>5. t \in Adapter /\ t.out = o
  BY <1>1, <1>4 DEF Adapter
<1>6. Fails(t, FALSE)
  BY <1>2 DEF o
<1> HIDE DEF t
<1> QED BY <1>4, <1>5, <1>6, FailsKeeps

(* The steps that leave the parse and the provider as they are.            *)
LEMMA IdleKeeps ==
  ASSUME AnswerInv,
         UNCHANGED <<protocol, provider, adapter, heard>>,
         AnswerTypeOK', verdict' = verdict \/ verdict' = "failed",
         conn' = "connecting" => conn = "connecting",
         conn = "closed" => conn' = "closed",
         "cut_in_call" \notin Quirks => SilentCut'
  PROVE  AnswerInv'
<1>1. Exact(adapter.out, provider)' /\ Last(adapter.out)'
  BY DEF AnswerInv, Exact, Full, Last
<1>2. conn' # "closed" => Live(adapter, provider)'
  BY DEF AnswerInv, Live, Said, Done, Speaks, CallsMatch, EndMatches, Full
<1>3. verdict' = "ok" => Told(adapter, provider)'
  BY DEF AnswerInv, Told, Full
<1>4. "cut_in_call" \notin Quirks => NoSilentSuccess'
  BY DEF AnswerInv, NoSilentSuccess
<1> QED BY <1>1, <1>2, <1>3, <1>4 DEF AnswerInv

LEMMA AnswerInitially ==
  ASSUME AnswerInit
  PROVE  AnswerInv
<1>1. Fresh \in Adapter /\ Silent \in ProviderType /\ Fresh.events = 0 /\ 0 <= Budget
  BY FreshIsLive, ConstantTypes DEF Live, Said, CallsMatch, Fresh
<1>2. AnswerTypeOK
  BY <1>1 DEF AnswerInit, AnswerTypeOK, ProviderType
<1>3. heard \in Seq({<<>>})
  BY DEF AnswerInit
<1>4. NoSilentSuccess /\ SilentCut
  BY DEF AnswerInit, NoSilentSuccess, SilentCut
<1> QED BY <1>2, <1>3, <1>4, FreshIsLive DEF AnswerInv, AnswerInit

LEMMA ReceiveKeeps ==
  ASSUME AnswerInv, NEW event \in Sendable, Receive(event)
  PROVE  AnswerInv'
<1> DEFINE s == counted
<1>1. /\ conn = "open" /\ s.events <= Budget /\ event.type # "error"
      /\ provider' = Sent(event)
  BY DEF Receive, withinBudget
<1>2. protocol \in {"chat", "responses", "anthropic"}
  BY ProtocolTypes DEF AnswerInv, AnswerTypeOK
<1>3. Live(adapter, provider) /\ adapter.events <= Budget
  BY <1>1 DEF AnswerInv, AnswerTypeOK
<1>4. Live(s, provider) /\ s.carry = adapter.carry
  BY <1>3, CountedIsLive DEF counted
<1>5. PICK t \in Handled(s, event) :
            \/ /\ adapter' = t
               /\ conn' = IF event.type = "DONE" THEN "ended" ELSE "open"
               /\ UNCHANGED <<protocol, timer, heard, rectified, verdict>>
            \/ SinkRefuses(t)
  BY DEF Receive
<1> HIDE DEF s
<1>6. Live(t, Sent(event)) /\ t.events = s.events
  BY <1>1, <1>2, <1>4, HandledLive
<1>7. /\ t \in Adapter /\ Exact(t.out, Sent(event)) /\ Last(t.out)
      /\ Sent(event) \in ProviderType
  BY <1>6, LiveIsExact DEF Live, CallsMatch
<1>8. CASE SinkRefuses(t)
  BY <1>1, <1>7, <1>8, RefusalKeeps
<1>9. CASE /\ adapter' = t
           /\ conn' = IF event.type = "DONE" THEN "ended" ELSE "open"
           /\ UNCHANGED <<protocol, timer, heard, rectified, verdict>>
  <2>1. verdict' = "none" /\ conn' \in {"ended", "open"}
    BY <1>1, <1>9 DEF AnswerInv, AnswerTypeOK
  <2>2. AnswerTypeOK'
    BY <1>1, <1>6, <1>7, <1>9, <2>1 DEF AnswerInv, AnswerTypeOK, ProviderType
  <2>3. Live(adapter, provider)'
    BY <1>1, <1>6, <1>9 DEF Live, Said, Done, Speaks, CallsMatch, EndMatches, Full
  <2>4. Exact(adapter.out, provider)' /\ Last(adapter.out)'
    BY <1>1, <1>7, <1>9 DEF Exact, Full, Last
  <2>5. SilentCut'
    <3>1. event.type = "DONE" => protocol # "anthropic"
      BY <1>1, <1>2, SendableMeans
    <3> QED BY <3>1, <1>9 DEF SilentCut
  <2> QED BY <1>9, <2>1, <2>2, <2>3, <2>4, <2>5 DEF AnswerInv, NoSilentSuccess
<1> QED BY <1>5, <1>8, <1>9

LEMMA BreakKeeps ==
  ASSUME AnswerInv, StreamBreaks
  PROVE  AnswerInv'
<1>1. Live(adapter, provider) /\ provider' = provider
  BY DEF AnswerInv, StreamBreaks
<1>2. protocol \in {"chat", "responses", "anthropic"}
  BY ProtocolTypes DEF AnswerInv, AnswerTypeOK
<1>3. PICK s \in scanned(adapter) : Fails(s, FALSE) \/ SinkRefuses(s)
  BY DEF StreamBreaks
<1>4. Said(s, provider.units) /\ Done(s) /\ s.args = adapter.args
  BY <1>1, <1>2, Scanned
<1>5. /\ s.args = provider.sent /\ provider \in ProviderType
      /\ \A c \in Calls : Full(provider, c) => provider.sent[c] = ArgLen
  BY <1>1, <1>4, FullIsSent DEF Live, CallsMatch
<1>6. s \in Adapter /\ Exact(s.out, provider) /\ Last(s.out)
  BY <1>4, <1>5, SaidIsExact DEF Said
<1> QED BY <1>1, <1>3, <1>5, <1>6, FailsKeeps, RefusalKeeps

LEMMA CloseKeeps ==
  ASSUME AnswerInv, StreamCloses
  PROVE  AnswerInv'
<1>1. Live(adapter, provider) /\ provider' = provider /\ conn = "ended"
  BY DEF AnswerInv, StreamCloses
<1>2. protocol \in {"chat", "responses", "anthropic"}
  BY ProtocolTypes DEF AnswerInv, AnswerTypeOK
<1>3. PICK h \in scanned(adapter) : \E s \in {concluded(h)} :
        \/ truncated(s) /\ Fails(s, FALSE)
        \/ /\ ~truncated(s)
           /\ adapter' = s
           /\ conn' = "closed"
           /\ timer' = "stopped"
           /\ verdict' = "ok"
           /\ UNCHANGED <<protocol, heard, rectified>>
        \/ SinkRefuses(s)
  BY DEF StreamCloses
<1> DEFINE s == concluded(h)
<1>4. /\ Said(h, provider.units) /\ Done(h) /\ Due(h)
      /\ h.args = adapter.args /\ h.shown = adapter.shown
      /\ h.sawTerminator = adapter.sawTerminator
      /\ \A c \in Calls : Full(provider, c) => c \in h.completed
      /\ h.out = <<>> =>
                /\ adapter.out = <<>> /\ h.emittedAny = adapter.emittedAny
                /\ protocol # "anthropic" => adapter.held = {}
  BY <1>1, <1>2, Scanned
<1>5. /\ Said(s, provider.units) /\ Done(s)
      /\ s.carry = FALSE /\ s.thinking = FALSE
      /\ s.args = h.args /\ s.shown = h.shown
      /\ s.completed = h.completed /\ s.sawTerminator = h.sawTerminator
      /\ s.out = <<>> => h.out = <<>> /\ s.emittedAny = h.emittedAny
  BY <1>4, Concluded
<1>6. \/ truncated(s) /\ Fails(s, FALSE)
      \/ /\ ~truncated(s)
         /\ adapter' = s
         /\ conn' = "closed"
         /\ timer' = "stopped"
         /\ verdict' = "ok"
         /\ UNCHANGED <<protocol, heard, rectified>>
      \/ SinkRefuses(s)
  BY <1>3
<1> HIDE DEF s
<1>7. /\ s.args = provider.sent /\ provider \in ProviderType
      /\ \A c \in Calls : Full(provider, c) => provider.sent[c] = ArgLen
  BY <1>1, <1>4, <1>5, FullIsSent DEF Live, CallsMatch
<1>8. s \in Adapter /\ Exact(s.out, provider) /\ Last(s.out)
  BY <1>5, <1>7, SaidIsExact DEF Said
<1>9. CASE truncated(s) /\ Fails(s, FALSE)
  BY <1>1, <1>7, <1>8, <1>9, FailsKeeps
<1>10. CASE SinkRefuses(s)
  BY <1>1, <1>7, <1>8, <1>10, RefusalKeeps
<1>11. CASE /\ ~truncated(s)
            /\ adapter' = s
            /\ conn' = "closed"
            /\ timer' = "stopped"
            /\ verdict' = "ok"
            /\ UNCHANGED <<protocol, heard, rectified>>
  <2>1. AnswerTypeOK'
    BY <1>1, <1>7, <1>8, <1>11 DEF AnswerInv, AnswerTypeOK, ProviderType
  <2>2. Told(s, provider)
    <3>1. ASSUME NEW c \in Calls, Full(provider, c)
          PROVE  /\ CallsIn(s.out, c) # {}
                 /\ c \in Previewed => Cardinality(Shown(s.out, c)) = ArgLen
      <4>1. c \in s.completed
        BY <3>1, <1>4, <1>5
      <4>2. CallsIn(s.out, c) # {} /\ Cardinality(Shown(s.out, c)) = s.shown[c]
        BY <4>1, <1>5 DEF Said, CallsSaid
      <4>3. c \in Previewed => s.shown[c] = ArgLen
        BY <3>1, <1>1, <1>4, <1>5, <1>7 DEF Live, CallsMatch, ShownAsGiven
      <4> QED BY <4>2, <4>3
    <3>2. Cardinality(Indices(s.out, {"text", "thinking"})) = provider.units
      <4>1. Cardinality(Indices(s.out, {"text", "thinking"})) \in Nat
        BY <1>8, AdapterFields, IndicesFinite
      <4>2. Cardinality(Indices(s.out, {"text", "thinking"})) + 0 = provider.units
        BY <1>5 DEF Said, Carry
      <4> QED BY <4>1, <4>2
    <3>3. \A i \in Indices(s.out, {"thinking"}) : Closes(s.out, i)
      BY <1>5 DEF Said, Thoughts
    <3> QED BY <3>1, <3>2, <3>3 DEF Told
  <2>3. Told(adapter, provider)'
    BY <2>2, <1>1, <1>11 DEF Told, Full
  <2>4. ASSUME "cut_in_call" \notin Quirks PROVE NoSilentSuccess'
    <3>1. s.sawTerminator \/ s.emittedAny
      BY <1>8, <1>11, AdapterFields DEF truncated
    <3>2. ASSUME s.out = <<>>, s.emittedAny PROVE FALSE
      <4>1. adapter.out = <<>> /\ adapter.emittedAny
        BY <3>2, <1>4, <1>5
      <4>2. protocol = "anthropic" /\ adapter.held # {}
        BY <4>1, <1>1 DEF Live, Speaks
      <4> QED BY <4>1, <4>2, <2>4, <1>1 DEF AnswerInv, SilentCut
    <3> QED BY <3>1, <3>2, <1>11 DEF NoSilentSuccess
  <2>5. Exact(adapter.out, provider)' /\ Last(adapter.out)'
    BY <1>1, <1>8, <1>11 DEF Exact, Full, Last
  <2> QED BY <1>11, <2>1, <2>3, <2>4, <2>5 DEF AnswerInv, SilentCut
<1> QED BY <1>6, <1>9, <1>10, <1>11

LEMMA RectifyKeeps ==
  ASSUME AnswerInv, Rectify
  PROVE  AnswerInv'
<1>1. /\ heard' = Append(heard, <<>>) /\ adapter' = Fresh /\ provider' = Silent
      /\ conn' = "connecting" /\ timer' = "armed" /\ verdict' = "none"
      /\ protocol' = protocol /\ rectified' = TRUE
  BY DEF Rectify, mayRectify
<1>2. Fresh \in Adapter /\ Silent \in ProviderType
  BY FreshIsLive DEF Live, Said, CallsMatch
<1>3. heard' \in Seq({<<>>})
  BY <1>1 DEF AnswerInv
<1>4. AnswerTypeOK'
  BY <1>1, <1>2 DEF AnswerInv, AnswerTypeOK, ProviderType
<1>5. Live(adapter, provider)'
  BY <1>1, FreshIsLive DEF Live, Said, Done, Speaks, CallsMatch, EndMatches, Full
<1>6. Exact(adapter.out, provider)' /\ Last(adapter.out)'
  BY <1>1, FreshIsLive DEF Exact, Full, Last
<1> QED BY <1>1, <1>3, <1>4, <1>5, <1>6 DEF AnswerInv, NoSilentSuccess, SilentCut

LEMMA EndOfFileKeeps ==
  ASSUME AnswerInv, EndOfFile
  PROVE  AnswerInv'
<1>1. /\ conn = "open" /\ conn' = "ended"
      /\ UNCHANGED <<protocol, provider, timer, adapter, heard, rectified, verdict>>
  BY DEF EndOfFile
<1>2. AnswerTypeOK'
  BY <1>1 DEF AnswerInv, AnswerTypeOK
<1>3. ASSUME "cut_in_call" \notin Quirks PROVE SilentCut'
  <2> SUFFICES ASSUME protocol = "anthropic", adapter.out = <<>> PROVE adapter.held = {}
    BY <1>1 DEF SilentCut
  <2>1. Open = {} /\ Live(adapter, provider)
    BY <1>1, <1>3 DEF EndOfFile, AnswerInv
  <2>2. \A c \in 1..provider.started : c \in provider.closed
    BY <2>1, AllFull DEF Full
  <2> QED BY <2>1, <2>2 DEF Live, CallsMatch
<1> QED BY <1>1, <1>2, <1>3, IdleKeeps

LEMMA AnswerStep ==
  ASSUME AnswerInv, [AnswerNext]_answerVars
  PROVE  AnswerInv'
<1>1. /\ adapter \in Adapter /\ provider \in ProviderType
      /\ Exact(adapter.out, provider) /\ Last(adapter.out)
  BY DEF AnswerInv, AnswerTypeOK, ProviderType
<1>2. CASE UNCHANGED answerVars
  BY <1>2, IdleKeeps DEF answerVars, AnswerInv, AnswerTypeOK, SilentCut
<1>3. CASE Connect
  <2>1. Fresh.events = 0 /\ 0 <= Budget
    BY ConstantTypes DEF Fresh
  <2>2. AnswerTypeOK'
    BY <1>3, <2>1 DEF Connect, AnswerInv, AnswerTypeOK
  <2> QED BY <1>3, <2>2, IdleKeeps DEF Connect, SilentCut
<1>4. ASSUME NEW signature \in BOOLEAN, ConnectFails(signature) PROVE AnswerInv'
  BY <1>1, <1>4, FailsKeeps DEF ConnectFails
<1>5. ASSUME NEW signature \in BOOLEAN, ErrorEvent(signature) PROVE AnswerInv'
  BY <1>1, <1>5, FailsKeeps DEF ErrorEvent
<1>6. ASSUME NEW event \in Sendable, Receive(event) PROVE AnswerInv'
  BY <1>6, ReceiveKeeps
<1>7. CASE OverBudget
  <2>1. Live(adapter, provider) /\ adapter.events <= Budget
    BY <1>7 DEF OverBudget, AnswerInv, AnswerTypeOK
  <2>2. Live(counted, provider)
    BY <2>1, CountedIsLive DEF counted
  <2>3. counted \in Adapter /\ Exact(counted.out, provider) /\ Last(counted.out)
    BY <2>2, LiveIsExact
  <2> QED BY <1>1, <1>7, <2>3, FailsKeeps DEF OverBudget
<1>8. CASE MalformedTail
  <2>1. CASE adapter.emittedAny /\ protocol # "anthropic"
    <3>1. /\ conn = "open" /\ conn' = "ended"
          /\ UNCHANGED <<protocol, provider, timer, adapter, heard, rectified, verdict>>
      BY <1>8, <2>1 DEF MalformedTail
    <3>2. AnswerTypeOK'
      BY <3>1 DEF AnswerInv, AnswerTypeOK
    <3> QED BY <2>1, <3>1, <3>2, IdleKeeps DEF SilentCut
  <2>2. CASE ~(adapter.emittedAny /\ protocol # "anthropic")
    BY <1>1, <1>8, <2>2, FailsKeeps DEF MalformedTail
  <2> QED BY <2>1, <2>2
<1>9. CASE EndOfFile
  BY <1>9, EndOfFileKeeps
<1>10. CASE ReadFails
  <2>1. AnswerTypeOK'
    BY <1>10 DEF ReadFails, AnswerInv, AnswerTypeOK
  <2> QED BY <1>10, <2>1, IdleKeeps DEF ReadFails, SilentCut
<1>11. CASE StreamBreaks
  BY <1>11, BreakKeeps
<1>12. CASE StreamCloses
  BY <1>12, CloseKeeps
<1>13. CASE Rectify
  BY <1>13, RectifyKeeps
<1>14. CASE GiveUp
  <2>1. AnswerTypeOK'
    BY <1>14 DEF GiveUp, AnswerInv, AnswerTypeOK
  <2>2. "cut_in_call" \notin Quirks => SilentCut'
    BY <1>14 DEF GiveUp, AnswerInv, SilentCut
  <2> QED BY <1>14, <2>1, <2>2, IdleKeeps DEF GiveUp
<1>15. CASE TimerFires
  <2>1. AnswerTypeOK'
    BY <1>15 DEF TimerFires, AnswerInv, AnswerTypeOK
  <2>2. "cut_in_call" \notin Quirks => SilentCut'
    BY <1>15 DEF TimerFires, AnswerInv, SilentCut
  <2> QED BY <1>15, <2>1, <2>2, IdleKeeps DEF TimerFires
<1>16. CASE expire
  <2>1. AnswerTypeOK'
    BY <1>16 DEF expire, cut, AnswerInv, AnswerTypeOK
  <2>2. "cut_in_call" \notin Quirks => SilentCut'
    BY <1>16 DEF expire, cut, AnswerInv, SilentCut
  <2> QED BY <1>16, <2>1, <2>2, IdleKeeps DEF expire, cut
<1> QED BY <1>2, <1>3, <1>4, <1>5, <1>6, <1>7, <1>8, <1>9, <1>10, <1>11, <1>12,
           <1>13, <1>14, <1>15, <1>16 DEF AnswerNext

LEMMA AnswerInvHolds == AnswerSpec => []AnswerInv
<1>1. AnswerInit => AnswerInv
  BY AnswerInitially
<1>2. AnswerInv /\ [AnswerNext]_answerVars => AnswerInv'
  BY AnswerStep
<1> QED BY <1>1, <1>2, PTL DEF AnswerSpec

(* The parse of an answer stays within its types, whatever the provider    *)
(* sends (openai.go, anthropic.go).                                        *)
THEOREM AnswerTypeCorrect == AnswerSpec => []AnswerTypeOK
<1>1. AnswerInv => AnswerTypeOK
  BY DEF AnswerInv
<1> QED BY <1>1, AnswerInvHolds, PTL

(* For any number of calls and any budget of events, in each of the three   *)
(* protocols: what reaches the sink is what the provider said in one       *)
(* attempt, calls once with the arguments they were given, texts and       *)
(* reasoning complete when the pass succeeds, the end of the turn last     *)
(* (the handlers of stream events in openai.go and anthropic.go).          *)
THEOREM AnswersArriveWhole == AnswerSpec => []AnswerArrivesWhole
<1>1. AnswerInv => AnswerArrivesWhole
  <2> SUFFICES ASSUME AnswerInv PROVE AnswerArrivesWhole
    OBVIOUS
  <2>1. \A c \in Calls : Complete(c) <=> Full(provider, c)
    BY DEF Complete, Given, Full
  <2>2. ExactCalls
    BY <2>1 DEF AnswerInv, Exact, Told, ExactCalls
  <2>3. NothingLost
    BY DEF AnswerInv, Told, NothingLost
  <2>4. FinishedOnceAndLast
    BY DEF AnswerInv, Last, FinishedOnceAndLast
  <2>5. OneAttemptHeard
    <3>1. \A i \in DOMAIN heard : heard[i] = <<>>
      BY DEF AnswerInv
    <3> QED BY <3>1 DEF OneAttemptHeard
  <2> QED BY <2>2, <2>3, <2>4, <2>5 DEF AnswerArrivesWhole
<1> QED BY <1>1, AnswerInvHolds, PTL

(* A pass that is told to have succeeded has seen the provider's end mark  *)
(* or passed something on, but where a message is cut within its first call *)
(* (truncated in openai.go and anthropic.go).                              *)
THEOREM SuccessIsNeverSilent ==
  "cut_in_call" \notin Quirks => (AnswerSpec => []NoSilentSuccess)
<1> SUFFICES ASSUME "cut_in_call" \notin Quirks
             PROVE  AnswerSpec => []NoSilentSuccess
  OBVIOUS
<1>1. AnswerInv => NoSilentSuccess
  BY DEF AnswerInv
<1> QED BY <1>1, AnswerInvHolds, PTL
=============================================================================
