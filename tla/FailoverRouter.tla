--------------------------- MODULE FailoverRouter ---------------------------
(***************************************************************************)
(* Router.Stream of internal/backend/agent/model/router.go: concurrent     *)
(* requests walk an ordered list of channels, ask each channel's breaker   *)
(* for admission, run the provider stream and report the result.           *)
(*                                                                         *)
(* Each breaker call is one atomic step, and everything between two calls  *)
(* of one request interleaves with the other requests, with the passing of *)
(* time and with the client's cancellation.                                *)
(***************************************************************************)
EXTENDS CircuitBreaker, FiniteSets

CONSTANTS
    Requests,           \* concurrent Router.Stream calls
    Channels,           \* the model's channels
    Priority,           \* Channels in the resolver's order
    Editable,           \* channels whose provider type a settings edit may make
                        \* unknown to adapterFor
    Nobody              \* current channel of a request that has none

ASSUME RouterAssumption ==
    /\ Editable \subseteq Channels
    /\ Priority \in Seq(Channels)
    /\ Nobody \notin Channels

VARIABLES
    breakers,           \* the registry: one breaker per channel
    pc,                 \* where each request stands in Router.Stream
    candidates,         \* positions of Priority the request has not tried yet
    available,          \* those whose breaker looked available at the start
    current,            \* the channel it is on
    permit,             \* AllowResult.UsedHalfOpenPermit of that channel
    sinkStarted,        \* an event of that channel reached the sink
    outcome,            \* class of the stream's error
    cancelled,          \* ctx.Err() # nil
    delivered           \* history: channels whose events reached the client

vars == <<breakers, pc, candidates, available, current, permit, sinkStarted,
          outcome, cancelled, delivered>>

PC == {"idle", "pick", "admitted", "record", "decide"}
Outcome == {"none", "ok", "retryable", "fatal", "canceled", "sink_error"}

TypeOK ==
    /\ breakers \in [Channels -> Breaker]
    /\ pc \in [Requests -> PC]
    /\ candidates \in [Requests -> SUBSET DOMAIN Priority]
    /\ available \in [Requests -> SUBSET DOMAIN Priority]
    /\ current \in [Requests -> Channels \cup {Nobody}]
    /\ permit \in [Requests -> BOOLEAN]
    /\ sinkStarted \in [Requests -> BOOLEAN]
    /\ outcome \in [Requests -> Outcome]
    /\ cancelled \in [Requests -> BOOLEAN]
    /\ delivered \in [Requests -> SUBSET Channels]

Init ==
    /\ breakers = [c \in Channels |-> NewCircuitBreaker]
    /\ pc = [r \in Requests |-> "idle"]
    /\ candidates = [r \in Requests |-> {}]
    /\ available = [r \in Requests |-> {}]
    /\ current = [r \in Requests |-> Nobody]
    /\ permit = [r \in Requests |-> FALSE]
    /\ sinkStarted = [r \in Requests |-> FALSE]
    /\ outcome = [r \in Requests |-> "none"]
    /\ cancelled = [r \in Requests |-> FALSE]
    /\ delivered = [r \in Requests |-> {}]

-----------------------------------------------------------------------------
(* Available channels keep their order and go before the blocked ones,     *)
(* which stay in the list as a last resort (orderCandidates).              *)
Before(r, i, j) ==
    \/ i \in available[r] /\ j \notin available[r]
    \/ (i \in available[r] <=> j \in available[r]) /\ i < j

NextInLine(r, i) == \A j \in candidates[r] \ {i} : Before(r, i, j)

(* The loop leaves position i behind. *)
Take(r, i) ==
    /\ candidates' = [candidates EXCEPT ![r] = @ \ {i}]
    /\ available' = [available EXCEPT ![r] = @ \ {i}]

(* Reading the breakers one after the other differs from this one step     *)
(* only in the order it produces, which nothing below relies on.           *)
Submit(r) ==
    /\ pc[r] = "idle"
    /\ pc' = [pc EXCEPT ![r] = "pick"]
    /\ candidates' = [candidates EXCEPT ![r] = DOMAIN Priority]
    /\ available' = [available EXCEPT
         ![r] = {i \in DOMAIN Priority : IsAvailable(breakers[Priority[i]])}]
    /\ UNCHANGED <<breakers, current, permit, sinkStarted, outcome, cancelled,
                   delivered>>

(* Stream returns to its caller: its locals are gone. *)
Return(r) ==
    /\ pc' = [pc EXCEPT ![r] = "idle"]
    /\ candidates' = [candidates EXCEPT ![r] = {}]
    /\ available' = [available EXCEPT ![r] = {}]
    /\ current' = [current EXCEPT ![r] = Nobody]
    /\ sinkStarted' = [sinkStarted EXCEPT ![r] = FALSE]
    /\ outcome' = [outcome EXCEPT ![r] = "none"]
    /\ cancelled' = [cancelled EXCEPT ![r] = FALSE]
    /\ delivered' = [delivered EXCEPT ![r] = {}]

(* The loop moves on to the next candidate. *)
NextCandidate(r) ==
    /\ pc' = [pc EXCEPT ![r] = "pick"]
    /\ current' = [current EXCEPT ![r] = Nobody]
    /\ sinkStarted' = [sinkStarted EXCEPT ![r] = FALSE]
    /\ outcome' = [outcome EXCEPT ![r] = "none"]
    /\ UNCHANGED <<candidates, available, cancelled, delivered>>

(* AllowRequest admits the next candidate. *)
Admit(r) ==
    /\ pc[r] = "pick"
    /\ \E i \in candidates[r] :
          LET c == Priority[i]
          IN  /\ NextInLine(r, i)
              /\ Allowed(breakers[c])
              /\ breakers' = [breakers EXCEPT ![c] = AllowRequest(@)]
              /\ permit' = [permit EXCEPT ![r] = UsesHalfOpenPermit(breakers[c])]
              /\ current' = [current EXCEPT ![r] = c]
              /\ Take(r, i)
    /\ pc' = [pc EXCEPT ![r] = "admitted"]
    /\ UNCHANGED <<sinkStarted, outcome, cancelled, delivered>>

(* A refused candidate is skipped. *)
SkipOpen(r) ==
    /\ pc[r] = "pick"
    /\ \E i \in candidates[r] :
          /\ NextInLine(r, i)
          /\ ~Allowed(breakers[Priority[i]])
          /\ Take(r, i)
    /\ UNCHANGED <<breakers, pc, current, permit, sinkStarted, outcome,
                   cancelled, delivered>>

Exhausted(r) ==
    /\ pc[r] = "pick"
    /\ candidates[r] = {}
    /\ Return(r)
    /\ UNCHANGED <<breakers, permit>>

(* adapterFor does not know the provider type the settings now give the    *)
(* channel: a held probe permit is given back as a failure, and the next   *)
(* candidate is tried.                                                     *)
RejectUnsupported(r) ==
    /\ pc[r] = "admitted"
    /\ current[r] \in Editable
    /\ ~sinkStarted[r]
    /\ breakers' = IF permit[r]
                   THEN [breakers EXCEPT ![current[r]] = RecordFailure(@, TRUE)]
                   ELSE breakers
    /\ permit' = [permit EXCEPT ![r] = FALSE]
    /\ NextCandidate(r)

Streaming(r) == pc[r] = "admitted"

(* The first event reaches the sink; a later one changes nothing here. *)
SinkEvent(r) ==
    /\ Streaming(r)
    /\ ~sinkStarted[r]
    /\ sinkStarted' = [sinkStarted EXCEPT ![r] = TRUE]
    /\ delivered' = [delivered EXCEPT ![r] = @ \cup {current[r]}]
    /\ UNCHANGED <<breakers, pc, candidates, available, current, permit,
                   outcome, cancelled>>

(* The sink refuses an event and the adapter returns that error. *)
SinkFails(r) ==
    /\ Streaming(r)
    /\ sinkStarted' = [sinkStarted EXCEPT ![r] = TRUE]
    /\ outcome' = [outcome EXCEPT ![r] = "sink_error"]
    /\ pc' = [pc EXCEPT ![r] = "record"]
    /\ UNCHANGED <<breakers, candidates, available, current, permit, cancelled,
                   delivered>>

(* The adapter returns: success, an error worth another channel, an error  *)
(* that is not, or an error that wraps a context error.                    *)
StreamEnds(r) ==
    /\ Streaming(r)
    /\ \E o \in {"ok", "retryable", "fatal", "canceled"} :
          outcome' = [outcome EXCEPT ![r] = o]
    /\ pc' = [pc EXCEPT ![r] = "record"]
    /\ UNCHANGED <<breakers, candidates, available, current, permit,
                   sinkStarted, cancelled, delivered>>

isClientSideCancellation(r) == cancelled[r] \/ outcome[r] = "canceled"

(* Faults: the sink's failure forgets the permit; every error is held      *)
(* against the channel.                                                    *)
reportedSinkErrorIgnored(cb, r) ==
    IF outcome[r] = "ok" THEN RecordSuccess(cb, permit[r])
    ELSE IF outcome[r] = "sink_error" THEN cb
    ELSE IF isClientSideCancellation(r) THEN ReleaseHalfOpenPermit(cb, permit[r])
    ELSE RecordFailure(cb, permit[r])

reportedEveryError(cb, r) ==
    IF outcome[r] = "ok" THEN RecordSuccess(cb, permit[r])
    ELSE RecordFailure(cb, permit[r])

(* The breaker is told of the result; a cancelled client and a failed sink *)
(* only give the permit back.                                              *)
reported(cb, r) ==
    IF outcome[r] = "ok" THEN RecordSuccess(cb, permit[r])
    ELSE IF ~isClientSideCancellation(r) /\ outcome[r] # "sink_error"
         THEN RecordFailure(cb, permit[r])
         ELSE ReleaseHalfOpenPermit(cb, permit[r])

Record(r) ==
    /\ pc[r] = "record"
    /\ breakers' = [breakers EXCEPT ![current[r]] = reported(@, r)]
    /\ permit' = [permit EXCEPT ![r] = FALSE]
    /\ pc' = [pc EXCEPT ![r] = "decide"]
    /\ UNCHANGED <<candidates, available, current, sinkStarted, outcome,
                   cancelled, delivered>>

mayFailover(r) ==
    ~sinkStarted[r] /\ ~isClientSideCancellation(r) /\ outcome[r] = "retryable"

Decide(r) ==
    /\ pc[r] = "decide"
    /\ IF mayFailover(r) THEN NextCandidate(r) ELSE Return(r)
    /\ UNCHANGED <<breakers, permit>>

(* The client goes away: noticed wherever ctx.Err() is read next. *)
ClientCancels(r) ==
    /\ pc[r] # "idle"
    /\ ~cancelled[r]
    /\ cancelled' = [cancelled EXCEPT ![r] = TRUE]
    /\ UNCHANGED <<breakers, pc, candidates, available, current, permit,
                   sinkStarted, outcome, delivered>>

(* TimeoutSeconds pass after a breaker opened. *)
CoolDown(c) ==
    /\ breakers[c].state = "open"
    /\ ~breakers[c].cooled
    /\ breakers' = [breakers EXCEPT ![c].cooled = TRUE]
    /\ UNCHANGED <<pc, candidates, available, current, permit, sinkStarted,
                   outcome, cancelled, delivered>>

Walk(r) ==
    \/ Admit(r)
    \/ SkipOpen(r)
    \/ Exhausted(r)
    \/ RejectUnsupported(r)
    \/ StreamEnds(r)
    \/ SinkFails(r)
    \/ Record(r)
    \/ Decide(r)

Next ==
    \/ \E r \in Requests : Submit(r) \/ SinkEvent(r) \/ ClientCancels(r) \/ Walk(r)
    \/ \E c \in Channels : CoolDown(c)

Spec == Init /\ [][Next]_vars

-----------------------------------------------------------------------------
(* A breaker that counts a probe in flight has a request that will give    *)
(* the permit back.  Were it not so, the channel would refuse everybody    *)
(* until a manual reset (router.go, the N-01 and P0-3 release paths).      *)
Holder(r, c) == permit[r] /\ current[r] = c /\ pc[r] \in {"admitted", "record"}

NoLeakedPermit ==
    \A c \in Channels :
       breakers[c].halfOpenInFlight > 0 => \E r \in Requests : Holder(r, c)

(* Only a fault of the provider or of the configuration opens a breaker: a *)
(* client that leaves, or a sink that breaks, never does.                  *)
OnlyProviderFaultsOpen ==
    [][ \A c \in Channels :
          breakers[c].state # "open" /\ breakers'[c].state = "open" =>
             \E r \in Requests :
                /\ current[r] = c
                /\ \/ outcome[r] \in {"retryable", "fatal"} /\ ~cancelled[r]
                   \/ pc[r] = "admitted" /\ c \in Editable /\ permit[r] ]_vars

(* What circuit_breaker.go says of half-open: it lets one probe through at *)
(* a time.                                                                 *)
SingleProbe ==
    \A c \in Channels : Cardinality({r \in Requests : Holder(r, c)}) <= 1
=============================================================================
