---------------------------- MODULE StreamActor -----------------------------
(***************************************************************************)
(* One active request of the forwarder: the actor of actor.go that owns an *)
(* ActiveStream, and everybody who posts to its mailbox -- the goroutine   *)
(* of a provider pass, the client's RPCs, the image goroutines and the     *)
(* stream's timers (internal/backend/forwarder).                           *)
(*                                                                         *)
(* The actor handles one command at a time and every poster has at most    *)
(* one command outstanding, so a handler is one action, enabled when its   *)
(* poster may have posted; a command that is still queued has no effect.   *)
(* An actor that has stopped drops what it is sent.                        *)
(***************************************************************************)
EXTENDS Integers, FiniteSets

CONSTANTS
    Execs,              \* calls of tools the client executes
    Queries,            \* interaction queries whose answer resumes the model
    Plans,              \* create_plan queries, which wait for the user
    Images,             \* GenerateImage calls
    Locals,             \* calls answered on the spot: local tools and
                        \* invocations that cannot be dispatched
    MaxRuns,            \* bound: run intents of the request
    MaxPasses,          \* bound: passes after which the model calls no tool
    MaxDisconnects,     \* bound: disconnections of the client's RunSSE
    MaxFaults           \* bound: history writes that fail

Tools == Execs \cup Queries \cup Plans \cup Images \cup Locals

ASSUME ActorAssumption ==
    /\ {MaxRuns, MaxPasses, MaxDisconnects, MaxFaults} \subseteq Nat
    /\ Execs \cap (Queries \cup Plans \cup Images \cup Locals) = {}
    /\ Queries \cap (Plans \cup Images \cup Locals) = {}
    /\ Plans \cap (Images \cup Locals) = {}
    /\ Images \cap Locals = {}
    /\ {"resume", "orphan"} \cap Execs = {}

VARIABLES
    stream,             \* the ActiveStream, with the goroutines it started:
                        \* provider passes and armed timers
    subagent,           \* the conversation belongs to a child subagent
    connected,          \* a RunSSE reader is subscribed
    orphanCheck,        \* its maybe-orphaned command is on its way
    turn,               \* run intents handled so far
    engaged,            \* the last of them was not a prewarm
    superseded,         \* history: a run found a provider pass active
    calledIn,           \* turn whose history holds the call, 0: none
    results,            \* results of the call in the history
    lost,               \* calls whose result the history refused
    nudged,             \* this turn's history holds the empty-stop reminder
    disconnects, faults \* counters of the bounds

vars == <<stream, subagent, connected, orphanCheck, turn, engaged, superseded,
          calledIn, results, lost, nudged, disconnects, faults>>

Terminal == {"completed", "canceled", "failed"}
Status == {"created", "streaming"} \cup Terminal
Phase == {"idle", "provider_running", "waiting_external", "awaiting_user"}
            \cup Terminal
Action == {"none", "start", "resume"}
Completion == {"none", "resume", "complete"}
TimerKeys == {"resume", "orphan"} \cup Execs

Pass == [id : Nat \ {0}, token : Nat, pc : {"running", "erring", "fallback"},
         cancelled : BOOLEAN]
Timer == [key : TimerKeys, token : Nat \ {0}]

ActiveStream ==
    [status : Status, phase : Phase, active : BOOLEAN,
     token : Nat, passCount : Nat, handle : Nat,
     action : Action, completion : Completion,
     execs : SUBSET Execs, closed : SUBSET Execs,
     interactions : SUBSET (Queries \cup Plans),
     images : SUBSET Images, hadTool : BOOLEAN,
     timerTokens : [TimerKeys -> Nat],
     passes : SUBSET Pass, timers : SUBSET Timer]

(* A closed exec is pending; tokens and cancel functions are those of      *)
(* passes that were begun.                                                 *)
StreamOK(s) ==
    /\ s \in ActiveStream
    /\ s.closed \subseteq s.execs
    /\ s.token <= s.passCount
    /\ s.handle <= s.passCount
    /\ \A p \in s.passes : p.id <= s.passCount

TypeOK ==
    /\ StreamOK(stream)
    /\ {subagent, connected, orphanCheck, engaged, superseded, nudged}
         \subseteq BOOLEAN
    /\ turn \in 0..MaxRuns
    /\ calledIn \in [Tools -> 0..MaxRuns]
    /\ results \in [Tools -> Nat]
    /\ lost \subseteq Tools
    /\ disconnects \in 0..MaxDisconnects
    /\ faults \in 0..MaxFaults

Init ==
    /\ stream = [status |-> "created", phase |-> "idle", active |-> FALSE,
                 token |-> 0, passCount |-> 0, handle |-> 0,
                 action |-> "none", completion |-> "none",
                 execs |-> {}, closed |-> {}, interactions |-> {},
                 images |-> {}, hadTool |-> FALSE,
                 timerTokens |-> [k \in TimerKeys |-> 0],
                 passes |-> {}, timers |-> {}]
    /\ subagent \in BOOLEAN
    /\ connected = TRUE
    /\ orphanCheck = FALSE
    /\ turn = 0
    /\ engaged = FALSE
    /\ superseded = FALSE
    /\ calledIn = [t \in Tools |-> 0]
    /\ results = [t \in Tools |-> 0]
    /\ lost = {}
    /\ nudged = FALSE
    /\ disconnects = 0
    /\ faults = 0

-----------------------------------------------------------------------------
(* The actor has read its last command (shouldStopStreamActor). *)
Stopped(s) == s.status \in Terminal \/ s.phase \in Terminal

(* pendingBridgeCount # 0 *)
Waiting(s) == s.execs \cup s.interactions \cup s.images # {}

AwaitingUser(s) == s.interactions \cap Plans # {}

WaitingPhase(s) ==
    IF AwaitingUser(s) THEN "awaiting_user" ELSE "waiting_external"

(* A history write fails while the bound allows it. *)
Fault == IF faults < MaxFaults THEN BOOLEAN ELSE {FALSE}
Count(fault) == faults' = IF fault THEN faults + 1 ELSE faults

(* Calling the cancel function kept in ProviderCancel. *)
CancelHandle(s) ==
    [s EXCEPT !.handle = 0,
              !.passes = {IF p.id = s.handle THEN [p EXCEPT !.cancelled = TRUE]
                                             ELSE p : p \in @}]

(* failActiveStream, after which the broker has the failed endstream. *)
Failed(s) ==
    [CancelHandle(s) EXCEPT !.completion = "none", !.action = "none",
                            !.active = FALSE, !.phase = "failed",
                            !.status = "failed"]

(* handleCancelIntent and StreamBroker.Cancel. *)
Canceled(s) ==
    [CancelHandle(s) EXCEPT !.completion = "none", !.action = "none",
                            !.active = FALSE, !.phase = "canceled",
                            !.status = "canceled"]

(* A wrong failStreamIfNonTerminal that does not look at the status, and   *)
(* one that leaves the verdict to somebody else.                           *)
failStreamIfNonTerminalUnguarded(s) == Failed(s)
failStreamIfNonTerminalForgotten(s) == s

failStreamIfNonTerminal(s) == IF s.status \in Terminal THEN s ELSE Failed(s)

completeSuccessfulTurn(s, fault) ==
    IF fault THEN failStreamIfNonTerminal(s)
             ELSE [s EXCEPT !.status = "completed", !.phase = "completed"]

scheduleStreamTimer(s, key) ==
    LET token == s.timerTokens[key] + 1
    IN  [s EXCEPT !.timerTokens[key] = token,
                  !.timers = @ \cup {[key |-> key, token |-> token]}]

(* The pass is prepared and its goroutine started; a failing preparation   *)
(* fails the stream.                                                       *)
driveProvider(s, fault) ==
    LET n == s.passCount + 1
        d == [s EXCEPT !.passCount = n, !.token = @ + 1,
                       !.status = "streaming", !.action = "none",
                       !.hadTool = FALSE]
        pass == [id |-> n, token |-> d.token, pc |-> "running",
                 cancelled |-> FALSE]
    IN  IF s.active \/ s.status \in Terminal THEN s
        ELSE IF fault THEN Failed(d)
        ELSE [d EXCEPT !.active = TRUE, !.handle = n,
                       !.phase = "provider_running",
                       !.passes = @ \cup {pass}]

(* What the provider side owes the turn once no call is pending. *)
Proceed(s, fault) ==
    IF s.completion = "complete"
    THEN completeSuccessfulTurn([s EXCEPT !.completion = "none"], fault)
    ELSE IF s.completion = "resume" \/ s.action = "resume"
    THEN scheduleStreamTimer(
             [s EXCEPT !.completion = "none", !.phase = "waiting_external",
                       !.action = IF @ = "start" THEN @ ELSE "resume"],
             "resume")
    ELSE IF s.action = "start" THEN driveProvider(s, fault)
    ELSE [s EXCEPT !.phase = "idle"]

(* What the actor does once a command has changed the stream. Pending      *)
(* images are not looked at here.                                          *)
reconcileStream(s, fault) ==
    IF s.status \in Terminal \/ s.active THEN s
    ELSE IF s.execs \cup s.interactions # {}
    THEN [s EXCEPT !.phase = WaitingPhase(s)]
    ELSE Proceed(s, fault)

(* A wrong requestProviderAction that leaves the action to a later command. *)
requestProviderActionQuiet(s, action, fault) == [s EXCEPT !.action = action]

requestProviderAction(s, action, fault) ==
    reconcileStream(
        [s EXCEPT !.action = IF action = "resume" /\ @ = "start"
                             THEN @ ELSE action], fault)

mergeCompletionDisposition(a, b) ==
    IF "complete" \in {a, b} THEN "complete" ELSE "resume"

rememberPendingProviderCompletion(s, disposition) ==
    [s EXCEPT !.completion = mergeCompletionDisposition(@, disposition)]

-----------------------------------------------------------------------------
(* What a run forgets. Neither ProviderActive, nor the running pass, nor   *)
(* the pending images of an earlier turn are touched.                      *)
resetForRun(s) ==
    [s EXCEPT !.completion = "none", !.action = "none", !.execs = {},
              !.closed = {}, !.interactions = {}, !.token = 0,
              !.hadTool = FALSE, !.phase = "idle",
              !.timerTokens = [k \in TimerKeys |-> 0]]

(* The client starts a turn, or announces it. *)
Run(prewarm) ==
    /\ ~Stopped(stream)
    /\ turn < MaxRuns
    /\ prewarm => turn = 0
    /\ \E fault \in Fault :
          /\ stream' = IF prewarm
                       THEN resetForRun(stream)
                       ELSE requestProviderAction(resetForRun(stream),
                                                  "start", fault)
          /\ Count(fault)
    /\ turn' = turn + 1
    /\ engaged' = ~prewarm
    /\ superseded' = (superseded \/ stream.active)
    /\ nudged' = FALSE
    /\ UNCHANGED <<subagent, connected, orphanCheck, calledIn, results, lost,
                   disconnects>>

(* The user aborts the request. A history failure leaves it running. *)
CancelIntent ==
    /\ ~Stopped(stream)
    /\ stream' = Canceled(stream)
    /\ UNCHANGED <<subagent, connected, orphanCheck, turn, engaged, superseded,
                   calledIn, results, lost, nudged, disconnects, faults>>

-----------------------------------------------------------------------------
(* Commands of a provider pass. Those that bear another token than the     *)
(* stream's are dropped.                                                   *)
Listening(p) == p.token # 0 /\ p.token = stream.token

Called(t) == calledIn[t] = turn

ToolUnbound == stream.passCount < MaxPasses

Dispatch(s, t) ==
    [s EXCEPT !.hadTool = TRUE,
              !.execs = IF t \in Execs THEN @ \cup {t} ELSE @,
              !.interactions = IF t \in Queries \cup Plans
                               THEN @ \cup {t} ELSE @,
              !.images = IF t \in Images THEN @ \cup {t} ELSE @]

(* The model calls a tool. *)
ToolInvocation(p, t) ==
    /\ p.pc = "running"
    /\ ~Stopped(stream)
    /\ Listening(p)
    /\ ToolUnbound
    /\ calledIn[t] = 0
    /\ stream' = Dispatch(stream, t)
    /\ calledIn' = [calledIn EXCEPT ![t] = turn]
    /\ UNCHANGED <<subagent, connected, orphanCheck, turn, engaged, superseded,
                   results, lost, nudged, disconnects, faults>>

(* The call is answered before its handler returns. *)
ImmediateResult(p, t) ==
    /\ p.pc = "running"
    /\ ~Stopped(stream)
    /\ Listening(p)
    /\ ToolUnbound
    /\ calledIn[t] = 0
    /\ stream' = reconcileStream([stream EXCEPT !.hadTool = TRUE], FALSE)
    /\ calledIn' = [calledIn EXCEPT ![t] = turn]
    /\ results' = [results EXCEPT ![t] = @ + 1]
    /\ UNCHANGED <<subagent, connected, orphanCheck, turn, engaged, superseded,
                   lost, nudged, disconnects, faults>>

(* The call cannot be recorded: the handler's error ends the pass. *)
InvocationFails(p) ==
    /\ p.pc = "running"
    /\ ~Stopped(stream)
    /\ Listening(p)
    /\ faults < MaxFaults
    /\ stream' = [stream EXCEPT !.hadTool = TRUE,
                                !.passes = (@ \ {p}) \cup
                                           {[p EXCEPT !.pc = "erring"]}]
    /\ faults' = faults + 1
    /\ UNCHANGED <<subagent, connected, orphanCheck, turn, engaged, superseded,
                   calledIn, results, lost, nudged, disconnects>>

(* A finished pass leaves; its goroutine learns that the actor stopped and *)
(* makes sure of the verdict.                                              *)
Leave(s, p) ==
    [s EXCEPT !.passes = {q \in @ : q.id # p.id} \cup
                         IF Stopped(s) THEN {[p EXCEPT !.pc = "fallback"]}
                                       ELSE {}]

Closed(s) ==
    [s EXCEPT !.active = FALSE, !.action = "none", !.hadTool = FALSE,
              !.handle = IF s.images = {} THEN 0 ELSE @]

TurnHasResult == \E t \in Tools : Called(t) /\ results[t] > 0

EmptyStop(finish) ==
    /\ finish = "empty_stop"
    /\ subagent
    /\ stream.completion = "none"
    /\ TurnHasResult

Resumes(finish) == stream.hadTool \/ finish = "tool_use"

(* handleProviderDoneEvent for a pass that did not fail. *)
Finished(s, finish, fault) ==
    LET d == Closed(s)
    IN  IF fault THEN failStreamIfNonTerminal(d)
        ELSE IF Waiting(d)
        THEN [rememberPendingProviderCompletion(
                  d, IF ~AwaitingUser(d) /\ Resumes(finish)
                     THEN "resume" ELSE "complete")
              EXCEPT !.phase = WaitingPhase(d)]
        ELSE IF EmptyStop(finish)
        THEN IF nudged THEN Failed(d)
                       ELSE requestProviderAction(d, "resume", FALSE)
        ELSE IF d.completion = "resume" \/
                (d.completion = "none" /\ Resumes(finish))
        THEN requestProviderAction([d EXCEPT !.completion = "none"],
                                   "resume", FALSE)
        ELSE completeSuccessfulTurn([d EXCEPT !.completion = "none"], FALSE)

(* The provider's error ends the turn. When the history refuses one of the *)
(* closing entries the stream keeps its status.                            *)
Broken(s, fault) ==
    IF fault THEN [Closed(s) EXCEPT !.phase = "failed"] ELSE Failed(Closed(s))

ProviderDone(p, finish) ==
    /\ p.pc \in {"running", "erring"}
    /\ ~Stopped(stream)
    /\ p.pc = "erring" => finish = "error"
    /\ finish = "tool_use" => stream.hadTool \/ ToolUnbound
    /\ IF Listening(p)
       THEN \E fault \in Fault :
              /\ stream' = Leave(IF finish = "error"
                                 THEN Broken(stream, fault)
                                 ELSE Finished(stream, finish, fault), p)
              /\ nudged' = (nudged \/ (/\ EmptyStop(finish)
                                       /\ ~Waiting(stream)
                                       /\ ~fault))
              /\ Count(fault)
       ELSE stream' = Leave(stream, p) /\ UNCHANGED <<nudged, faults>>
    /\ UNCHANGED <<subagent, connected, orphanCheck, turn, engaged, superseded,
                   calledIn, results, lost, disconnects>>

(* The goroutine finds the actor gone. *)
Interrupted(p) ==
    /\ p.pc \in {"running", "erring"}
    /\ Stopped(stream)
    /\ stream' = Leave(stream, p)
    /\ UNCHANGED <<subagent, connected, orphanCheck, turn, engaged, superseded,
                   calledIn, results, lost, nudged, disconnects, faults>>

Fallback(p) ==
    /\ p.pc = "fallback"
    /\ stream' = failStreamIfNonTerminal(
                     [stream EXCEPT !.passes = @ \ {p}])
    /\ UNCHANGED <<subagent, connected, orphanCheck, turn, engaged, superseded,
                   calledIn, results, lost, nudged, disconnects, faults>>

-----------------------------------------------------------------------------
(* Results of tool calls. The pending entry goes first; when the history   *)
(* then refuses the result, the handler returns before it reconciles.      *)
forgetExecKept(s, e) == s   \* wrong: markExecCompleted without the removal

forgetExec(s, e) == [s EXCEPT !.execs = @ \ {e}, !.closed = @ \ {e}]

(* The result of call t is written, and the handler goes on as s does. *)
Recorded(s, t, fault) ==
    /\ stream' = s
    /\ results' = [results EXCEPT ![t] = IF fault THEN @ ELSE @ + 1]
    /\ lost' = IF fault THEN lost \cup {t} ELSE lost
    /\ Count(fault)
    /\ UNCHANGED <<subagent, connected, orphanCheck, turn, engaged, superseded,
                   calledIn, nudged, disconnects>>

(* The client's result for a pending exec, or its throw. Answers to an     *)
(* exec that is no longer pending change nothing.                          *)
ExecAnswered(e) ==
    /\ ~Stopped(stream)
    /\ e \in stream.execs
    /\ \E fault \in Fault :
          Recorded(IF fault THEN forgetExec(stream, e)
                            ELSE reconcileStream(forgetExec(stream, e), FALSE),
                   e, fault)

(* The client closes the exec's transport without an answer. *)
ExecClosed(e) ==
    /\ ~Stopped(stream)
    /\ e \in stream.execs \ stream.closed
    /\ stream' = scheduleStreamTimer(
                     [stream EXCEPT !.closed = @ \cup {e}], e)
    /\ UNCHANGED <<subagent, connected, orphanCheck, turn, engaged, superseded,
                   calledIn, results, lost, nudged, disconnects, faults>>

QueryAnswered(q) ==
    /\ ~Stopped(stream)
    /\ q \in stream.interactions
    /\ LET s == [stream EXCEPT !.interactions = @ \ {q}]
           t == IF q \in Plans
                THEN rememberPendingProviderCompletion(s, "complete") ELSE s
       IN  \E fault \in Fault :
              Recorded(IF fault THEN s ELSE reconcileStream(t, FALSE),
                       q, fault)

(* An image goroutine posts its result, or its error. The last image calls *)
(* whatever cancel function the stream keeps.                              *)
ImageReady(i) ==
    /\ ~Stopped(stream)
    /\ i \in stream.images
    /\ LET s == [stream EXCEPT !.images = @ \ {i}]
           t == IF s.images = {} THEN CancelHandle(s) ELSE s
           u == rememberPendingProviderCompletion(t, "complete")
       IN  \E fault \in Fault :
              Recorded(IF fault THEN t ELSE reconcileStream(u, FALSE),
                       i, fault)

-----------------------------------------------------------------------------
(* Timers. A timer whose token was replaced or cleared is ignored; one     *)
(* that counts is cleared first. An error of its handler fails the stream. *)
Due(tm) == stream.timerTokens[tm.key] = tm.token

clearStreamTimer(s, tm) ==
    [s EXCEPT !.timers = @ \ {tm}, !.timerTokens[tm.key] = 0]

StaleTimer(tm) ==
    /\ ~Stopped(stream)
    /\ ~Due(tm)
    /\ stream' = [stream EXCEPT !.timers = @ \ {tm}]
    /\ UNCHANGED <<subagent, connected, orphanCheck, turn, engaged, superseded,
                   calledIn, results, lost, nudged, disconnects, faults>>

mayResume(s) == ~s.active /\ s.action = "resume" /\ ~Waiting(s)

ResumeTimer(tm) ==
    /\ ~Stopped(stream)
    /\ tm.key = "resume"
    /\ Due(tm)
    /\ LET s == clearStreamTimer(stream, tm)
       IN  \E fault \in Fault :
              /\ fault => mayResume(s)
              /\ stream' = IF mayResume(s) THEN driveProvider(s, fault) ELSE s
              /\ Count(fault)
    /\ UNCHANGED <<subagent, connected, orphanCheck, turn, engaged, superseded,
                   calledIn, results, lost, nudged, disconnects>>

(* The grace period of a closed exec is over: a synthetic result. *)
RecoveryTimer(tm) ==
    /\ ~Stopped(stream)
    /\ tm.key \in Execs
    /\ Due(tm)
    /\ LET e == tm.key
           s == clearStreamTimer(stream, tm)
           f == forgetExec(s, e)
       IN  IF e \in stream.closed
           THEN \E fault \in Fault :
                   Recorded(IF fault THEN Failed(f)
                                     ELSE reconcileStream(f, FALSE), e, fault)
           ELSE /\ stream' = s
                /\ UNCHANGED <<subagent, connected, orphanCheck, turn, engaged,
                               superseded, calledIn, results, lost, nudged,
                               disconnects, faults>>

OrphanTimer(tm) ==
    /\ ~Stopped(stream)
    /\ tm.key = "orphan"
    /\ Due(tm)
    /\ LET s == clearStreamTimer(stream, tm)
       IN  \E fault \in Fault :
              /\ fault => ~connected
              /\ stream' = IF connected THEN s
                           ELSE IF fault THEN Failed(s) ELSE Canceled(s)
              /\ Count(fault)
    /\ UNCHANGED <<subagent, connected, orphanCheck, turn, engaged, superseded,
                   calledIn, results, lost, nudged, disconnects>>

-----------------------------------------------------------------------------
(* The client's RunSSE connection. After the verdict it concerns the       *)
(* broker alone, see StreamBroker.                                         *)
Disconnect ==
    /\ ~Stopped(stream)
    /\ connected
    /\ disconnects < MaxDisconnects
    /\ connected' = FALSE
    /\ orphanCheck' = TRUE
    /\ disconnects' = disconnects + 1
    /\ UNCHANGED <<stream, subagent, turn, engaged, superseded, calledIn,
                   results, lost, nudged, faults>>

Reconnect ==
    /\ ~Stopped(stream)
    /\ ~connected
    /\ connected' = TRUE
    /\ UNCHANGED <<stream, subagent, orphanCheck, turn, engaged, superseded,
                   calledIn, results, lost, nudged, disconnects, faults>>

(* The command the last reader left behind. *)
MaybeOrphaned ==
    /\ ~Stopped(stream)
    /\ orphanCheck
    /\ orphanCheck' = FALSE
    /\ stream' = IF connected THEN stream
                              ELSE scheduleStreamTimer(stream, "orphan")
    /\ UNCHANGED <<subagent, connected, turn, engaged, superseded, calledIn,
                   results, lost, nudged, disconnects, faults>>

-----------------------------------------------------------------------------
PassEnds ==
    \E p \in stream.passes :
        \/ \E finish \in {"stop", "empty_stop", "tool_use", "error"} :
              ProviderDone(p, finish)
        \/ Interrupted(p)
        \/ Fallback(p)

PassWorks ==
    \E p \in stream.passes :
        \/ \E t \in Tools \ Locals : ToolInvocation(p, t)
        \/ \E t \in Locals : ImmediateResult(p, t)
        \/ InvocationFails(p)

TimerFires ==
    \E tm \in stream.timers :
        \/ StaleTimer(tm)
        \/ ResumeTimer(tm)
        \/ RecoveryTimer(tm)
        \/ OrphanTimer(tm)

Answered ==
    \/ \E e \in Execs : ExecAnswered(e)
    \/ \E q \in Queries \cup Plans : QueryAnswered(q)
    \/ \E i \in Images : ImageReady(i)

Next ==
    \/ \E prewarm \in BOOLEAN : Run(prewarm)
    \/ CancelIntent
    \/ PassWorks
    \/ PassEnds
    \/ Answered
    \/ \E e \in Execs : ExecClosed(e)
    \/ TimerFires
    \/ Disconnect
    \/ Reconnect
    \/ MaybeOrphaned

Spec == Init /\ [][Next]_vars

(* A pass comes to its end, timers fire, and a call that is pending is     *)
(* answered in the end: by the user, the client or the image service.      *)
Fairness == WF_vars(PassEnds) /\ WF_vars(Answered) /\ WF_vars(TimerFires)

FairSpec == Spec /\ Fairness

-----------------------------------------------------------------------------
(* Properties *)

(* The request keeps the promise of TurnContract: a model that goes back   *)
(* to work or a turn that completes leaves no call unanswered, a stale     *)
(* event, a timer or a dying goroutine never changes the verdict that      *)
(* cancel, failure or completion gave. A completed turn may leave images.  *)
Verdict == IF stream.status \in Terminal THEN stream.status ELSE "open"
Asked == {t \in Tools : turn > 0 /\ Called(t)}
AnsweredCalls == {t \in Asked : results[t] > 0}

Contract == INSTANCE TurnContract WITH
    Calls <- Tools,
    Detached <- Images,
    verdict <- Verdict,
    thinking <- stream.active,
    asked <- Asked,
    answered <- AnsweredCalls

KeepsContract == Contract!Spec

(* The recovery timer of a closed exec and the client's late answer, or    *)
(* two timers of the same key, never write two results for one call: the   *)
(* provider rejects a history that holds both.                             *)
OneResultPerCall == \A t \in Tools : results[t] <= 1

(* Two provider passes never run for the same stream, not even when a new  *)
(* run resets the stream's tokens while a pass is still talking.           *)
OnePassAtATime ==
    ~Stopped(stream) => Cardinality({p \in stream.passes :
                                       p.pc \in {"running", "erring"}}) <= 1

(* Neither happens twice, whatever timers, late answers and new runs meet. *)
NothingTwice == OneResultPerCall /\ OnePassAtATime

(* A turn that was engaged, that no second run disturbed and whose results *)
(* the history took always has something coming: a pass the stream listens *)
(* to, a call somebody will answer, or an armed resume timer. A stream     *)
(* whose actor stopped has its verdict, or a pass that will see to it.     *)
Awaited ==
    \/ \E p \in stream.passes : p.pc # "fallback" /\ Listening(p)
    \/ Waiting(stream)
    \/ /\ stream.action = "resume"
       /\ [key |-> "resume", token |-> stream.timerTokens["resume"]]
             \in stream.timers

NeverStranded ==
    /\ ~Stopped(stream) /\ engaged /\ ~superseded /\ lost = {} => Awaited
    /\ Stopped(stream) =>
          \/ stream.status \in Terminal
          \/ \E p \in stream.passes : p.pc = "fallback"

(* Such a turn ends, if the provider's passes end, the timers fire and the *)
(* pending calls are answered.                                             *)
EngagedTurnEnds ==
    (engaged /\ ~superseded /\ lost = {}) ~>
        (stream.status \in Terminal \/ superseded \/ lost # {})

(* The comment in runProviderStream: the goroutine makes sure the stream   *)
(* reaches its end, or else it would stay with ProviderActive set forever. *)
(* A run that arrives while a pass is active breaks this.                  *)
EveryRunEnds == engaged ~> stream.status \in Terminal

(* The comment in handleGenerateImageToolInvocation: pendingBridgeCount    *)
(* makes the turn wait for the image.                                      *)
NoImageAbandoned == stream.status = "completed" => stream.images = {}

(* The comment in handleImageResult: the cancel function called for the    *)
(* last image has no listener.                                             *)
NoLivePassCancelled ==
    ~Stopped(stream) =>
        \A p \in stream.passes : p.pc = "running" => ~p.cancelled
=============================================================================
