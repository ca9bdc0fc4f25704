-------------------------- MODULE StreamActorProofs --------------------------
(***************************************************************************)
(* Theorems about StreamActor for any tools and any bounds: its types, one *)
(* result per call and one pass at a time, an undisturbed turn that always *)
(* has something coming, and the promise of TurnContract.                  *)
(***************************************************************************)
EXTENDS StreamActor, FiniteSetTheorems, TLAPS

Live(p) == p.pc \in {"running", "erring"}

(* While the actor lives, a live pass is the only one, and the stream knows *)
(* that a pass is active; an action to start one waits only for that pass. *)
OnePass(s) ==
    \A p \in s.passes :
        Live(p) => s.active /\ \A q \in s.passes : Live(q) => q = p

StartWaits(s) == s.action = "start" => s.active

Pending(s) == s.execs \cup s.interactions \cup s.images

(* An actor without a verdict leaves a pass behind that will see to it; a  *)
(* completed turn has nothing pending but images.                          *)
StreamInv(s) ==
    /\ StreamOK(s)
    /\ ~Stopped(s) => OnePass(s)
    /\ StartWaits(s)
    /\ Stopped(s) => \/ s.status \in Terminal
                     \/ \E p \in s.passes : p.pc = "fallback"
    /\ s.status = "completed" => ~s.active /\ Pending(s) \subseteq Images

(* A call is made in a turn that has begun, and a pending call has no      *)
(* result: it gets its one result when it stops being pending.             *)
CallInv ==
    /\ \A t \in Tools : /\ calledIn[t] <= turn
                        /\ calledIn[t] = 0 => results[t] = 0
                        /\ results[t] <= 1
    /\ \A t \in Pending(stream) : calledIn[t] # 0 /\ results[t] = 0
    /\ turn = 0 => stream.passes = {} /\ stream.action = "none"

(* A call of the current turn is pending, answered or lost.                *)
SettledInv ==
    \A t \in Tools :
        calledIn[t] # 0 /\ calledIn[t] = turn =>
            t \in Pending(stream) \/ results[t] > 0 \/ t \in lost

(* What an undisturbed turn is waiting for: the pass the stream listens to; *)
(* without one, a pending call after which the turn is known to go on or   *)
(* to end; without any, the resume timer.                                  *)
Heard(s) == \E p \in s.passes : Live(p) /\ p.token # 0 /\ p.token = s.token

ResumeArmed(s) ==
    /\ s.action = "resume"
    /\ [key |-> "resume", token |-> s.timerTokens["resume"]] \in s.timers

Coming(s) ==
    IF s.active THEN Heard(s)
    ELSE \/ Pending(s) # {} /\ (s.completion # "none" \/ s.action # "none")
         \/ ResumeArmed(s)

ComingInv ==
    ~Stopped(stream) /\ engaged /\ ~superseded /\ lost = {} => Coming(stream)

ActorInv ==
    TypeOK /\ StreamInv(stream) /\ CallInv /\ SettledInv /\ ComingInv

-----------------------------------------------------------------------------
(* What the handlers' building blocks do to the stream.                    *)

(* The calls the stream waits for stay what they are.                      *)
Kept(s, r) ==
    /\ r.execs = s.execs
    /\ r.closed = s.closed
    /\ r.interactions = s.interactions
    /\ r.images = s.images

SamePasses(s, r) ==
    /\ r.passes = s.passes /\ r.passCount = s.passCount
    /\ r.token = s.token /\ r.active = s.active

(* A stream that is given up: by failure or by cancel.                     *)
Ended(s, r) ==
    /\ Kept(s, r)
    /\ r.status \in {"failed", "canceled"}
    /\ ~r.active
    /\ r.action = "none"

(* The cancel function of a pass changes no more than that pass.           *)
LEMMA HandleCancelled ==
    ASSUME NEW s, StreamOK(s)
    PROVE  LET r == CancelHandle(s) IN
           /\ StreamOK(r)
           /\ Kept(s, r)
           /\ r.passCount = s.passCount
           /\ r.token = s.token /\ r.active = s.active
           /\ r.action = s.action /\ r.completion = s.completion
           /\ r.status = s.status /\ r.phase = s.phase
           /\ r.timers = s.timers /\ r.timerTokens = s.timerTokens
           /\ OnePass(s) => OnePass(r)
           /\ Heard(s) => Heard(r)
           /\ s.passes = {} => r.passes = {}
<1> DEFINE cut(p) == IF p.id = s.handle THEN [p EXCEPT !.cancelled = TRUE] ELSE p
           r == CancelHandle(s)
<1>1. /\ r.passes = {cut(p) : p \in s.passes}
      /\ r = [s EXCEPT !.handle = 0, !.passes = {cut(p) : p \in s.passes}]
  BY DEF CancelHandle, StreamOK, ActiveStream
<1>2. \A p \in s.passes : /\ cut(p) \in Pass
                         /\ cut(p).id = p.id /\ cut(p).token = p.token
                         /\ cut(p).pc = p.pc
  BY DEF StreamOK, ActiveStream, Pass
<1> HIDE DEF cut, r
<1>3. StreamOK(r) /\ Kept(s, r)
  <2> DEFINE P == {cut(p) : p \in s.passes}
  <2>1. P \in SUBSET Pass /\ \A p \in P : p.id <= s.passCount
    BY <1>2 DEF StreamOK
  <2>2. r = [s EXCEPT !.handle = 0, !.passes = P]
    BY <1>1
  <2> HIDE DEF P, r
  <2>3. r \in ActiveStream
    BY <2>1, <2>2, ZenonT(30) DEF StreamOK, ActiveStream
  <2> QED
    BY <2>1, <2>2, <2>3 DEF StreamOK, ActiveStream, Kept
<1>4. OnePass(s) => OnePass(r)
  BY <1>1, <1>2 DEF OnePass, Live, StreamOK, ActiveStream
<1>5. Heard(s) => Heard(r)
  BY <1>1, <1>2 DEF Heard, Live, StreamOK, ActiveStream
<1> QED
  BY <1>1, <1>3, <1>4, <1>5 DEF StreamOK, ActiveStream, r

LEMMA FailedEnds ==
    ASSUME NEW s, StreamOK(s)
    PROVE  LET r == Failed(s) IN
           /\ StreamOK(r) /\ Ended(s, r)
           /\ r.status = "failed"
           /\ r.passCount = s.passCount
           /\ s.passes = {} => r.passes = {}
<1> DEFINE c == CancelHandle(s)
<1>1. /\ StreamOK(c) /\ Kept(s, c) /\ c.passCount = s.passCount
      /\ s.passes = {} => c.passes = {}
  BY HandleCancelled
<1>2. Failed(s) = [c EXCEPT !.completion = "none", !.action = "none", !.active = FALSE,
                  !.phase = "failed", !.status = "failed"]
  BY DEF Failed
<1> HIDE DEF c
<1>3. Failed(s) \in ActiveStream
  BY <1>1, <1>2 DEF StreamOK, ActiveStream, Status, Phase, Action, Completion, Terminal
<1> QED
  BY <1>1, <1>2, <1>3 DEF StreamOK, ActiveStream, Ended, Kept

LEMMA CanceledEnds ==
    ASSUME NEW s, StreamOK(s)
    PROVE  LET r == Canceled(s) IN
           /\ StreamOK(r) /\ Ended(s, r)
           /\ r.status = "canceled"
           /\ r.passCount = s.passCount
           /\ s.passes = {} => r.passes = {}
<1> DEFINE c == CancelHandle(s)
<1>1. /\ StreamOK(c) /\ Kept(s, c) /\ c.passCount = s.passCount
      /\ s.passes = {} => c.passes = {}
  BY HandleCancelled
<1>2. Canceled(s) = [c EXCEPT !.completion = "none", !.action = "none", !.active = FALSE,
                  !.phase = "canceled", !.status = "canceled"]
  BY DEF Canceled
<1> HIDE DEF c
<1>3. Canceled(s) \in ActiveStream
  BY <1>1, <1>2 DEF StreamOK, ActiveStream, Status, Phase, Action, Completion, Terminal
<1> QED
  BY <1>1, <1>2, <1>3 DEF StreamOK, ActiveStream, Ended, Kept

(* A timer is armed under a token of its own.                              *)
LEMMA TimerScheduled ==
    ASSUME NEW s, StreamOK(s), NEW key \in TimerKeys
    PROVE  LET r == scheduleStreamTimer(s, key) IN
           /\ StreamOK(r) /\ Kept(s, r) /\ SamePasses(s, r)
           /\ r.action = s.action /\ r.completion = s.completion
           /\ r.status = s.status /\ r.phase = s.phase
           /\ [key |-> key, token |-> r.timerTokens[key]] \in r.timers
           /\ s.timers \subseteq r.timers
           /\ \A k \in TimerKeys \ {key} : r.timerTokens[k] = s.timerTokens[k]
<1> DEFINE token == s.timerTokens[key] + 1
           T == s.timers \cup {[key |-> key, token |-> token]}
<1>1. token \in Nat \ {0} /\ T \in SUBSET Timer
  BY DEF StreamOK, ActiveStream, Timer
<1>2. scheduleStreamTimer(s, key) = [s EXCEPT !.timerTokens[key] = token, !.timers = T]
  BY DEF scheduleStreamTimer
<1>3. [key |-> key, token |-> token] \in T /\ s.timers \subseteq T
  OBVIOUS
<1> HIDE DEF token, T
<1>4. scheduleStreamTimer(s, key) \in ActiveStream
  <2>1. [s.timerTokens EXCEPT ![key] = token] \in [TimerKeys -> Nat]
    BY <1>1 DEF StreamOK, ActiveStream
  <2> QED
    BY <1>1, <1>2, <2>1, ZenonT(30) DEF StreamOK, ActiveStream
<1> QED
  BY <1>1, <1>2, <1>3, <1>4 DEF StreamOK, ActiveStream, Kept, SamePasses

LEMMA TimerCleared ==
    ASSUME NEW s, StreamOK(s), NEW tm \in s.timers
    PROVE  LET r == clearStreamTimer(s, tm) IN
           /\ StreamOK(r) /\ Kept(s, r) /\ SamePasses(s, r)
           /\ r.action = s.action /\ r.completion = s.completion
           /\ r.status = s.status /\ r.phase = s.phase
           /\ tm.key \in TimerKeys
           /\ tm.key # "resume" /\ ResumeArmed(s) => ResumeArmed(r)
<1> DEFINE T == s.timers \ {tm}
<1>1. tm.key \in TimerKeys /\ T \in SUBSET Timer
  BY DEF StreamOK, ActiveStream, Timer
<1>2. clearStreamTimer(s, tm) = [s EXCEPT !.timers = T, !.timerTokens[tm.key] = 0]
  BY DEF clearStreamTimer
<1>3. \A k, n : tm.key # k /\ [key |-> k, token |-> n] \in s.timers
                  => [key |-> k, token |-> n] \in T
  OBVIOUS
<1>4. "resume" \in TimerKeys
  BY DEF TimerKeys
<1> HIDE DEF T
<1>5. clearStreamTimer(s, tm) \in ActiveStream
  <2>1. [s.timerTokens EXCEPT ![tm.key] = 0] \in [TimerKeys -> Nat]
    BY <1>1 DEF StreamOK, ActiveStream
  <2> QED
    BY <1>1, <1>2, <2>1, ZenonT(30) DEF StreamOK, ActiveStream
<1> QED
  BY <1>1, <1>2, <1>3, <1>4, <1>5 DEF StreamOK, ActiveStream, Kept, SamePasses, ResumeArmed

(* A pass is driven: it fails at once, or is the pass the stream hears.    *)
LEMMA ProviderDriven ==
    ASSUME NEW s, StreamOK(s), ~Stopped(s), ~s.active, OnePass(s), NEW fault \in BOOLEAN
    PROVE  LET r == driveProvider(s, fault) IN
           /\ StreamOK(r) /\ Kept(s, r)
           /\ fault => Ended(s, r) /\ r.status = "failed"
           /\ ~fault => /\ r.active /\ r.action = "none" /\ Heard(r) /\ OnePass(r)
                       /\ r.status = "streaming" /\ ~Stopped(r)
<1> DEFINE n == s.passCount + 1
           d == [s EXCEPT !.passCount = n, !.token = @ + 1, !.status = "streaming",
                          !.action = "none", !.hadTool = FALSE]
           pass == [id |-> n, token |-> d.token, pc |-> "running", cancelled |-> FALSE]
           e == [d EXCEPT !.active = TRUE, !.handle = n, !.phase = "provider_running",
                          !.passes = @ \cup {pass}]
<1>1. driveProvider(s, fault) = IF fault THEN Failed(d) ELSE e
  BY DEF driveProvider, Stopped
<1>2. StreamOK(d) /\ Kept(s, d) /\ d.token = s.token + 1 /\ d.passCount = n
      /\ d.action = "none" /\ d.status = "streaming" /\ d.passes = s.passes
  <2>1. n \in Nat /\ s.token + 1 \in Nat /\ s.token + 1 <= n /\ s.handle <= n
        /\ \A p \in s.passes : p.id <= n
    BY DEF StreamOK, ActiveStream, Pass
  <2> HIDE DEF n
  <2>2. d \in ActiveStream
    BY <2>1, ZenonT(30) DEF StreamOK, ActiveStream, Status, Action
  <2> QED
    BY <2>1, <2>2 DEF StreamOK, ActiveStream, Kept
<1> HIDE DEF d
<1>3. CASE fault
  BY <1>1, <1>2, <1>3, FailedEnds DEF Ended, Kept
<1>4. CASE ~fault
  <2>1. pass \in Pass /\ pass.token # 0 /\ pass.pc = "running" /\ pass.id = n
    BY <1>2 DEF StreamOK, ActiveStream, Pass
  <2>2. /\ e.passes = s.passes \cup {pass} /\ e.token = pass.token
        /\ e.active /\ e.action = "none" /\ e.status = "streaming"
        /\ e.phase = "provider_running"
    BY <1>2 DEF StreamOK, ActiveStream
  <2>3. StreamOK(e) /\ Kept(s, e)
    <3> DEFINE P == d.passes \cup {pass}
    <3>1. P \in SUBSET Pass /\ \A p \in P : p.id <= n
      <4>1. d.passes \in SUBSET Pass /\ \A p \in d.passes : p.id <= n
        BY <1>2 DEF StreamOK, ActiveStream
      <4>2. n <= n
        BY DEF StreamOK, ActiveStream
      <4> HIDE DEF n, pass
      <4> QED
        BY <2>1, <4>1, <4>2
    <3>2. e = [d EXCEPT !.active = TRUE, !.handle = n, !.phase = "provider_running",
                        !.passes = P]
      OBVIOUS
    <3>3. n \in Nat
      BY DEF StreamOK, ActiveStream
    <3> HIDE DEF P, pass, n, e
    <3>4. e \in ActiveStream
      BY <1>2, <3>1, <3>2, <3>3 DEF StreamOK, ActiveStream, Phase
    <3> QED
      BY <1>2, <3>1, <3>2, <3>3, <3>4 DEF StreamOK, ActiveStream, Kept
  <2>4. \A p \in s.passes : ~Live(p)
    BY DEF OnePass
  <2> HIDE DEF pass, e
  <2>5. OnePass(e) /\ Heard(e)
    BY <2>1, <2>2, <2>4 DEF OnePass, Heard, Live
  <2> QED
    BY <1>1, <1>4, <2>2, <2>3, <2>5 DEF Stopped, Terminal, Status
<1> QED
  BY <1>3, <1>4

(* What the actor does once a command has changed the stream. It may       *)
(* complete the turn, when no call but an image is pending.                *)
Completes(s, r) ==
    /\ r.status = "completed"
    /\ ~r.active
    /\ s.execs \cup s.interactions = {}

LEMMA StreamReconciled ==
    ASSUME NEW s, StreamOK(s), ~Stopped(s), StartWaits(s)
    PROVE  LET r == reconcileStream(s, FALSE) IN
           /\ StreamOK(r) /\ Kept(s, r) /\ SamePasses(s, r)
           /\ StartWaits(r)
           /\ Stopped(r) => r.status \in Terminal
           /\ r.status \in Terminal => Completes(s, r)
           /\ s.active => r = s
           /\ s.action = "none" /\ s.completion = "none" => r.action = "none"
           /\ s.completion # "none" \/ s.action # "none" => Stopped(r) \/ s.active \/ Coming(r)
<1> DEFINE r == reconcileStream(s, FALSE)
<1>1. CASE s.active
  BY <1>1 DEF reconcileStream, Kept, SamePasses, Stopped
<1>2. CASE ~s.active /\ s.execs \cup s.interactions # {}
  <2>1. r = [s EXCEPT !.phase = WaitingPhase(s)]
    BY <1>2 DEF reconcileStream, Stopped
  <2>2. WaitingPhase(s) \in {"awaiting_user", "waiting_external"}
    BY DEF WaitingPhase
  <2> QED
    BY <1>2, <2>1, <2>2 DEF StreamOK, ActiveStream, Phase, Kept, SamePasses, StartWaits,
         Stopped, Terminal, Coming, Pending
<1>3. CASE ~s.active /\ s.execs \cup s.interactions = {} /\ s.completion = "complete"
  <2>1. r = [s EXCEPT !.completion = "none", !.status = "completed", !.phase = "completed"]
    BY <1>3 DEF reconcileStream, Stopped, Proceed, completeSuccessfulTurn, StreamOK, ActiveStream
  <2> QED
    BY <1>3, <2>1 DEF StreamOK, ActiveStream, Phase, Status, Completion, Kept, SamePasses,
         StartWaits, Stopped, Terminal, Completes
<1>4. CASE /\ ~s.active /\ s.execs \cup s.interactions = {}
           /\ s.completion # "complete"
           /\ s.completion = "resume" \/ s.action = "resume"
  <2> DEFINE d == [s EXCEPT !.completion = "none", !.phase = "waiting_external",
                            !.action = "resume"]
  <2>1. r = scheduleStreamTimer(d, "resume")
    BY <1>4 DEF reconcileStream, Stopped, Proceed, StartWaits, StreamOK, ActiveStream
  <2>2. StreamOK(d) /\ Kept(s, d) /\ SamePasses(s, d) /\ d.action = "resume"
        /\ d.phase = "waiting_external" /\ d.status = s.status
    BY DEF StreamOK, ActiveStream, Phase, Completion, Action, Kept, SamePasses
  <2> HIDE DEF d
  <2> QED
    <3>1. StreamOK(r) /\ Kept(d, r) /\ SamePasses(d, r) /\ r.action = "resume"
          /\ r.phase = "waiting_external" /\ r.status = s.status
          /\ [key |-> "resume", token |-> r.timerTokens["resume"]] \in r.timers
      <4>1. "resume" \in TimerKeys
        BY DEF TimerKeys
      <4> HIDE DEF r
      <4> QED
        BY <2>1, <2>2, <4>1, TimerScheduled
    <3> HIDE DEF r
    <3>2. Kept(s, r) /\ SamePasses(s, r)
      BY <2>2, <3>1 DEF Kept, SamePasses
    <3>3. ResumeArmed(r) /\ ~r.active
      BY <1>4, <3>1, <3>2 DEF ResumeArmed, SamePasses
    <3>4. ~Stopped(r) /\ StartWaits(r) /\ Coming(r)
      BY <3>1, <3>3 DEF Stopped, Terminal, StartWaits, Coming
    <3> QED
      BY <1>4, <3>1, <3>2, <3>4 DEF Stopped, r
<1>5. CASE /\ ~s.active /\ s.execs \cup s.interactions = {}
           /\ s.completion = "none" /\ s.action = "none"
  <2>1. r = [s EXCEPT !.phase = "idle"]
    BY <1>5 DEF reconcileStream, Stopped, Proceed
  <2> QED
    BY <1>5, <2>1 DEF StreamOK, ActiveStream, Phase, Kept, SamePasses, StartWaits, Stopped, Terminal
<1> QED
  BY <1>1, <1>2, <1>3, <1>4, <1>5 DEF StreamOK, ActiveStream, StartWaits, Action, Completion

-----------------------------------------------------------------------------
(* The steps. Each keeps ActorInv; and one that puts the model back to work *)
(* begins a turn, or finds no call pending.                                *)
BackToWork == ~stream.active /\ stream'.active => turn' # turn \/ Pending(stream') = {}

LEMMA ToolsApart ==
    /\ Tools = Execs \cup Queries \cup Plans \cup Images \cup Locals
    /\ \A t \in Execs : t \notin Queries \cup Plans \cup Images /\ t # "resume" /\ t # "orphan"
    /\ \A t \in Queries \cup Plans : t \notin Execs \cup Images
    /\ \A t \in Images : t \notin Execs \cup Queries \cup Plans
    /\ TimerKeys = {"resume", "orphan"} \cup Execs
BY ActorAssumption DEF Tools, TimerKeys

LEMMA PendingAreTools ==
    ASSUME NEW s, StreamOK(s)
    PROVE  Pending(s) \subseteq Tools
BY ToolsApart DEF Pending, StreamOK, ActiveStream

(* A stream that is given up keeps what it must.                           *)
LEMMA EndedKeeps ==
    ASSUME NEW s, NEW r, StreamOK(r), Ended(s, r)
    PROVE  StreamInv(r) /\ Stopped(r) /\ Pending(r) = Pending(s)
BY DEF Ended, StreamInv, Stopped, Terminal, StartWaits, Kept, Pending

(* What the small counters and flags of a step may become.                 *)
RestOK ==
    /\ {subagent, connected, orphanCheck, nudged} \subseteq BOOLEAN
    /\ disconnects \in 0..MaxDisconnects
    /\ faults \in 0..MaxFaults

LEMMA FaultCounted ==
    ASSUME TypeOK, NEW fault \in Fault, Count(fault)
    PROVE  faults' \in 0..MaxFaults /\ fault \in BOOLEAN
<1>1. fault \in BOOLEAN /\ (fault => faults < MaxFaults)
  BY DEF Fault
<1>2. MaxFaults \in Nat /\ faults \in 0..MaxFaults
  BY ActorAssumption DEF TypeOK
<1>3. CASE fault
  BY <1>1, <1>2, <1>3 DEF Count
<1>4. CASE ~fault
  BY <1>1, <1>2, <1>4 DEF Count
<1> QED
  BY <1>1, <1>3, <1>4

(* A step that neither makes nor answers a call.                           *)
LEMMA QuietStep ==
    ASSUME ActorInv, RestOK',
           UNCHANGED <<turn, engaged, superseded, calledIn, results, lost>>,
           StreamInv(stream'), Pending(stream') = Pending(stream),
           turn = 0 => stream'.passes = {} /\ stream'.action = "none",
           \/ Stopped(stream')
           \/ ~Stopped(stream) /\ (Coming(stream) => Coming(stream'))
    PROVE  ActorInv'
<1>1. TypeOK'
  BY DEF ActorInv, TypeOK, RestOK, StreamInv
<1>2. CallInv' /\ SettledInv'
  BY DEF ActorInv, CallInv, SettledInv
<1>3. ComingInv'
  BY DEF ActorInv, ComingInv
<1> QED
  BY <1>1, <1>2, <1>3 DEF ActorInv

(* A step by which call t is no longer pending: its result is written, or  *)
(* the history refuses it.                                                 *)
LEMMA RecordedStep ==
    ASSUME ActorInv, ~Stopped(stream), NEW t \in Pending(stream), NEW s,
           NEW fault \in Fault, Recorded(s, t, fault),
           StreamInv(s), Pending(s) = Pending(stream) \ {t}, s.active => stream.active,
           ~fault => Stopped(s) \/ (Coming(stream) => Coming(s))
    PROVE  ActorInv' /\ BackToWork
<1>1. /\ t \in Tools /\ results[t] = 0 /\ calledIn[t] # 0 /\ turn # 0
      /\ stream' = s
      /\ UNCHANGED <<subagent, connected, orphanCheck, turn, engaged, superseded, calledIn,
                     nudged, disconnects>>
      /\ results' = [results EXCEPT ![t] = IF fault THEN @ ELSE @ + 1]
      /\ lost' = IF fault THEN lost \cup {t} ELSE lost
  BY PendingAreTools DEF ActorInv, CallInv, StreamInv, Recorded, TypeOK
<1>2. faults' \in 0..MaxFaults /\ fault \in BOOLEAN
  BY FaultCounted DEF Recorded, ActorInv
<1>3. TypeOK'
  BY <1>1, <1>2 DEF ActorInv, TypeOK, StreamInv
<1>4. \A u \in Tools : results'[u] = IF u = t /\ ~fault THEN 1 ELSE results[u]
  BY <1>1, <1>2 DEF ActorInv, TypeOK
<1>5. CallInv'
  BY <1>1, <1>4, PendingAreTools DEF ActorInv, CallInv, StreamInv
<1>6. SettledInv'
  BY <1>1, <1>2, <1>4 DEF ActorInv, SettledInv
<1>7. ComingInv'
  BY <1>1, <1>2 DEF ActorInv, ComingInv
<1> QED
  BY <1>1, <1>3, <1>5, <1>6, <1>7 DEF ActorInv, StreamInv, BackToWork

(* The client starts a turn: the pass it needs is driven at once, unless   *)
(* another one is active.                                                  *)
LEMMA RunKeeps ==
    ASSUME ActorInv, NEW prewarm \in BOOLEAN, Run(prewarm)
    PROVE  ActorInv' /\ BackToWork
<1> DEFINE s == resetForRun(stream)
           d == [s EXCEPT !.action = "start"]
<1>1. PICK fault \in Fault :
        /\ stream' = IF prewarm THEN s ELSE requestProviderAction(s, "start", fault)
        /\ Count(fault)
  BY DEF Run
<1>2. faults' \in 0..MaxFaults /\ fault \in BOOLEAN
  BY <1>1, FaultCounted DEF ActorInv
<1>3. /\ ~Stopped(stream) /\ turn < MaxRuns /\ turn' = turn + 1
      /\ engaged' = ~prewarm /\ superseded' = (superseded \/ stream.active)
      /\ nudged' = FALSE
      /\ UNCHANGED <<subagent, connected, orphanCheck, calledIn, results, lost, disconnects>>
  BY DEF Run
<1>4. /\ StreamOK(s) /\ s.passes = stream.passes /\ s.active = stream.active
      /\ s.images = stream.images /\ s.execs = {} /\ s.interactions = {}
      /\ s.action = "none" /\ s.completion = "none"
      /\ s.status = stream.status /\ s.phase = "idle"
  <2>1. [k \in TimerKeys |-> 0] \in [TimerKeys -> Nat]
    OBVIOUS
  <2>2. s \in ActiveStream
    BY <2>1, ZenonT(30) DEF resetForRun, ActorInv, TypeOK, StreamOK, ActiveStream, Completion,
         Action, Phase
  <2>3. /\ s.passes = stream.passes /\ s.active = stream.active
        /\ s.images = stream.images /\ s.execs = {} /\ s.interactions = {}
        /\ s.closed = {} /\ s.token = 0 /\ s.passCount = stream.passCount
        /\ s.handle = stream.handle
        /\ s.action = "none" /\ s.completion = "none"
        /\ s.status = stream.status /\ s.phase = "idle"
    BY DEF resetForRun, ActorInv, TypeOK, StreamOK, ActiveStream
  <2> HIDE DEF s
  <2> QED
    BY <2>2, <2>3 DEF ActorInv, TypeOK, StreamOK, ActiveStream
<1> HIDE DEF s
<1>5. /\ StreamOK(d) /\ d.passes = stream.passes /\ d.active = stream.active
      /\ d.images = stream.images /\ d.execs = {} /\ d.interactions = {}
      /\ d.action = "start" /\ d.completion = "none"
      /\ d.status = stream.status /\ d.phase = "idle"
  BY <1>4 DEF StreamOK, ActiveStream, Action
<1>0. \A f : requestProviderAction(s, "start", f) = reconcileStream(d, f)
  BY DEF requestProviderAction
<1> HIDE DEF d
<1>6. OnePass(s) /\ OnePass(d) /\ ~Stopped(s) /\ ~Stopped(d)
  BY <1>3, <1>4, <1>5 DEF ActorInv, StreamInv, OnePass, Stopped, Terminal
<1>7. Pending(s) \subseteq Pending(stream) /\ Pending(d) \subseteq Pending(stream)
  BY <1>4, <1>5 DEF Pending
<1>8. ASSUME StreamInv(stream'), Pending(stream') \subseteq Pending(stream)
      PROVE  TypeOK' /\ CallInv' /\ SettledInv'
  <2>1. turn' \in 0..MaxRuns /\ turn' # 0 /\ \A t \in Tools : calledIn[t] < turn'
    BY <1>3, ActorAssumption DEF ActorInv, TypeOK, CallInv
  <2>2. TypeOK'
    BY <1>2, <1>3, <1>8, <2>1 DEF ActorInv, TypeOK, StreamInv
  <2>3. CallInv'
    BY <1>3, <1>8, <2>1 DEF ActorInv, CallInv, TypeOK
  <2>4. SettledInv'
    BY <1>3, <2>1 DEF SettledInv, ActorInv, TypeOK
  <2> QED
    BY <2>2, <2>3, <2>4
<1>9. CASE prewarm
  <2>1. stream' = s
    BY <1>1, <1>9
  <2>2. StreamInv(s)
    BY <1>4, <1>6, <1>3 DEF StreamInv, StartWaits, Stopped, Terminal
  <2> QED
    BY <1>3, <1>4, <1>7, <1>8, <1>9, <2>1, <2>2 DEF ActorInv, ComingInv, BackToWork
<1>10. CASE ~prewarm /\ stream.active
  <2>1. stream' = d
    BY <1>0, <1>1, <1>5, <1>10 DEF reconcileStream
  <2>2. StreamInv(d)
    BY <1>5, <1>6, <1>3, <1>10 DEF StreamInv, StartWaits, Stopped, Terminal
  <2> QED
    BY <1>3, <1>7, <1>8, <1>10, <2>1, <2>2 DEF ActorInv, ComingInv, BackToWork
<1>11. CASE ~prewarm /\ ~stream.active
  <2>1. stream' = driveProvider(d, fault)
    <3>1. stream' = reconcileStream(d, fault)
      BY <1>0, <1>1, <1>11
    <3>2. d.status \notin Terminal
      BY <1>6 DEF Stopped
    <3> QED
      BY <1>5, <1>11, <3>1, <3>2 DEF reconcileStream, Proceed
  <2>2. /\ StreamOK(stream') /\ Kept(d, stream')
        /\ fault => Ended(d, stream')
        /\ ~fault => /\ stream'.active /\ stream'.action = "none" /\ Heard(stream')
                    /\ OnePass(stream') /\ stream'.status = "streaming" /\ ~Stopped(stream')
    BY <1>2, <1>5, <1>6, <1>11, <2>1, ProviderDriven
  <2>3. StreamInv(stream') /\ Pending(stream') = Pending(d)
    <3>1. CASE fault
      BY <2>2, <3>1, EndedKeeps
    <3>2. CASE ~fault
      BY <2>2, <3>2 DEF StreamInv, StartWaits, Kept, Pending
    <3> QED
      BY <1>2, <3>1, <3>2
  <2>4. Stopped(stream') \/ Coming(stream')
    BY <1>2, <2>2, EndedKeeps DEF Coming
  <2>5. ComingInv'
    BY <2>4 DEF ComingInv, Stopped, Coming, Pending, ResumeArmed, Heard, Live
  <2>6. turn' # turn
    BY <1>3 DEF ActorInv, TypeOK
  <2> QED
    BY <1>7, <1>8, <2>3, <2>5, <2>6 DEF ActorInv, BackToWork
<1> QED
  BY <1>9, <1>10, <1>11

LEMMA CancelIntentKeeps ==
    ASSUME ActorInv, CancelIntent
    PROVE  ActorInv' /\ BackToWork
<1>1. /\ stream' = Canceled(stream)
      /\ UNCHANGED <<subagent, connected, orphanCheck, turn, engaged, superseded, calledIn,
                     results, lost, nudged, disconnects, faults>>
  BY DEF CancelIntent
<1>2. StreamOK(stream)
  BY DEF ActorInv, StreamInv
<1>3. /\ StreamOK(stream') /\ Ended(stream, stream')
      /\ stream.passes = {} => stream'.passes = {}
  BY <1>1, <1>2, CanceledEnds
<1>4. RestOK'
  BY <1>1 DEF ActorInv, TypeOK, RestOK
<1>5. StreamInv(stream') /\ Stopped(stream') /\ Pending(stream') = Pending(stream)
  BY <1>3, EndedKeeps
<1> QED
  BY <1>1, <1>3, <1>4, <1>5, QuietStep DEF Ended, ActorInv, CallInv, BackToWork

-----------------------------------------------------------------------------
(* A pass that is heard is the one the stream takes for active.            *)
LEMMA LivePass ==
    ASSUME ActorInv, NEW p \in stream.passes, Live(p), ~Stopped(stream)
    PROVE  /\ stream.active /\ turn # 0
           /\ p \in Pass /\ p.id <= stream.passCount
           /\ \A q \in stream.passes : Live(q) => q = p
BY DEF ActorInv, StreamInv, OnePass, CallInv, StreamOK, ActiveStream

LEMMA ToolInvocationKeeps ==
    ASSUME ActorInv, NEW p \in stream.passes, NEW t \in Tools \ Locals, ToolInvocation(p, t)
    PROVE  ActorInv' /\ BackToWork
<1>1. /\ p.pc = "running" /\ ~Stopped(stream) /\ calledIn[t] = 0
      /\ stream' = Dispatch(stream, t)
      /\ calledIn' = [calledIn EXCEPT ![t] = turn]
      /\ UNCHANGED <<subagent, connected, orphanCheck, turn, engaged, superseded, results,
                     lost, nudged, disconnects, faults>>
  BY DEF ToolInvocation
<1>2. stream.active /\ turn # 0
  BY <1>1, LivePass DEF Live
<1> DEFINE E == IF t \in Execs THEN stream.execs \cup {t} ELSE stream.execs
           N == IF t \in Queries \cup Plans THEN stream.interactions \cup {t}
                                            ELSE stream.interactions
           I == IF t \in Images THEN stream.images \cup {t} ELSE stream.images
<1>3. stream' = [stream EXCEPT !.hadTool = TRUE, !.execs = E, !.interactions = N, !.images = I]
  BY <1>1 DEF Dispatch
<1>4. E \in SUBSET Execs /\ N \in SUBSET (Queries \cup Plans) /\ I \in SUBSET Images
      /\ stream.execs \subseteq E /\ E \cup N \cup I = Pending(stream) \cup {t}
  BY ToolsApart DEF ActorInv, StreamInv, StreamOK, ActiveStream, Pending
<1> HIDE DEF E, N, I
<1>5. stream' \in ActiveStream
  BY <1>3, <1>4, ZenonT(30) DEF ActorInv, StreamInv, StreamOK, ActiveStream
<1>6. /\ SamePasses(stream, stream') /\ stream'.handle = stream.handle
      /\ stream'.closed = stream.closed /\ stream'.execs = E
      /\ stream'.interactions = N /\ stream'.images = I
      /\ stream'.status = stream.status /\ stream'.phase = stream.phase
      /\ stream'.action = stream.action
  BY <1>3 DEF SamePasses, ActorInv, StreamInv, StreamOK, ActiveStream
<1>7. StreamOK(stream')
  BY <1>4, <1>5, <1>6 DEF ActorInv, StreamInv, StreamOK, SamePasses
<1>8. Pending(stream') = Pending(stream) \cup {t}
  BY <1>4, <1>6 DEF Pending
<1>9. StreamInv(stream')
  BY <1>1, <1>2, <1>6, <1>7 DEF ActorInv, StreamInv, SamePasses, OnePass, StartWaits, Stopped, Terminal
<1>10. TypeOK'
  BY <1>1, <1>7 DEF ActorInv, TypeOK
<1>11. CallInv'
  BY <1>1, <1>2, <1>8 DEF ActorInv, TypeOK, CallInv
<1>12. SettledInv'
  BY <1>1, <1>8 DEF ActorInv, TypeOK, SettledInv
<1>13. ComingInv'
  BY <1>1, <1>2, <1>6 DEF ActorInv, ComingInv, Coming, Heard, SamePasses, Stopped
<1> QED
  BY <1>2, <1>9, <1>10, <1>11, <1>12, <1>13 DEF ActorInv, BackToWork

LEMMA ImmediateResultKeeps ==
    ASSUME ActorInv, NEW p \in stream.passes, NEW t \in Locals, ImmediateResult(p, t)
    PROVE  ActorInv' /\ BackToWork
<1> DEFINE d == [stream EXCEPT !.hadTool = TRUE]
<1>1. /\ p.pc = "running" /\ ~Stopped(stream) /\ calledIn[t] = 0
      /\ stream' = reconcileStream(d, FALSE)
      /\ calledIn' = [calledIn EXCEPT ![t] = turn]
      /\ results' = [results EXCEPT ![t] = @ + 1]
      /\ UNCHANGED <<subagent, connected, orphanCheck, turn, engaged, superseded,
                     lost, nudged, disconnects, faults>>
  BY DEF ImmediateResult
<1>2. stream.active /\ turn # 0 /\ t \in Tools
  BY <1>1, LivePass DEF Live, Tools
<1>3. /\ StreamOK(d) /\ Kept(stream, d) /\ SamePasses(stream, d)
      /\ d.status = stream.status /\ d.phase = stream.phase /\ d.action = stream.action
  BY DEF ActorInv, StreamInv, StreamOK, ActiveStream, Kept, SamePasses
<1> HIDE DEF d
<1>4. stream' = d
  BY <1>1, <1>2, <1>3 DEF reconcileStream, SamePasses
<1>5. StreamInv(d) /\ Pending(d) = Pending(stream)
  BY <1>1, <1>2, <1>3 DEF ActorInv, StreamInv, SamePasses, OnePass, StartWaits, Stopped, Terminal,
       Kept, Pending
<1>6. results[t] = 0 /\ t \notin Pending(stream)
  BY <1>1, <1>2 DEF ActorInv, CallInv
<1>15. /\ results' \in [Tools -> Nat] /\ calledIn' \in [Tools -> 0..MaxRuns]
       /\ \A u \in Tools : /\ results'[u] = IF u = t THEN 1 ELSE results[u]
                          /\ calledIn'[u] = IF u = t THEN turn ELSE calledIn[u]
  BY <1>1, <1>2, <1>6 DEF ActorInv, TypeOK
<1>14. Pending(stream') = Pending(stream) /\ Pending(stream) \subseteq Tools
       /\ UNCHANGED <<turn, lost>>
  BY <1>1, <1>4, <1>5, PendingAreTools DEF ActorInv, StreamInv
<1>7. TypeOK'
  BY <1>1, <1>3, <1>4, <1>15 DEF ActorInv, TypeOK
<1>8. CallInv'
  BY <1>2, <1>6, <1>15, <1>14 DEF ActorInv, CallInv, TypeOK
<1>9. SettledInv'
  BY <1>2, <1>6, <1>15, <1>14 DEF ActorInv, SettledInv
<1>10. ComingInv'
  BY <1>1, <1>2, <1>3, <1>4 DEF ActorInv, ComingInv, Coming, Heard, SamePasses
<1> QED
  BY <1>2, <1>4, <1>5, <1>7, <1>8, <1>9, <1>10 DEF ActorInv, BackToWork

LEMMA InvocationFailsKeeps ==
    ASSUME ActorInv, NEW p \in stream.passes, InvocationFails(p)
    PROVE  ActorInv' /\ BackToWork
<1> DEFINE e == [p EXCEPT !.pc = "erring"]
           P == (stream.passes \ {p}) \cup {e}
<1>1. /\ p.pc = "running" /\ ~Stopped(stream) /\ faults < MaxFaults /\ faults' = faults + 1
      /\ stream' = [stream EXCEPT !.hadTool = TRUE, !.passes = P]
      /\ UNCHANGED <<subagent, connected, orphanCheck, turn, engaged, superseded, calledIn,
                     results, lost, nudged, disconnects>>
  BY DEF InvocationFails
<1>2. /\ stream.active /\ turn # 0 /\ p \in Pass /\ p.id <= stream.passCount
      /\ \A q \in stream.passes : Live(q) => q = p
  BY <1>1, LivePass DEF Live
<1>3. e \in Pass /\ e.id = p.id /\ e.token = p.token /\ e.pc = "erring"
  BY <1>2 DEF Pass
<1> HIDE DEF e
<1>4. P \in SUBSET Pass /\ \A q \in P : q.id <= stream.passCount
  BY <1>2, <1>3 DEF ActorInv, StreamInv, StreamOK, ActiveStream
<1>5. /\ \A q \in P : Live(q) => q = e
      /\ e \in P /\ Live(e)
  BY <1>2, <1>3 DEF Live
<1>6. Heard(stream) => e.token # 0 /\ e.token = stream.token
  BY <1>2, <1>3 DEF Heard
<1> HIDE DEF P
<1>7. stream' \in ActiveStream
  BY <1>1, <1>4, ZenonT(30) DEF ActorInv, StreamInv, StreamOK, ActiveStream
<1>8. /\ Kept(stream, stream') /\ stream'.passes = P /\ stream'.token = stream.token
      /\ stream'.passCount = stream.passCount /\ stream'.handle = stream.handle
      /\ stream'.active = stream.active /\ stream'.action = stream.action
      /\ stream'.status = stream.status /\ stream'.phase = stream.phase
  BY <1>1 DEF Kept, ActorInv, StreamInv, StreamOK, ActiveStream
<1>9. StreamInv(stream') /\ ~Stopped(stream')
  BY <1>1, <1>2, <1>4, <1>5, <1>7, <1>8 DEF ActorInv, StreamInv, StreamOK, OnePass, StartWaits,
       Stopped, Terminal, Kept
<1>10. RestOK'
  BY <1>1, ActorAssumption DEF ActorInv, TypeOK, RestOK
<1>11. Coming(stream) => Coming(stream')
  BY <1>2, <1>5, <1>6, <1>8 DEF Coming, Heard
<1>12. Pending(stream') = Pending(stream)
  BY <1>8 DEF Kept, Pending
<1> QED
  BY <1>1, <1>2, <1>9, <1>10, <1>11, <1>12, QuietStep DEF BackToWork

(* A pass that leaves is followed by nobody, or by its goroutine's last    *)
(* look when the actor has stopped.                                        *)
LEMMA PassLeaves ==
    ASSUME NEW r, StreamOK(r), StartWaits(r), NEW p \in Pass, p.id <= r.passCount,
           ~Stopped(r) => \A q \in r.passes : Live(q) => q = p,
           r.status = "completed" => ~r.active /\ Pending(r) \subseteq Images
    PROVE  LET l == Leave(r, p) IN
           /\ StreamInv(l) /\ Kept(r, l)
           /\ l.active = r.active /\ l.status = r.status /\ l.phase = r.phase
           /\ l.action = r.action /\ l.completion = r.completion
           /\ l.timers = r.timers /\ l.timerTokens = r.timerTokens
           /\ Stopped(l) <=> Stopped(r)
           /\ \A q \in l.passes : ~Stopped(l) => ~Live(q)
<1> DEFINE e == [p EXCEPT !.pc = "fallback"]
           P == {q \in r.passes : q.id # p.id} \cup IF Stopped(r) THEN {e} ELSE {}
           l == Leave(r, p)
<1>1. e \in Pass /\ e.id = p.id /\ e.pc = "fallback"
  BY DEF Pass
<1>2. l = [r EXCEPT !.passes = P]
  BY DEF Leave
<1> HIDE DEF e
<1>3. P \in SUBSET Pass /\ \A q \in P : q.id <= r.passCount
  BY <1>1 DEF StreamOK, ActiveStream
<1>4. Stopped(r) => \E q \in P : q.pc = "fallback"
  BY <1>1
<1>5. ~Stopped(r) => \A q \in P : ~Live(q)
  OBVIOUS
<1> HIDE DEF P, l
<1>6. l \in ActiveStream
  BY <1>2, <1>3 DEF StreamOK, ActiveStream
<1>7. /\ Kept(r, l) /\ l.passes = P /\ l.active = r.active /\ l.status = r.status
      /\ l.phase = r.phase /\ l.action = r.action /\ l.completion = r.completion
      /\ l.timers = r.timers /\ l.timerTokens = r.timerTokens
      /\ l.token = r.token /\ l.handle = r.handle /\ l.passCount = r.passCount
  BY <1>2 DEF StreamOK, ActiveStream, Kept
<1>8. Stopped(l) <=> Stopped(r)
  BY <1>7 DEF Stopped
<1>9. StreamOK(l)
  BY <1>3, <1>6, <1>7 DEF StreamOK, Kept
<1>10. StreamInv(l)
  BY <1>4, <1>5, <1>7, <1>8, <1>9 DEF StreamInv, OnePass, StartWaits, Kept, Pending
<1> QED
  BY <1>5, <1>7, <1>8, <1>10 DEF l

(* What a heard pass leaves behind when it is done: a stream at rest that  *)
(* has ended, or has something coming.                                     *)
AtRest(s, r) ==
    /\ StreamOK(r) /\ Kept(s, r) /\ r.passCount = s.passCount
    /\ ~r.active /\ r.action # "start"
    /\ r.status = "completed" => Pending(r) \subseteq Images
    /\ Stopped(r) \/ (Coming(r) /\ r.passes = s.passes)

LEMMA PassClosed ==
    ASSUME ActorInv, ~Stopped(stream)
    PROVE  LET d == Closed(stream) IN
           /\ StreamOK(d) /\ Kept(stream, d) /\ ~Stopped(d)
           /\ ~d.active /\ d.action = "none" /\ d.status = stream.status
           /\ d.completion = stream.completion
           /\ d.passes = stream.passes /\ d.passCount = stream.passCount
<1> DEFINE h == IF stream.images = {} THEN 0 ELSE stream.handle
           d == Closed(stream)
<1>1. h \in Nat /\ h <= stream.passCount
  BY DEF ActorInv, StreamInv, StreamOK, ActiveStream
<1>2. d = [stream EXCEPT !.active = FALSE, !.action = "none", !.hadTool = FALSE, !.handle = h]
  BY DEF Closed
<1> HIDE DEF h, d
<1>3. d \in ActiveStream
  BY <1>1, <1>2, ZenonT(30) DEF ActorInv, StreamInv, StreamOK, ActiveStream, Action
<1>4. /\ Kept(stream, d) /\ ~d.active /\ d.action = "none" /\ d.status = stream.status
      /\ d.phase = stream.phase /\ d.completion = stream.completion /\ d.handle = h
      /\ d.passes = stream.passes /\ d.passCount = stream.passCount /\ d.token = stream.token
  BY <1>2 DEF ActorInv, StreamInv, StreamOK, ActiveStream, Kept
<1>5. StreamOK(d) /\ ~Stopped(d)
  BY <1>1, <1>3, <1>4 DEF ActorInv, StreamInv, StreamOK, Kept, Stopped, Terminal
<1> QED
  BY <1>4, <1>5 DEF d

LEMMA FailedRests ==
    ASSUME NEW s, NEW d, StreamOK(d), Kept(s, d), d.passCount = s.passCount
    PROVE  AtRest(s, Failed(d))
BY FailedEnds DEF AtRest, Ended, Kept, Stopped, Terminal

(* The model is asked to go on.                                            *)
LEMMA ResumeRequested ==
    ASSUME NEW s, NEW d, StreamOK(d), Kept(s, d), ~Stopped(d), ~d.active, d.action = "none",
           d.passes = s.passes, d.passCount = s.passCount
    PROVE  AtRest(s, requestProviderAction(d, "resume", FALSE))
<1> DEFINE e == [d EXCEPT !.action = "resume"]
           r == reconcileStream(e, FALSE)
<1>1. requestProviderAction(d, "resume", FALSE) = r
  BY DEF requestProviderAction
<1>2. /\ StreamOK(e) /\ Kept(s, e) /\ ~Stopped(e) /\ ~e.active /\ e.action = "resume"
      /\ e.passes = s.passes /\ e.passCount = s.passCount
  BY DEF StreamOK, ActiveStream, Action, Kept, Stopped, Terminal
<1> HIDE DEF e
<1>3. /\ StreamOK(r) /\ Kept(e, r) /\ SamePasses(e, r) /\ StartWaits(r)
      /\ Stopped(r) => r.status \in Terminal
      /\ r.status \in Terminal => Completes(e, r)
      /\ Stopped(r) \/ Coming(r)
  BY <1>2, StreamReconciled DEF StartWaits
<1> HIDE DEF r
<1>4. Kept(s, r) /\ r.passCount = s.passCount /\ r.passes = s.passes /\ ~r.active
  BY <1>2, <1>3 DEF Kept, SamePasses
<1>5. r.status = "completed" => Pending(r) \subseteq Images
  BY <1>3, <1>4 DEF Completes, Terminal, Kept, Pending, StreamOK, ActiveStream
<1> QED
  BY <1>1, <1>3, <1>4, <1>5 DEF AtRest, StartWaits

LEMMA PassFinished ==
    ASSUME ActorInv, ~Stopped(stream), NEW finish, NEW fault \in BOOLEAN
    PROVE  AtRest(stream, Finished(stream, finish, fault))
<1> DEFINE d == Closed(stream)
           kind == IF ~AwaitingUser(d) /\ Resumes(finish) THEN "resume" ELSE "complete"
           m == rememberPendingProviderCompletion(d, kind)
           w == [m EXCEPT !.phase = WaitingPhase(d)]
           n == [d EXCEPT !.completion = "none"]
           c == completeSuccessfulTurn(n, FALSE)
<1>1. /\ StreamOK(d) /\ Kept(stream, d) /\ ~Stopped(d)
      /\ ~d.active /\ d.action = "none" /\ d.status = stream.status
      /\ d.completion = stream.completion
      /\ d.passes = stream.passes /\ d.passCount = stream.passCount
  BY PassClosed
<1>2. \/ Finished(stream, finish, fault) = failStreamIfNonTerminal(d)
      \/ Waiting(d) /\ Finished(stream, finish, fault) = w
      \/ Finished(stream, finish, fault) = Failed(d)
      \/ Finished(stream, finish, fault) = requestProviderAction(d, "resume", FALSE)
      \/ Finished(stream, finish, fault) = requestProviderAction(n, "resume", FALSE)
      \/ ~Waiting(d) /\ Finished(stream, finish, fault) = c
  BY DEF Finished
<1> HIDE DEF d
<1>3. failStreamIfNonTerminal(d) = Failed(d) /\ AtRest(stream, Failed(d))
  BY <1>1, FailedRests DEF failStreamIfNonTerminal, Stopped
<1>4. AtRest(stream, requestProviderAction(d, "resume", FALSE))
  BY <1>1, ResumeRequested
<1>5. /\ StreamOK(n) /\ Kept(stream, n) /\ ~Stopped(n) /\ ~n.active /\ n.action = "none"
      /\ n.passes = stream.passes /\ n.passCount = stream.passCount /\ Kept(d, n)
  BY <1>1 DEF StreamOK, ActiveStream, Completion, Kept, Stopped, Terminal
<1> HIDE DEF n
<1>6. AtRest(stream, requestProviderAction(n, "resume", FALSE))
  BY <1>5, ResumeRequested
<1>7. Waiting(d) => AtRest(stream, w)
  <2>1. m = [d EXCEPT !.completion = mergeCompletionDisposition(d.completion, kind)]
    BY DEF rememberPendingProviderCompletion
  <2>2. mergeCompletionDisposition(d.completion, kind) \in {"resume", "complete"}
    BY DEF mergeCompletionDisposition
  <2>3. WaitingPhase(d) \in {"awaiting_user", "waiting_external"}
    BY DEF WaitingPhase
  <2> DEFINE x == mergeCompletionDisposition(d.completion, kind)
             y == WaitingPhase(d)
  <2>4. w = [d EXCEPT !.completion = x, !.phase = y]
    BY <2>1
  <2> HIDE DEF x, y, w
  <2>5. w \in ActiveStream
    BY <1>1, <2>2, <2>3, <2>4, ZenonT(30) DEF x, y, StreamOK, ActiveStream, Completion, Phase
  <2>6. /\ Kept(d, w) /\ w.completion = x /\ w.phase = y /\ w.status = d.status /\ ~w.active
        /\ w.action = d.action /\ w.passes = d.passes /\ w.passCount = d.passCount
        /\ w.handle = d.handle /\ w.token = d.token
    BY <1>1, <2>4 DEF StreamOK, ActiveStream, Kept
  <2>7. StreamOK(w)
    BY <1>1, <2>5, <2>6 DEF StreamOK, Kept
  <2>8. Waiting(d) => Coming(w)
    BY <2>2, <2>6 DEF x, Coming, Waiting, Pending, Kept
  <2>9. w.status \notin Terminal /\ Kept(stream, w)
    BY <1>1, <2>6 DEF Stopped, Kept
  <2> QED
    BY <1>1, <2>6, <2>7, <2>8, <2>9 DEF AtRest, Terminal
<1>8. ~Waiting(d) => AtRest(stream, c)
  <2>1. c = [n EXCEPT !.status = "completed", !.phase = "completed"]
    BY DEF completeSuccessfulTurn
  <2> HIDE DEF c
  <2>2. c \in ActiveStream
    BY <1>5, <2>1, ZenonT(30) DEF StreamOK, ActiveStream, Status, Phase, Terminal
  <2>3. /\ Kept(n, c) /\ c.status = "completed" /\ ~c.active
        /\ c.action = n.action /\ c.passes = n.passes /\ c.passCount = n.passCount
        /\ c.handle = n.handle /\ c.token = n.token
    BY <1>5, <2>1 DEF StreamOK, ActiveStream, Kept
  <2>4. StreamOK(c) /\ Kept(d, c) /\ Kept(stream, c)
    BY <1>5, <2>2, <2>3 DEF StreamOK, Kept
  <2>5. ~Waiting(d) => Pending(c) = {}
    BY <2>4 DEF Waiting, Pending, Kept
  <2> QED
    BY <1>5, <2>3, <2>4, <2>5 DEF AtRest, Stopped, Terminal
<1> HIDE DEF w, c
<1> QED
  BY <1>2, <1>3, <1>4, <1>6, <1>7, <1>8

LEMMA PassBroken ==
    ASSUME ActorInv, ~Stopped(stream), NEW fault \in BOOLEAN
    PROVE  AtRest(stream, Broken(stream, fault))
<1> DEFINE d == Closed(stream)
           b == [d EXCEPT !.phase = "failed"]
<1>1. /\ StreamOK(d) /\ Kept(stream, d) /\ ~Stopped(d) /\ ~d.active /\ d.action = "none"
      /\ d.passes = stream.passes /\ d.passCount = stream.passCount
  BY PassClosed
<1>2. Broken(stream, fault) = IF fault THEN b ELSE Failed(d)
  BY DEF Broken
<1> HIDE DEF d
<1>3. AtRest(stream, Failed(d))
  BY <1>1, FailedRests
<1>4. /\ StreamOK(b) /\ Kept(stream, b) /\ b.phase = "failed" /\ ~b.active /\ b.action = "none"
      /\ b.passCount = stream.passCount /\ b.status = d.status
  BY <1>1 DEF StreamOK, ActiveStream, Phase, Terminal, Kept
<1>5. AtRest(stream, b)
  BY <1>1, <1>4 DEF AtRest, Stopped, Terminal
<1> QED
  BY <1>2, <1>3, <1>5

LEMMA ProviderDoneKeeps ==
    ASSUME ActorInv, NEW p \in stream.passes, NEW finish, ProviderDone(p, finish)
    PROVE  ActorInv' /\ BackToWork
<1>1. /\ Live(p) /\ ~Stopped(stream)
      /\ UNCHANGED <<subagent, connected, orphanCheck, turn, engaged, superseded, calledIn,
                     results, lost, disconnects>>
  BY DEF ProviderDone, Live
<1>2. /\ stream.active /\ turn # 0 /\ p \in Pass /\ p.id <= stream.passCount
      /\ \A q \in stream.passes : Live(q) => q = p
  BY <1>1, LivePass
<1>3. CASE Listening(p)
  <2>1. PICK fault \in Fault :
          /\ stream' = Leave(IF finish = "error" THEN Broken(stream, fault)
                                                 ELSE Finished(stream, finish, fault), p)
          /\ nudged' = (nudged \/ (EmptyStop(finish) /\ ~Waiting(stream) /\ ~fault))
          /\ Count(fault)
    BY <1>3 DEF ProviderDone
  <2>2. faults' \in 0..MaxFaults /\ fault \in BOOLEAN
    BY <2>1, FaultCounted DEF ActorInv
  <2> DEFINE r == IF finish = "error" THEN Broken(stream, fault)
                                      ELSE Finished(stream, finish, fault)
  <2>3. AtRest(stream, r)
    BY <1>1, <2>2, PassFinished, PassBroken
  <2>4. stream' = Leave(r, p)
    BY <2>1
  <2> HIDE DEF r
  <2>5. /\ StreamOK(r) /\ StartWaits(r) /\ p.id <= r.passCount
        /\ ~Stopped(r) => \A q \in r.passes : Live(q) => q = p
        /\ r.status = "completed" => ~r.active /\ Pending(r) \subseteq Images
    BY <1>2, <2>3 DEF AtRest, StartWaits
  <2>6. /\ StreamInv(stream') /\ Kept(r, stream')
        /\ stream'.active = r.active
        /\ stream'.action = r.action /\ stream'.completion = r.completion
        /\ stream'.timers = r.timers /\ stream'.timerTokens = r.timerTokens
        /\ Stopped(stream') <=> Stopped(r)
    BY <1>2, <2>4, <2>5, PassLeaves
  <2>7. Pending(stream') = Pending(stream)
    BY <2>3, <2>6 DEF AtRest, Kept, Pending
  <2>8. Stopped(stream') \/ Coming(stream')
    BY <2>3, <2>6 DEF AtRest, Coming, Kept, Pending, ResumeArmed
  <2>9. RestOK'
    BY <1>1, <2>1, <2>2 DEF ActorInv, TypeOK, RestOK
  <2> QED
    BY <1>1, <1>2, <2>6, <2>7, <2>8, <2>9, QuietStep DEF BackToWork
<1>4. CASE ~Listening(p)
  <2>1. stream' = Leave(stream, p) /\ UNCHANGED <<nudged, faults>>
    BY <1>4 DEF ProviderDone
  <2>2. /\ StreamInv(stream') /\ Kept(stream, stream')
        /\ stream'.active = stream.active
    <3>1. StreamOK(stream) /\ StartWaits(stream)
          /\ (stream.status = "completed" => ~stream.active /\ Pending(stream) \subseteq Images)
      BY DEF ActorInv, StreamInv
    <3> QED
      BY <1>2, <2>1, <3>1, PassLeaves
  <2>3. ~Coming(stream)
    BY <1>1, <1>2, <1>4 DEF Coming, Heard, Listening
  <2>4. Pending(stream') = Pending(stream)
    BY <2>2 DEF Kept, Pending
  <2>5. RestOK'
    BY <1>1, <2>1 DEF ActorInv, TypeOK, RestOK
  <2> QED
    BY <1>1, <1>2, <2>2, <2>3, <2>4, <2>5, QuietStep DEF BackToWork
<1> QED
  BY <1>3, <1>4

LEMMA InterruptedKeeps ==
    ASSUME ActorInv, NEW p \in stream.passes, Interrupted(p)
    PROVE  ActorInv' /\ BackToWork
<1>1. /\ Stopped(stream) /\ stream' = Leave(stream, p)
      /\ UNCHANGED <<subagent, connected, orphanCheck, turn, engaged, superseded, calledIn,
                     results, lost, nudged, disconnects, faults>>
  BY DEF Interrupted
<1>2. p \in Pass /\ p.id <= stream.passCount /\ turn # 0
  BY DEF ActorInv, StreamInv, StreamOK, ActiveStream, CallInv
<1>3. /\ StreamInv(stream') /\ Kept(stream, stream') /\ Stopped(stream')
      /\ stream'.active = stream.active
  BY <1>1, <1>2, PassLeaves DEF ActorInv, StreamInv
<1>4. Pending(stream') = Pending(stream)
  BY <1>3 DEF Kept, Pending
<1>5. RestOK'
  BY <1>1 DEF ActorInv, TypeOK, RestOK
<1> QED
  BY <1>1, <1>2, <1>3, <1>4, <1>5, QuietStep DEF BackToWork

LEMMA FallbackKeeps ==
    ASSUME ActorInv, NEW p \in stream.passes, Fallback(p)
    PROVE  ActorInv' /\ BackToWork
<1> DEFINE s == [stream EXCEPT !.passes = @ \ {p}]
<1>1. /\ stream' = failStreamIfNonTerminal(s)
      /\ UNCHANGED <<subagent, connected, orphanCheck, turn, engaged, superseded, calledIn,
                     results, lost, nudged, disconnects, faults>>
  BY DEF Fallback
<1>2. turn # 0
  BY DEF ActorInv, CallInv
<1>3. /\ StreamOK(s) /\ Kept(stream, s) /\ s.active = stream.active /\ s.status = stream.status
      /\ s.phase = stream.phase /\ s.action = stream.action
  <2>1. stream.passes \ {p} \in SUBSET Pass
    BY DEF ActorInv, StreamInv, StreamOK, ActiveStream
  <2> QED
    BY <2>1 DEF ActorInv, StreamInv, StreamOK, ActiveStream, Kept
<1> HIDE DEF s
<1>4. Pending(s) = Pending(stream)
  BY <1>3 DEF Kept, Pending
<1>5. RestOK'
  BY <1>1 DEF ActorInv, TypeOK, RestOK
<1>6. CASE s.status \in Terminal
  <2>1. stream' = s /\ Stopped(s)
    BY <1>1, <1>6 DEF failStreamIfNonTerminal, Stopped
  <2>2. StreamInv(s)
    BY <1>3, <1>4, <1>6, <2>1 DEF ActorInv, StreamInv, StartWaits
  <2> QED
    BY <1>1, <1>2, <1>3, <1>4, <1>5, <2>1, <2>2, QuietStep DEF BackToWork
<1>7. CASE s.status \notin Terminal
  <2>1. stream' = Failed(s)
    BY <1>1, <1>7 DEF failStreamIfNonTerminal
  <2>2. StreamInv(stream') /\ Stopped(stream') /\ Pending(stream') = Pending(stream)
        /\ ~stream'.active
    BY <1>3, <1>4, <2>1, FailedEnds, EndedKeeps DEF Ended
  <2> QED
    BY <1>1, <1>2, <1>5, <2>2, QuietStep DEF BackToWork
<1> QED
  BY <1>6, <1>7

-----------------------------------------------------------------------------
(* What a handler hands to reconcileStream once it has put an answer away. *)
Carries(s, f) ==
    /\ f.active = s.active /\ f.action = s.action
    /\ f.status = s.status /\ f.phase = s.phase
    /\ f.completion = s.completion \/ f.completion = "complete"
    /\ OnePass(s) => OnePass(f)
    /\ Heard(s) => Heard(f)

LEMMA CarriedStream ==
    ASSUME ActorInv, ~Stopped(stream), NEW f, StreamOK(f), Carries(stream, f)
    PROVE  StreamInv(f)
BY DEF ActorInv, StreamInv, Carries, StartWaits, Stopped, Terminal

LEMMA AnswerCarriedOn ==
    ASSUME ActorInv, ~Stopped(stream), NEW t \in Pending(stream),
           NEW f, StreamOK(f), Carries(stream, f), Pending(f) = Pending(stream) \ {t}
    PROVE  LET r == reconcileStream(f, FALSE) IN
           /\ StreamInv(r) /\ Pending(r) = Pending(stream) \ {t} /\ r.active = stream.active
           /\ Coming(stream) => Stopped(r) \/ Coming(r)
<1> DEFINE r == reconcileStream(f, FALSE)
<1>1. StreamInv(f) /\ ~Stopped(f) /\ f.active = stream.active
  BY CarriedStream DEF Carries, Stopped
<1>2. /\ StreamOK(r) /\ Kept(f, r) /\ SamePasses(f, r) /\ StartWaits(r)
      /\ Stopped(r) => r.status \in Terminal
      /\ r.status \in Terminal => Completes(f, r)
      /\ f.active => r = f
      /\ f.completion # "none" \/ f.action # "none" => Stopped(r) \/ f.active \/ Coming(r)
  BY <1>1, StreamReconciled DEF StreamInv
<1> HIDE DEF r
<1>3. OnePass(r)
  BY <1>1, <1>2 DEF SamePasses, OnePass, StreamInv
<1>4. r.status = "completed" => ~r.active /\ Pending(r) \subseteq Images
  BY <1>2 DEF Completes, Terminal, Kept, Pending, StreamOK, ActiveStream
<1>5. StreamInv(r)
  BY <1>2, <1>3, <1>4 DEF StreamInv
<1>6. Pending(r) = Pending(stream) \ {t} /\ r.active = stream.active
  BY <1>1, <1>2 DEF Kept, Pending, SamePasses
<1>7. Coming(stream) => Stopped(r) \/ Coming(r)
  <2>1. CASE stream.active
    BY <1>1, <1>2, <2>1 DEF Coming, Carries
  <2>2. CASE ~stream.active
    <3>1. Coming(stream) => f.completion # "none" \/ f.action # "none"
      BY <2>2 DEF Coming, ResumeArmed, Carries
    <3> QED
      BY <1>1, <1>2, <2>2, <3>1
  <2> QED
    BY <2>1, <2>2
<1> QED
  BY <1>5, <1>6, <1>7 DEF r

(* An exec, a query or an image is no longer pending.                      *)
LEMMA ExecForgotten ==
    ASSUME NEW s, StreamOK(s), NEW e \in s.execs
    PROVE  LET f == forgetExec(s, e) IN
           /\ StreamOK(f) /\ Carries(s, f) /\ Pending(f) = Pending(s) \ {e}
           /\ f.passes = s.passes /\ f.passCount = s.passCount
<1> DEFINE E == s.execs \ {e}
           C == s.closed \ {e}
           f == forgetExec(s, e)
<1>1. f = [s EXCEPT !.execs = E, !.closed = C]
  BY DEF forgetExec
<1>2. E \in SUBSET Execs /\ C \in SUBSET Execs /\ C \subseteq E
  BY DEF StreamOK, ActiveStream
<1>3. E \cup s.interactions \cup s.images = Pending(s) \ {e}
  BY ToolsApart DEF Pending, StreamOK, ActiveStream
<1> HIDE DEF E, C, f
<1>4. f \in ActiveStream
  BY <1>1, <1>2, ZenonT(30) DEF StreamOK, ActiveStream
<1>5. /\ f.execs = E /\ f.closed = C /\ f.interactions = s.interactions /\ f.images = s.images
      /\ f.active = s.active /\ f.action = s.action /\ f.status = s.status /\ f.phase = s.phase
      /\ f.timers = s.timers /\ f.timerTokens = s.timerTokens /\ f.completion = s.completion
      /\ f.passes = s.passes /\ f.token = s.token /\ f.passCount = s.passCount
      /\ f.handle = s.handle
  BY <1>1 DEF StreamOK, ActiveStream
<1>6. StreamOK(f)
  BY <1>2, <1>4, <1>5 DEF StreamOK
<1>7. Pending(f) = Pending(s) \ {e}
  BY <1>3, <1>5 DEF Pending
<1>8. Carries(s, f)
  BY <1>5 DEF Carries, OnePass, Heard
<1> QED
  BY <1>5, <1>6, <1>7, <1>8 DEF f

LEMMA QueryForgotten ==
    ASSUME NEW s, StreamOK(s), NEW q \in s.interactions
    PROVE  LET f == [s EXCEPT !.interactions = @ \ {q}] IN
           StreamOK(f) /\ Carries(s, f) /\ Pending(f) = Pending(s) \ {q}
<1> DEFINE N == s.interactions \ {q}
           f == [s EXCEPT !.interactions = N]
<1>1. N \in SUBSET (Queries \cup Plans)
  BY DEF StreamOK, ActiveStream
<1>2. s.execs \cup N \cup s.images = Pending(s) \ {q}
  BY ToolsApart DEF Pending, StreamOK, ActiveStream
<1> HIDE DEF N
<1>3. /\ f.execs = s.execs /\ f.closed = s.closed /\ f.interactions = N /\ f.images = s.images
      /\ f.active = s.active /\ f.action = s.action /\ f.status = s.status /\ f.phase = s.phase
      /\ f.timers = s.timers /\ f.timerTokens = s.timerTokens /\ f.completion = s.completion
      /\ f.passes = s.passes /\ f.token = s.token /\ f.passCount = s.passCount
      /\ f.handle = s.handle /\ f \in ActiveStream
  BY <1>1 DEF StreamOK, ActiveStream
<1> HIDE DEF f
<1>4. StreamOK(f) /\ Carries(s, f) /\ Pending(f) = Pending(s) \ {q}
  BY <1>2, <1>3 DEF StreamOK, Carries, OnePass, Heard, Pending
<1> QED
  BY <1>4 DEF f, N

LEMMA ImageForgotten ==
    ASSUME NEW s, StreamOK(s), NEW i \in s.images
    PROVE  LET f == [s EXCEPT !.images = @ \ {i}] IN
           StreamOK(f) /\ Carries(s, f) /\ Pending(f) = Pending(s) \ {i}
<1> DEFINE I == s.images \ {i}
           f == [s EXCEPT !.images = I]
<1>1. I \in SUBSET Images
  BY DEF StreamOK, ActiveStream
<1>2. s.execs \cup s.interactions \cup I = Pending(s) \ {i}
  BY ToolsApart DEF Pending, StreamOK, ActiveStream
<1> HIDE DEF I
<1>3. /\ f.execs = s.execs /\ f.closed = s.closed /\ f.interactions = s.interactions
      /\ f.images = I
      /\ f.active = s.active /\ f.action = s.action /\ f.status = s.status /\ f.phase = s.phase
      /\ f.timers = s.timers /\ f.timerTokens = s.timerTokens /\ f.completion = s.completion
      /\ f.passes = s.passes /\ f.token = s.token /\ f.passCount = s.passCount
      /\ f.handle = s.handle /\ f \in ActiveStream
  BY <1>1 DEF StreamOK, ActiveStream
<1> HIDE DEF f
<1>4. StreamOK(f) /\ Carries(s, f) /\ Pending(f) = Pending(s) \ {i}
  BY <1>2, <1>3 DEF StreamOK, Carries, OnePass, Heard, Pending
<1> QED
  BY <1>4 DEF f, I

(* The provider side is told that the turn is to end.                      *)
LEMMA CompletionRemembered ==
    ASSUME NEW s, NEW f, StreamOK(f), Carries(s, f)
    PROVE  LET u == rememberPendingProviderCompletion(f, "complete") IN
           StreamOK(u) /\ Carries(s, u) /\ Pending(u) = Pending(f)
<1> DEFINE u == rememberPendingProviderCompletion(f, "complete")
<1>1. u = [f EXCEPT !.completion = "complete"]
  BY DEF rememberPendingProviderCompletion, mergeCompletionDisposition
<1> HIDE DEF u
<1>2. /\ StreamOK(u) /\ Kept(f, u) /\ u.completion = "complete"
      /\ u.active = f.active /\ u.action = f.action /\ u.status = f.status /\ u.phase = f.phase
      /\ u.timers = f.timers /\ u.timerTokens = f.timerTokens
      /\ u.passes = f.passes /\ u.token = f.token
  BY <1>1 DEF StreamOK, ActiveStream, Completion, Kept
<1>3. Carries(s, u) /\ Pending(u) = Pending(f)
  BY <1>2 DEF Carries, OnePass, Heard, Kept, Pending
<1> QED
  BY <1>2, <1>3 DEF u

LEMMA ExecAnsweredKeeps ==
    ASSUME ActorInv, NEW e \in Execs, ExecAnswered(e)
    PROVE  ActorInv' /\ BackToWork
<1> DEFINE f == forgetExec(stream, e)
           r == reconcileStream(f, FALSE)
<1>1. ~Stopped(stream) /\ e \in stream.execs /\ e \in Pending(stream) /\ StreamOK(stream)
  BY DEF ExecAnswered, Pending, ActorInv, StreamInv
<1>2. PICK fault \in Fault : Recorded(IF fault THEN f ELSE r, e, fault)
  BY DEF ExecAnswered
<1>3. StreamOK(f) /\ Carries(stream, f) /\ Pending(f) = Pending(stream) \ {e}
  BY <1>1, ExecForgotten
<1> HIDE DEF f
<1>4. StreamInv(f) /\ f.active = stream.active
  BY <1>1, <1>3, CarriedStream DEF Carries
<1>5. /\ StreamInv(r) /\ Pending(r) = Pending(stream) \ {e} /\ r.active = stream.active
      /\ Coming(stream) => Stopped(r) \/ Coming(r)
  BY <1>1, <1>3, AnswerCarriedOn
<1> HIDE DEF r
<1>6. CASE fault
  BY <1>1, <1>2, <1>3, <1>4, <1>6, RecordedStep
<1>7. CASE ~fault
  BY <1>1, <1>2, <1>5, <1>7, RecordedStep
<1> QED
  BY <1>6, <1>7

LEMMA QueryAnsweredKeeps ==
    ASSUME ActorInv, NEW q \in Queries \cup Plans, QueryAnswered(q)
    PROVE  ActorInv' /\ BackToWork
<1> DEFINE s == [stream EXCEPT !.interactions = @ \ {q}]
           t == IF q \in Plans THEN rememberPendingProviderCompletion(s, "complete") ELSE s
           r == reconcileStream(t, FALSE)
<1>1. ~Stopped(stream) /\ q \in stream.interactions /\ q \in Pending(stream) /\ StreamOK(stream)
  BY DEF QueryAnswered, Pending, ActorInv, StreamInv
<1>2. PICK fault \in Fault : Recorded(IF fault THEN s ELSE r, q, fault)
  BY DEF QueryAnswered
<1>3. StreamOK(s) /\ Carries(stream, s) /\ Pending(s) = Pending(stream) \ {q}
  BY <1>1, QueryForgotten
<1> HIDE DEF s
<1>4. StreamInv(s) /\ s.active = stream.active
  BY <1>1, <1>3, CarriedStream DEF Carries
<1>5. StreamOK(t) /\ Carries(stream, t) /\ Pending(t) = Pending(stream) \ {q}
  BY <1>3, CompletionRemembered
<1> HIDE DEF t
<1>6. /\ StreamInv(r) /\ Pending(r) = Pending(stream) \ {q} /\ r.active = stream.active
      /\ Coming(stream) => Stopped(r) \/ Coming(r)
  BY <1>1, <1>5, AnswerCarriedOn
<1> HIDE DEF r
<1>7. CASE fault
  BY <1>1, <1>2, <1>3, <1>4, <1>7, RecordedStep
<1>8. CASE ~fault
  BY <1>1, <1>2, <1>6, <1>8, RecordedStep
<1> QED
  BY <1>7, <1>8

LEMMA ImageReadyKeeps ==
    ASSUME ActorInv, NEW i \in Images, ImageReady(i)
    PROVE  ActorInv' /\ BackToWork
<1> DEFINE s == [stream EXCEPT !.images = @ \ {i}]
           t == IF s.images = {} THEN CancelHandle(s) ELSE s
           u == rememberPendingProviderCompletion(t, "complete")
           r == reconcileStream(u, FALSE)
<1>1. ~Stopped(stream) /\ i \in stream.images /\ i \in Pending(stream) /\ StreamOK(stream)
  BY DEF ImageReady, Pending, ActorInv, StreamInv
<1>2. PICK fault \in Fault : Recorded(IF fault THEN t ELSE r, i, fault)
  BY DEF ImageReady
<1>3. StreamOK(s) /\ Carries(stream, s) /\ Pending(s) = Pending(stream) \ {i}
  BY <1>1, ImageForgotten
<1> HIDE DEF s
<1>4. StreamOK(t) /\ Carries(stream, t) /\ Pending(t) = Pending(stream) \ {i}
  BY <1>3, HandleCancelled DEF Carries, Kept, Pending
<1> HIDE DEF t
<1>5. StreamInv(t) /\ t.active = stream.active
  BY <1>1, <1>4, CarriedStream DEF Carries
<1>6. StreamOK(u) /\ Carries(stream, u) /\ Pending(u) = Pending(stream) \ {i}
  BY <1>4, CompletionRemembered
<1> HIDE DEF u
<1>7. /\ StreamInv(r) /\ Pending(r) = Pending(stream) \ {i} /\ r.active = stream.active
      /\ Coming(stream) => Stopped(r) \/ Coming(r)
  BY <1>1, <1>6, AnswerCarriedOn
<1> HIDE DEF r
<1>8. CASE fault
  BY <1>1, <1>2, <1>4, <1>5, <1>8, RecordedStep
<1>9. CASE ~fault
  BY <1>1, <1>2, <1>7, <1>9, RecordedStep
<1> QED
  BY <1>8, <1>9

-----------------------------------------------------------------------------
(* A step that touches no more than the timers keeps what the turn waits   *)
(* for, as long as an armed resume timer stays.                            *)
LEMMA TimersOnly ==
    ASSUME ActorInv, ~Stopped(stream), NEW s, StreamOK(s), SamePasses(stream, s),
           Pending(s) = Pending(stream),
           s.action = stream.action, s.completion = stream.completion,
           s.status = stream.status, s.phase = stream.phase,
           ResumeArmed(stream) => ResumeArmed(s) \/ s.active \/ Pending(s) # {}
    PROVE  /\ StreamInv(s) /\ ~Stopped(s)
           /\ Coming(stream) => Coming(s)
           /\ turn = 0 => s.passes = {} /\ s.action = "none"
<1>1. StreamInv(s) /\ ~Stopped(s)
  BY DEF ActorInv, StreamInv, SamePasses, OnePass, StartWaits, Stopped, Terminal
<1>2. Coming(stream) => Coming(s)
  BY DEF Coming, Heard, SamePasses, ResumeArmed
<1> QED
  BY <1>1, <1>2 DEF ActorInv, CallInv, SamePasses

LEMMA TimersOnlyStep ==
    ASSUME ActorInv, ~Stopped(stream), RestOK',
           UNCHANGED <<turn, engaged, superseded, calledIn, results, lost>>,
           StreamOK(stream'), SamePasses(stream, stream'), Pending(stream') = Pending(stream),
           stream'.action = stream.action, stream'.completion = stream.completion,
           stream'.status = stream.status, stream'.phase = stream.phase,
           ResumeArmed(stream) => \/ ResumeArmed(stream')
                                  \/ stream'.active \/ Pending(stream') # {}
    PROVE  ActorInv' /\ BackToWork
<1>1. /\ StreamInv(stream') /\ ~Stopped(stream')
      /\ Coming(stream) => Coming(stream')
      /\ turn = 0 => stream'.passes = {} /\ stream'.action = "none"
  BY TimersOnly
<1> QED
  BY <1>1, QuietStep DEF BackToWork, SamePasses

LEMMA ExecClosedKeeps ==
    ASSUME ActorInv, NEW e \in Execs, ExecClosed(e)
    PROVE  ActorInv' /\ BackToWork
<1> DEFINE C == stream.closed \cup {e}
           d == [stream EXCEPT !.closed = C]
<1>1. /\ ~Stopped(stream) /\ e \in stream.execs /\ stream' = scheduleStreamTimer(d, e)
      /\ UNCHANGED <<subagent, connected, orphanCheck, turn, engaged, superseded, calledIn,
                     results, lost, nudged, disconnects, faults>>
  BY DEF ExecClosed
<1>2. C \in SUBSET Execs /\ C \subseteq stream.execs
  BY <1>1 DEF ActorInv, StreamInv, StreamOK, ActiveStream
<1> HIDE DEF C
<1>3. /\ d \in ActiveStream /\ d.closed = C /\ SamePasses(stream, d)
      /\ d.execs = stream.execs /\ d.interactions = stream.interactions
      /\ d.images = stream.images /\ d.handle = stream.handle
      /\ d.action = stream.action /\ d.completion = stream.completion
      /\ d.status = stream.status /\ d.phase = stream.phase
      /\ d.timers = stream.timers /\ d.timerTokens = stream.timerTokens
  BY <1>2 DEF SamePasses, ActorInv, StreamInv, StreamOK, ActiveStream
<1> HIDE DEF d
<1>4. StreamOK(d)
  BY <1>2, <1>3 DEF SamePasses, ActorInv, StreamInv, StreamOK
<1>5. e \in TimerKeys /\ e # "resume" /\ "resume" \in TimerKeys
  BY ToolsApart
<1>6. /\ StreamOK(stream') /\ Kept(d, stream') /\ SamePasses(d, stream')
      /\ stream'.action = d.action /\ stream'.completion = d.completion
      /\ stream'.status = d.status /\ stream'.phase = d.phase
      /\ d.timers \subseteq stream'.timers
      /\ \A k \in TimerKeys \ {e} : stream'.timerTokens[k] = d.timerTokens[k]
  BY <1>1, <1>4, <1>5, TimerScheduled
<1>7. RestOK'
  BY <1>1 DEF ActorInv, TypeOK, RestOK
<1>8. SamePasses(stream, stream') /\ Pending(stream') = Pending(stream)
  BY <1>3, <1>6 DEF SamePasses, Kept, Pending
<1>9. ResumeArmed(stream) => ResumeArmed(stream')
  BY <1>3, <1>5, <1>6 DEF ResumeArmed
<1> QED
  BY <1>1, <1>3, <1>6, <1>7, <1>8, <1>9, TimersOnlyStep

LEMMA StaleTimerKeeps ==
    ASSUME ActorInv, NEW tm \in stream.timers, StaleTimer(tm)
    PROVE  ActorInv' /\ BackToWork
<1> DEFINE T == stream.timers \ {tm}
<1>1. /\ ~Stopped(stream) /\ ~Due(tm) /\ stream' = [stream EXCEPT !.timers = T]
      /\ UNCHANGED <<subagent, connected, orphanCheck, turn, engaged, superseded, calledIn,
                     results, lost, nudged, disconnects, faults>>
  BY DEF StaleTimer
<1>2. T \in SUBSET Timer
  BY DEF ActorInv, StreamInv, StreamOK, ActiveStream
<1>3. \A k, n : n = stream.timerTokens[k] /\ [key |-> k, token |-> n] \in stream.timers
                  => [key |-> k, token |-> n] \in T
  BY <1>1 DEF Due
<1> HIDE DEF T
<1>4. /\ stream' \in ActiveStream /\ Kept(stream, stream') /\ SamePasses(stream, stream')
      /\ stream'.handle = stream.handle
      /\ stream'.action = stream.action /\ stream'.completion = stream.completion
      /\ stream'.status = stream.status /\ stream'.phase = stream.phase
      /\ stream'.timers = T /\ stream'.timerTokens = stream.timerTokens
  BY <1>1, <1>2 DEF Kept, SamePasses, ActorInv, StreamInv, StreamOK, ActiveStream
<1>5. StreamOK(stream')
  BY <1>4 DEF Kept, SamePasses, ActorInv, StreamInv, StreamOK
<1>6. RestOK'
  BY <1>1 DEF ActorInv, TypeOK, RestOK
<1>7. ResumeArmed(stream) => ResumeArmed(stream')
  BY <1>3, <1>4 DEF ResumeArmed
<1>8. Pending(stream') = Pending(stream)
  BY <1>4 DEF Kept, Pending
<1> QED
  BY <1>1, <1>4, <1>5, <1>6, <1>7, <1>8, TimersOnlyStep

(* The resume timer drives the pass it was armed for, unless a call is     *)
(* pending or a pass is active after all.                                  *)
LEMMA ResumeTimerKeeps ==
    ASSUME ActorInv, NEW tm \in stream.timers, ResumeTimer(tm)
    PROVE  ActorInv' /\ BackToWork
<1> DEFINE s == clearStreamTimer(stream, tm)
<1>1. PICK fault \in Fault :
        /\ fault => mayResume(s)
        /\ stream' = IF mayResume(s) THEN driveProvider(s, fault) ELSE s
        /\ Count(fault)
  BY DEF ResumeTimer
<1>2. /\ ~Stopped(stream) /\ tm.key = "resume"
      /\ UNCHANGED <<subagent, connected, orphanCheck, turn, engaged, superseded, calledIn,
                     results, lost, nudged, disconnects>>
  BY DEF ResumeTimer
<1>3. faults' \in 0..MaxFaults /\ fault \in BOOLEAN
  BY <1>1, FaultCounted DEF ActorInv
<1>4. RestOK'
  BY <1>2, <1>3 DEF ActorInv, TypeOK, RestOK
<1>5. /\ StreamOK(s) /\ Kept(stream, s) /\ SamePasses(stream, s)
      /\ s.action = stream.action /\ s.completion = stream.completion
      /\ s.status = stream.status /\ s.phase = stream.phase
  BY TimerCleared DEF ActorInv, StreamInv
<1> HIDE DEF s
<1>6. Pending(s) = Pending(stream) /\ (Waiting(s) <=> Pending(s) # {})
  BY <1>5 DEF Kept, Pending, Waiting
<1>7. CASE ~mayResume(s)
  <2>1. stream' = s
    BY <1>1, <1>7
  <2>2. ResumeArmed(stream) => s.active \/ Pending(s) # {}
    BY <1>5, <1>6, <1>7 DEF ResumeArmed, mayResume
  <2> QED
    BY <1>2, <1>4, <1>5, <1>6, <2>1, <2>2, TimersOnlyStep
<1>8. CASE mayResume(s)
  <2>1. ~s.active /\ s.action = "resume" /\ Pending(s) = {} /\ stream' = driveProvider(s, fault)
    BY <1>1, <1>6, <1>8 DEF mayResume
  <2>2. ~Stopped(s) /\ OnePass(s)
    BY <1>2, <1>5 DEF ActorInv, StreamInv, SamePasses, OnePass, Stopped
  <2>3. /\ StreamOK(stream') /\ Kept(s, stream')
        /\ fault => Ended(s, stream')
        /\ ~fault => /\ stream'.active /\ stream'.action = "none" /\ Heard(stream')
                    /\ OnePass(stream') /\ stream'.status = "streaming" /\ ~Stopped(stream')
    BY <1>3, <1>5, <2>1, <2>2, ProviderDriven
  <2>4. StreamInv(stream') /\ Pending(stream') = Pending(stream)
        /\ (Stopped(stream') \/ Coming(stream'))
    <3>1. CASE fault
      BY <1>6, <2>3, <3>1, EndedKeeps
    <3>2. CASE ~fault
      BY <1>6, <2>3, <3>2 DEF StreamInv, StartWaits, Kept, Pending, Coming
    <3> QED
      BY <1>3, <3>1, <3>2
  <2>5. turn # 0
    BY <1>5, <2>1 DEF ActorInv, CallInv
  <2> QED
    BY <1>2, <1>4, <1>6, <2>1, <2>4, <2>5, QuietStep DEF BackToWork
<1> QED
  BY <1>7, <1>8

LEMMA RecoveryTimerKeeps ==
    ASSUME ActorInv, NEW tm \in stream.timers, RecoveryTimer(tm)
    PROVE  ActorInv' /\ BackToWork
<1> DEFINE e == tm.key
           s == clearStreamTimer(stream, tm)
           f == forgetExec(s, e)
           r == reconcileStream(f, FALSE)
<1>1. ~Stopped(stream) /\ e \in Execs /\ e # "resume"
  BY ToolsApart DEF RecoveryTimer
<1>2. /\ StreamOK(s) /\ Kept(stream, s) /\ SamePasses(stream, s)
      /\ s.action = stream.action /\ s.completion = stream.completion
      /\ s.status = stream.status /\ s.phase = stream.phase
      /\ ResumeArmed(stream) => ResumeArmed(s)
  BY <1>1, TimerCleared DEF ActorInv, StreamInv
<1>3. Pending(s) = Pending(stream)
  BY <1>2 DEF Kept, Pending
<1>4. CASE e \notin stream.closed
  <2>1. /\ stream' = s
        /\ UNCHANGED <<subagent, connected, orphanCheck, turn, engaged, superseded, calledIn,
                       results, lost, nudged, disconnects, faults>>
    BY <1>4 DEF RecoveryTimer
  <2>2. RestOK'
    BY <2>1 DEF ActorInv, TypeOK, RestOK
  <2> HIDE DEF s
  <2> QED
    BY <1>1, <1>2, <1>3, <2>1, <2>2, TimersOnlyStep
<1>5. CASE e \in stream.closed
  <2>1. PICK fault \in Fault : Recorded(IF fault THEN Failed(f) ELSE r, e, fault)
    BY <1>5 DEF RecoveryTimer
  <2> HIDE DEF s
  <2>2. e \in s.execs /\ e \in Pending(stream)
    BY <1>2, <1>5 DEF ActorInv, StreamInv, StreamOK, Kept, Pending
  <2>3. StreamOK(f) /\ Carries(s, f) /\ Pending(f) = Pending(stream) \ {e}
    BY <1>2, <1>3, <2>2, ExecForgotten
  <2> HIDE DEF f
  <2>4. Carries(stream, f)
    BY <1>2, <2>3 DEF Carries, SamePasses, OnePass, Heard
  <2>5. /\ StreamInv(r) /\ Pending(r) = Pending(stream) \ {e} /\ r.active = stream.active
        /\ Coming(stream) => Stopped(r) \/ Coming(r)
    BY <1>1, <2>2, <2>3, <2>4, AnswerCarriedOn
  <2> HIDE DEF r
  <2>6. CASE fault
    <3>1. /\ StreamInv(Failed(f)) /\ Pending(Failed(f)) = Pending(stream) \ {e}
          /\ ~Failed(f).active
      BY <2>3, FailedEnds, EndedKeeps DEF Ended
    <3> QED
      BY <1>1, <2>1, <2>2, <2>6, <3>1, RecordedStep
  <2>7. CASE ~fault
    BY <1>1, <2>1, <2>2, <2>5, <2>7, RecordedStep
  <2> QED
    BY <2>6, <2>7
<1> QED
  BY <1>4, <1>5

LEMMA OrphanTimerKeeps ==
    ASSUME ActorInv, NEW tm \in stream.timers, OrphanTimer(tm)
    PROVE  ActorInv' /\ BackToWork
<1> DEFINE s == clearStreamTimer(stream, tm)
<1>1. PICK fault \in Fault :
        /\ stream' = IF connected THEN s ELSE IF fault THEN Failed(s) ELSE Canceled(s)
        /\ Count(fault)
  BY DEF OrphanTimer
<1>2. /\ ~Stopped(stream) /\ tm.key = "orphan"
      /\ UNCHANGED <<subagent, connected, orphanCheck, turn, engaged, superseded, calledIn,
                     results, lost, nudged, disconnects>>
  BY DEF OrphanTimer
<1>3. faults' \in 0..MaxFaults /\ fault \in BOOLEAN
  BY <1>1, FaultCounted DEF ActorInv
<1>4. RestOK'
  BY <1>2, <1>3 DEF ActorInv, TypeOK, RestOK
<1>5. /\ StreamOK(s) /\ Kept(stream, s) /\ SamePasses(stream, s)
      /\ s.action = stream.action /\ s.completion = stream.completion
      /\ s.status = stream.status /\ s.phase = stream.phase
      /\ ResumeArmed(stream) => ResumeArmed(s)
  BY <1>2, TimerCleared DEF ActorInv, StreamInv
<1> HIDE DEF s
<1>6. Pending(s) = Pending(stream)
  BY <1>5 DEF Kept, Pending
<1>7. CASE connected
  <2>1. stream' = s
    BY <1>1, <1>7
  <2> QED
    BY <1>2, <1>4, <1>5, <1>6, <2>1, TimersOnlyStep
<1>8. CASE ~connected
  <2>1. /\ StreamInv(stream') /\ Stopped(stream') /\ Pending(stream') = Pending(stream)
        /\ Ended(s, stream')
        /\ s.passes = {} => stream'.passes = {}
    BY <1>1, <1>5, <1>6, <1>8, FailedEnds, CanceledEnds, EndedKeeps
  <2>2. turn = 0 => stream'.passes = {} /\ stream'.action = "none"
    BY <1>5, <2>1 DEF ActorInv, CallInv, SamePasses, Ended
  <2> QED
    BY <1>2, <1>4, <2>1, <2>2, QuietStep DEF BackToWork, Ended
<1> QED
  BY <1>7, <1>8

LEMMA ConnectionKeeps ==
    ASSUME ActorInv, Disconnect \/ Reconnect
    PROVE  ActorInv' /\ BackToWork
<1>1. /\ ~Stopped(stream) /\ stream' = stream
      /\ UNCHANGED <<turn, engaged, superseded, calledIn, results, lost>>
  BY DEF Disconnect, Reconnect
<1>2. RestOK'
  <2>1. CASE Disconnect
    <3>1. disconnects' \in 0..MaxDisconnects
      BY <2>1, ActorAssumption DEF Disconnect, ActorInv, TypeOK
    <3> QED
      BY <2>1, <3>1 DEF Disconnect, ActorInv, TypeOK, RestOK
  <2>2. CASE Reconnect
    BY <2>2 DEF Reconnect, ActorInv, TypeOK, RestOK
  <2> QED
    BY <2>1, <2>2
<1> QED
  BY <1>1, <1>2, QuietStep DEF BackToWork, ActorInv, CallInv

LEMMA MaybeOrphanedKeeps ==
    ASSUME ActorInv, MaybeOrphaned
    PROVE  ActorInv' /\ BackToWork
<1>1. /\ ~Stopped(stream) /\ orphanCheck' = FALSE
      /\ stream' = IF connected THEN stream ELSE scheduleStreamTimer(stream, "orphan")
      /\ UNCHANGED <<subagent, connected, turn, engaged, superseded, calledIn,
                     results, lost, nudged, disconnects, faults>>
  BY DEF MaybeOrphaned
<1>2. RestOK'
  BY <1>1 DEF ActorInv, TypeOK, RestOK
<1>3. CASE connected
  BY <1>1, <1>2, <1>3, QuietStep DEF BackToWork, ActorInv, CallInv
<1>4. CASE ~connected
  <2>1. "orphan" \in TimerKeys /\ "resume" \in TimerKeys
    BY ToolsApart
  <2>2. StreamOK(stream) /\ stream' = scheduleStreamTimer(stream, "orphan")
    BY <1>1, <1>4 DEF ActorInv, StreamInv
  <2>3. /\ StreamOK(stream') /\ Kept(stream, stream') /\ SamePasses(stream, stream')
        /\ stream'.action = stream.action /\ stream'.completion = stream.completion
        /\ stream'.status = stream.status /\ stream'.phase = stream.phase
        /\ stream.timers \subseteq stream'.timers
        /\ \A k \in TimerKeys \ {"orphan"} : stream'.timerTokens[k] = stream.timerTokens[k]
    BY <2>1, <2>2, TimerScheduled
  <2>4. ResumeArmed(stream) => ResumeArmed(stream')
    BY <2>1, <2>3 DEF ResumeArmed
  <2>5. Pending(stream') = Pending(stream)
    BY <2>3 DEF Kept, Pending
  <2> QED
    BY <1>1, <1>2, <2>3, <2>4, <2>5, TimersOnlyStep
<1> QED
  BY <1>3, <1>4

LEMMA StepKeeps ==
    ASSUME ActorInv, Next
    PROVE  ActorInv' /\ BackToWork
<1>1. CASE \E prewarm \in BOOLEAN : Run(prewarm)
  BY <1>1, RunKeeps
<1>2. CASE CancelIntent
  BY <1>2, CancelIntentKeeps
<1>3. CASE PassWorks
  BY <1>3, ToolInvocationKeeps, ImmediateResultKeeps, InvocationFailsKeeps DEF PassWorks
<1>4. CASE PassEnds
  BY <1>4, ProviderDoneKeeps, InterruptedKeeps, FallbackKeeps DEF PassEnds
<1>5. CASE Answered
  BY <1>5, ExecAnsweredKeeps, QueryAnsweredKeeps, ImageReadyKeeps DEF Answered
<1>6. CASE \E e \in Execs : ExecClosed(e)
  BY <1>6, ExecClosedKeeps
<1>7. CASE TimerFires
  BY <1>7, StaleTimerKeeps, ResumeTimerKeeps, RecoveryTimerKeeps, OrphanTimerKeeps DEF TimerFires
<1>8. CASE Disconnect \/ Reconnect \/ MaybeOrphaned
  BY <1>8, ConnectionKeeps, MaybeOrphanedKeeps
<1> QED
  BY <1>1, <1>2, <1>3, <1>4, <1>5, <1>6, <1>7, <1>8 DEF Next

LEMMA ActorInvInitially == Init => ActorInv
<1> SUFFICES ASSUME Init PROVE ActorInv
  OBVIOUS
<1>1. StreamOK(stream)
  <2>1. [k \in TimerKeys |-> 0] \in [TimerKeys -> Nat]
    OBVIOUS
  <2>2. stream \in ActiveStream
    BY <2>1 DEF Init, ActiveStream, Status, Phase, Action, Completion
  <2> QED
    BY <2>2 DEF Init, StreamOK
<1>2. StreamInv(stream) /\ Pending(stream) = {}
  BY <1>1 DEF Init, StreamInv, OnePass, StartWaits, Stopped, Terminal, Pending
<1>3. /\ 0 \in 0..MaxRuns /\ 0 \in 0..MaxDisconnects /\ 0 \in 0..MaxFaults
      /\ \A t \in Tools : calledIn[t] = 0 /\ results[t] = 0
      /\ turn = 0 /\ ~engaged /\ stream.passes = {} /\ stream.action = "none"
  BY ActorAssumption DEF Init
<1>4. TypeOK
  BY <1>1, <1>3 DEF Init, TypeOK
<1>5. CallInv /\ SettledInv /\ ComingInv
  BY <1>2, <1>3 DEF CallInv, SettledInv, ComingInv
<1> QED
  BY <1>2, <1>4, <1>5 DEF ActorInv

LEMMA ActorInvAlways == Spec => []ActorInv
<1>1. ActorInv /\ UNCHANGED vars => ActorInv'
  BY DEF vars, ActorInv, TypeOK, CallInv, SettledInv, ComingInv, StreamInv, OnePass, StartWaits,
     Coming, Heard, Live, ResumeArmed, Pending, Stopped, StreamOK
<1> QED
  BY <1>1, ActorInvInitially, StepKeeps, PTL DEF Spec

-----------------------------------------------------------------------------
(* The actor's state keeps its types: a closed exec is pending, tokens and *)
(* cancel functions are those of passes that were begun.                   *)
THEOREM ActorTypeCorrect == Spec => []TypeOK
BY ActorInvAlways, PTL DEF ActorInv

(* The two parts of NothingTwice follow from CallInv and from OnePass.     *)
LEMMA InvForbidsRepeats == ActorInv => NothingTwice
<1> SUFFICES ASSUME ActorInv PROVE NothingTwice
  OBVIOUS
<1>1. OneResultPerCall
  BY DEF ActorInv, CallInv, OneResultPerCall
<1>2. OnePassAtATime
  <2> SUFFICES ASSUME ~Stopped(stream)
               PROVE  Cardinality({p \in stream.passes : p.pc \in {"running", "erring"}}) <= 1
    BY DEF OnePassAtATime
  <2> DEFINE L == {p \in stream.passes : p.pc \in {"running", "erring"}}
  <2>1. \A p \in L : L = {p}
    BY DEF ActorInv, StreamInv, OnePass, Live
  <2>2. CASE L = {}
    BY <2>2, FS_EmptySet
  <2>3. CASE L # {}
    <3>1. PICK p \in L : L = {p}
      BY <2>1, <2>3
    <3> HIDE DEF L
    <3> QED
      BY <3>1, FS_Singleton DEF L
  <2> QED
    BY <2>2, <2>3
<1> QED
  BY <1>1, <1>2 DEF NothingTwice

(* A call's result is recorded once and passes do not overlap              *)
(* (handleExecResult, handleExecControl, driveProvider), in every run.     *)
THEOREM ActorRepeatsNothing == Spec => []NothingTwice
BY ActorInvAlways, InvForbidsRepeats, PTL

(* An engaged turn that no second run disturbed and whose results the      *)
(* history took has something coming: a heard pass, a pending call or the  *)
(* armed resume timer. A stopped stream has its verdict or a last look.    *)
LEMMA InvForbidsStranding == ActorInv => NeverStranded
<1> SUFFICES ASSUME ActorInv PROVE NeverStranded
  OBVIOUS
<1>1. Coming(stream) => Awaited
  BY DEF Coming, Heard, Live, Listening, ResumeArmed, Pending, Awaited, Waiting
<1> QED
  BY <1>1 DEF NeverStranded, ActorInv, ComingInv, StreamInv

(* reconcileStream never leaves an engaged turn with nobody to move it on. *)
THEOREM ActorNeverStrands == Spec => []NeverStranded
BY ActorInvAlways, InvForbidsStranding, PTL

-----------------------------------------------------------------------------
(* The actor implements TurnContract.                                      *)

(* What the steps do to the calls of a turn.                               *)
LEMMA CallsAccumulate ==
    ASSUME ActorInv, Next
    PROVE  /\ lost \subseteq lost' /\ lost' \subseteq Tools
           /\ \/ Asked' = {} /\ AnsweredCalls' = {} /\ turn' # turn
              \/ /\ Asked \subseteq Asked' /\ Asked' \subseteq Tools
                 /\ Asked' # Asked => stream.active
                 /\ AnsweredCalls \subseteq AnsweredCalls'
                 /\ AnsweredCalls' \subseteq Asked'
                 /\ turn' = turn
<1>1. ASSUME NEW prewarm \in BOOLEAN, Run(prewarm)
      PROVE  lost' = lost /\ Asked' = {} /\ AnsweredCalls' = {} /\ turn' # turn
  BY <1>1 DEF Run, Asked, AnsweredCalls, Called, ActorInv, CallInv, TypeOK
<1>2. ASSUME UNCHANGED <<turn, calledIn, results, lost>>
      PROVE  lost' = lost /\ Asked' = Asked /\ AnsweredCalls' = AnsweredCalls /\ turn' = turn
  BY <1>2 DEF Asked, AnsweredCalls, Called
<1>3. ASSUME NEW s, NEW t \in Tools, NEW fault \in Fault, Recorded(s, t, fault)
      PROVE  /\ lost \subseteq lost' /\ lost' \subseteq lost \cup {t} /\ turn' = turn
             /\ Asked' = Asked /\ AnsweredCalls \subseteq AnsweredCalls'
  <2>1. /\ lost \subseteq lost' /\ lost' \subseteq lost \cup {t}
        /\ turn' = turn /\ calledIn' = calledIn
        /\ \A u \in Tools : results[u] > 0 => results'[u] > 0
    BY <1>3 DEF Recorded, ActorInv, TypeOK
  <2> QED
    BY <2>1 DEF Asked, AnsweredCalls, Called
<1>4. ASSUME NEW p \in stream.passes, Live(p), ~Stopped(stream), NEW t \in Tools,
             calledIn[t] = 0, calledIn' = [calledIn EXCEPT ![t] = turn],
             UNCHANGED <<turn, lost>>,
             results' = results \/ results' = [results EXCEPT ![t] = @ + 1]
      PROVE  /\ lost' = lost /\ Asked \subseteq Asked' /\ stream.active /\ turn' = turn
             /\ AnsweredCalls \subseteq AnsweredCalls'
  <2>1. stream.active /\ turn # 0
    BY <1>4, LivePass
  <2>2. \A u \in Tools \ {t} : calledIn'[u] = calledIn[u] /\ results'[u] = results[u]
    BY <1>4 DEF ActorInv, TypeOK
  <2>3. t \notin Asked
    BY <1>4, <2>1 DEF Asked, Called
  <2> QED
    BY <1>4, <2>1, <2>2, <2>3 DEF Asked, AnsweredCalls, Called
<1>5. lost \subseteq Tools /\ Asked' \subseteq Tools /\ AnsweredCalls' \subseteq Asked'
  BY DEF ActorInv, TypeOK, Asked, AnsweredCalls
<1>6. CASE \E prewarm \in BOOLEAN : Run(prewarm)
  BY <1>1, <1>5, <1>6
<1>7. CASE PassWorks
  BY <1>2, <1>4, <1>5, <1>7 DEF PassWorks, ToolInvocation, ImmediateResult, InvocationFails,
       Live, Tools
<1>8. CASE Answered
  BY <1>2, <1>3, <1>5, <1>8 DEF Answered, ExecAnswered, QueryAnswered, ImageReady, Tools
<1>9. CASE TimerFires
  BY <1>2, <1>3, <1>5, <1>9 DEF TimerFires, StaleTimer, ResumeTimer, RecoveryTimer, OrphanTimer,
       Tools
<1>10. CASE PassEnds
  BY <1>2, <1>5, <1>10 DEF PassEnds, ProviderDone, Interrupted, Fallback
<1>11. CASE \/ CancelIntent \/ Disconnect \/ Reconnect \/ MaybeOrphaned
            \/ \E e \in Execs : ExecClosed(e)
  BY <1>2, <1>5, <1>11 DEF CancelIntent, Disconnect, Reconnect, MaybeOrphaned, ExecClosed
<1> QED
  BY <1>6, <1>7, <1>8, <1>9, <1>10, <1>11 DEF Next

(* A stream that has its verdict keeps it, and its calls.                  *)
LEMMA VerdictStays ==
    ASSUME ActorInv, Next, stream.status \in Terminal
    PROVE  UNCHANGED <<Verdict, stream.active, Asked, AnsweredCalls, lost>>
<1>1. Stopped(stream)
  BY DEF Stopped
<1>2. PICK p \in stream.passes : Interrupted(p) \/ Fallback(p)
  BY <1>1 DEF Next, Run, CancelIntent, PassWorks, ToolInvocation, ImmediateResult,
       InvocationFails, PassEnds, ProviderDone, Answered, ExecAnswered, QueryAnswered, ImageReady,
       ExecClosed, TimerFires, StaleTimer, ResumeTimer, RecoveryTimer, OrphanTimer, Disconnect,
       Reconnect, MaybeOrphaned
<1>3. UNCHANGED <<turn, calledIn, results, lost>>
  BY <1>2 DEF Interrupted, Fallback
<1>4. stream'.status = stream.status /\ stream'.active = stream.active
  <2>1. CASE Interrupted(p)
    BY <2>1 DEF Interrupted, Leave, ActorInv, StreamInv, StreamOK, ActiveStream
  <2>2. CASE Fallback(p)
    BY <2>2 DEF Fallback, failStreamIfNonTerminal, ActorInv, StreamInv, StreamOK, ActiveStream
  <2> QED
    BY <1>2, <2>1, <2>2
<1> QED
  BY <1>3, <1>4 DEF Verdict, Asked, AnsweredCalls, Called

LEMMA StepKeepsContract ==
    ASSUME ActorInv, Next, ActorInv', BackToWork
    PROVE  Contract!Next \/ UNCHANGED Contract!vars
<1>1. CASE stream.status \in Terminal
  BY <1>1, VerdictStays DEF Contract!vars
<1>2. CASE stream.status \notin Terminal
  <2>1. Verdict = "open" /\ Verdict' \in Contract!Verdicts \cup {"open"}
    BY <1>2 DEF Verdict, Contract!Verdicts, Terminal
  <2>2. stream'.active \in BOOLEAN
    BY DEF ActorInv, StreamInv, StreamOK, ActiveStream
  <2>3. (Asked \ Pending(stream) \subseteq AnsweredCalls \cup lost)'
    BY DEF ActorInv, SettledInv, CallInv, TypeOK, Asked, AnsweredCalls, Called
  <2>4. Contract!NewTurn \/ Contract!SameTurn
    BY CallsAccumulate DEF Contract!NewTurn, Contract!SameTurn
  <2>5. ~stream.active /\ stream'.active => Asked' \subseteq Contract!Settled'
    BY <2>3, CallsAccumulate DEF BackToWork, Contract!Settled
  <2>6. Verdict' = "completed" =>
          ~stream'.active /\ Asked' \ Images \subseteq Contract!Settled'
    BY <2>3 DEF Verdict, Terminal, ActorInv, StreamInv, Contract!Settled
  <2> QED
    BY <2>1, <2>2, <2>4, <2>5, <2>6, CallsAccumulate DEF Contract!Next
<1> QED
  BY <1>1, <1>2

(* Whatever the order in which the model, the tools, the timers and the    *)
(* user are heard, the model goes back to work, and the turn completes,    *)
(* only with every call answered, and the first verdict stands.            *)
THEOREM ActorKeepsContract == Spec => KeepsContract
<1>1. Init => Contract!Init
  BY DEF Init, Contract!Init, Verdict, Terminal, Asked, AnsweredCalls
<1>2. ActorInv /\ [Next]_vars => [Contract!Next]_(Contract!vars)
  <2>1. ASSUME ActorInv, Next PROVE Contract!Next \/ UNCHANGED Contract!vars
    BY <2>1, StepKeeps, StepKeepsContract
  <2>2. UNCHANGED vars => UNCHANGED Contract!vars
    BY DEF vars, Contract!vars, Verdict, Asked, AnsweredCalls, Called
  <2> QED
    BY <2>1, <2>2
<1> QED
  BY <1>1, <1>2, ActorInvAlways, PTL DEF Spec, KeepsContract, Contract!Spec
=============================================================================
