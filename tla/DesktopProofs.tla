------------------------------ MODULE DesktopProofs ------------------------------
(***************************************************************************)
(* Theorems about the desktop program.  About DesktopApp, for any keys,    *)
(* any number of edits, launches and releases: what the life of the        *)
(* process leaves in Cursor's settings, and what the updater leaves on the *)
(* disk.  About ConfigStore: every copy of the configuration keeps its     *)
(* form; the manager serves what the file says whenever its snapshot is    *)
(* that of the file; a save of the form takes no multiplier away; prices   *)
(* stay as the user said.                                                  *)
(*                                                                         *)
(* The hash of the last channel is left open: it is the head of a sorted   *)
(* sequence, and that a sort of any length returns its own elements is an  *)
(* induction over data.                                                    *)
(***************************************************************************)
EXTENDS DesktopApp, ConfigStore, TLAPS

(* The desktop program implements the life of the process: the updater only *)
(* launches the program and waits for its end.                              *)
LEMMA DesktopStepIsLifecycleStep == [DesktopNext]_<<vars, updater>> => [Next]_vars
BY DEF DesktopNext, Lives, Checks, CheckEnds, Installs, Relaunch, UserLaunches, Ends, Next

-----------------------------------------------------------------------------
(* Start, stop and quit: who is at work, and what is up.                    *)

Stages == {"idle", "starting", "running", "failed", "stopping"}
StartAts == {"backend", "proxy", "restore", "drop_backup", "back_up", "inject", "rollback"}
StopAts == {"proxy", "clear", "drop_backup", "backend"}
QuitAts == {"none", "clear", "drop_backup", "backend", "end"}

Jobs ==
    [op : {"none", "start", "stop"}, at : {"none"} \cup StartAts \cup StopAts,
     proxyWas : BOOLEAN, backendWas : BOOLEAN]
Quits == [at : QuitAts, locked : BOOLEAN, again : BOOLEAN, cleared : BOOLEAN]

LifecycleTypeOK ==
    /\ settings \in [kind : {"ok", "missing", "corrupt"}, keys : [Keys -> Values]]
    /\ backup \in [kind : {"none", "ok", "broken"}, keys : [Keys -> Values]]
    /\ found \in [Keys -> Values]
    /\ edits \in 0 .. MaxEdits
    /\ alive \in BOOLEAN /\ backend \in BOOLEAN /\ proxy \in BOOLEAN
    /\ stage \in Stages
    /\ job \in Jobs
    /\ quit \in Quits

(* A service that is said to run has no start or stop under way; a quit that *)
(* holds the lock keeps both out, and only such a quit clears the settings.  *)
LockInv ==
    /\ stage = "running" => job = Idle
    /\ job.op = "stop" => stage = "stopping"
    /\ quit.locked => job = Idle
    /\ quit.cleared \/ quit.at = "drop_backup" => quit.locked
    /\ ~alive => job = Idle /\ quit = NoQuit

(* Until a quit begins, what a start has brought up serves.                 *)
ServingInv ==
    quit = NoQuit =>
       /\ job.op = "start" /\ job.at \in StartAts \ {"backend", "rollback"} => backend
       /\ job.op = "start" /\ job.at \in StartAts \ {"backend", "proxy", "rollback"} => proxy
       /\ stage = "running" => backend /\ proxy

(* Injected values are in the file only over a backup that has none of them, *)
(* and a backup is dropped only when they are out of it.                     *)
CleanInv ==
    /\ \A k \in Keys : backup.keys[k] # Injected
    /\ HasInjected => backup.kind # "none"
    /\ settings.kind = "missing" => settings.keys = NoKeys
    /\ job.at = "drop_backup" => ~HasInjected
    /\ job.op = "start" /\ job.at = "inject" => backup.kind # "none"
    /\ job.op = "stop" /\ job.at = "backend" => ~HasInjected
    /\ job.op = "stop" /\ job.at \in StopAts \ {"proxy"} => ~proxy
    /\ quit.cleared \/ quit.at = "drop_backup" => ~HasInjected

LifecycleInv == LifecycleTypeOK /\ LockInv /\ ServingInv /\ CleanInv

(* With neither of the quirks, the backup is what the injected values have  *)
(* replaced; and without injected values, it is what the file says.         *)
ExactInv ==
    /\ backup.kind # "broken"
    /\ backup.kind = "ok" => (IF HasInjected THEN found ELSE settings.keys) = backup.keys
    /\ settings.kind = "corrupt" => backup.kind = "none"

(* While the service runs, the key by which the program knows its own work  *)
(* is in the file.                                                          *)
PointedInv == stage = "running" /\ quit = NoQuit => settings.keys["exclusive"] = Injected
-----------------------------------------------------------------------------
(* Every step of the life of the process, by name.                          *)
LEMMA LifecycleSteps ==
    ASSUME [Next]_vars
    PROVE  \/ StartProxy \/ StartBackend \/ StartMITM \/ RestoreFromCrash
           \/ DropBackupAfterCrash \/ BackUp \/ Inject \/ Rollback
           \/ StopProxy \/ StopMITM \/ ClearSettings \/ DropBackup \/ StopBackend
           \/ \E fromTray \in BOOLEAN : ShutdownForQuit(fromTray)
           \/ QuitClears \/ QuitDropsBackup \/ QuitStopsBackend \/ QuitAgain
           \/ UserEdits \/ Exit \/ Launch \/ Crash \/ UNCHANGED vars
BY DEF Next, Step

(* Values of the keys: the injected one is none of the user's.              *)
LEMMA KeyFacts ==
    /\ NoKeys \in [Keys -> Values]
    /\ \A k \in Keys : NoKeys[k] # Injected
    /\ [k \in Keys |-> Injected] \in [Keys -> Values]
    /\ "exclusive" \in Keys
    /\ Absent # Injected
    /\ \A n \in 0 .. MaxEdits : n < MaxEdits =>
          n + 1 \in 0 .. MaxEdits /\ n + 1 \in Values /\ n + 1 # Injected
BY BoundsAssumption DEF NoKeys, Values, Absent, Injected, Keys

(* What a stop, a quit or a start after a crash writes into the file.       *)
LEMMA RestoredKeys ==
    ASSUME LifecycleTypeOK, \A k \in Keys : backup.keys[k] # Injected
    PROVE  /\ restoredKeys \in [Keys -> Values]
           /\ \A k \in Keys : restoredKeys[k] # Injected
BY KeyFacts DEF LifecycleTypeOK, restoredKeys, restoreCursorSettingsKeys

(* A job that moves on stays what it is, and so does a quit.                *)
LEMMA JobMoves ==
    ASSUME job \in Jobs, NEW a \in StartAts \cup StopAts, Goto(a)
    PROVE  job' \in Jobs /\ job'.op = job.op /\ job'.at = a
BY DEF Goto, Jobs

LEMMA QuitMoves ==
    ASSUME quit \in Quits, NEW a \in QuitAts,
           \/ QuitGoto(a)
           \/ quit' = [quit EXCEPT !.at = a, !.cleared = TRUE]
    PROVE  /\ quit' \in Quits
           /\ quit'.at = a
           /\ quit'.locked = quit.locked
           /\ QuitGoto(a) => quit'.cleared = quit.cleared
<1>1. CASE QuitGoto(a)
  BY <1>1 DEF QuitGoto, Quits
<1>2. CASE quit' = [quit EXCEPT !.at = a, !.cleared = TRUE]
  <2>1. quit' \in Quits /\ quit'.at = a /\ quit'.locked = quit.locked
    BY <1>2 DEF Quits
  <2>2. QuitGoto(a) => quit'.cleared = quit.cleared
    BY <1>1 DEF QuitGoto, Quits
  <2> QED BY <2>1, <2>2
<1> QED BY <1>1, <1>2

(* Nobody at work; a quit that begins.                                      *)
LEMMA Rests ==
    /\ Idle \in Jobs /\ Idle.op = "none" /\ Idle.at = "none"
    /\ NoQuit \in Quits /\ NoQuit.at = "none"
    /\ NoQuit.locked = FALSE /\ NoQuit.cleared = FALSE
BY DEF Idle, Jobs, NoQuit, Quits, QuitAts

QuitBegins(again) ==
    quit' = [at |-> "clear", locked |-> lockHeld, again |-> again, cleared |-> FALSE]

LEMMA QuitBeginning ==
    ASSUME NEW again \in BOOLEAN, QuitBegins(again)
    PROVE  /\ quit' \in Quits
           /\ quit'.at = "clear"
           /\ quit'.locked = (job = Idle)
           /\ quit'.cleared = FALSE
<1>1. lockHeld \in BOOLEAN
  BY DEF lockHeld
<1>2. quit' \in Quits /\ quit'.at = "clear" /\ quit'.locked = lockHeld
      /\ quit'.cleared = FALSE
  BY <1>1 DEF QuitBegins, Quits, QuitAts
<1> QED BY <1>2 DEF lockHeld

(* How a step moves the job: it begins one, moves it on, ends it or leaves  *)
(* it alone.                                                                *)
LEMMA JobChanges ==
    ASSUME [Next]_vars
    PROVE  \/ StartProxy \/ StopProxy
           \/ \E a \in StartAts \cup StopAts : Goto(a)
           \/ job' = Idle
           \/ job' = job
<1>1. CASE StartProxy \/ StopProxy
  BY <1>1
<1>2. CASE \/ StartBackend \/ StartMITM \/ RestoreFromCrash \/ DropBackupAfterCrash \/ BackUp
           \/ Inject \/ Rollback \/ StopMITM \/ ClearSettings \/ DropBackup \/ StopBackend
  BY <1>2 DEF StartBackend, StartMITM, RestoreFromCrash, DropBackupAfterCrash, BackUp,
              Inject, Rollback, StopMITM, ClearSettings, DropBackup, StopBackend, StopFails,
              StartAts, StopAts
<1>3. CASE \/ \E fromTray \in BOOLEAN : ShutdownForQuit(fromTray)
           \/ QuitClears \/ QuitDropsBackup \/ QuitStopsBackend \/ QuitAgain
           \/ UserEdits \/ Exit \/ Launch \/ Crash \/ UNCHANGED vars
  BY <1>3 DEF ShutdownForQuit, QuitClears, QuitDropsBackup, QuitStopsBackend, QuitAgain,
              UserEdits, Exit, Launch, Crash, Gone, vars
<1> QED BY <1>1, <1>2, <1>3, LifecycleSteps

(* How it moves the quit.                                                   *)
LEMMA QuitChanges ==
    ASSUME [Next]_vars
    PROVE  \/ quit' = quit
           \/ quit' = NoQuit
           \/ \E a \in QuitAts :
                 \/ QuitGoto(a)
                 \/ quit' = [quit EXCEPT !.at = a, !.cleared = TRUE]
           \/ \E again \in BOOLEAN : QuitBegins(again)
<1>1. CASE \/ StartProxy \/ StartBackend \/ StartMITM \/ RestoreFromCrash
           \/ DropBackupAfterCrash \/ BackUp \/ Inject \/ Rollback
           \/ StopProxy \/ StopMITM \/ ClearSettings \/ DropBackup \/ StopBackend
           \/ UserEdits \/ Launch \/ UNCHANGED vars
  BY <1>1 DEF StartProxy, StartBackend, StartMITM, RestoreFromCrash, DropBackupAfterCrash,
              BackUp, Inject, Rollback, StopProxy, StopMITM, ClearSettings, DropBackup,
              StopBackend, UserEdits, Launch, vars
<1>2. CASE Exit \/ Crash
  BY <1>2 DEF Exit, Crash, Gone
<1>3. CASE QuitAgain \/ \E fromTray \in BOOLEAN : ShutdownForQuit(fromTray)
  BY <1>3 DEF QuitAgain, ShutdownForQuit, QuitBegins
<1>4. CASE QuitClears \/ QuitDropsBackup \/ QuitStopsBackend
  BY <1>4 DEF QuitClears, QuitDropsBackup, QuitStopsBackend, QuitAts
<1> QED BY <1>1, <1>2, <1>3, <1>4, LifecycleSteps

LEMMA LifecycleTypeStep ==
    ASSUME LifecycleTypeOK, CleanInv, [Next]_vars
    PROVE  LifecycleTypeOK'
<1> USE DEF LifecycleTypeOK, files, user, server
<1>1. job' \in Jobs
  <2>1. CASE StartProxy
    BY <2>1 DEF StartProxy, Jobs, StartAts
  <2>2. CASE StopProxy
    BY <2>2 DEF StopProxy, Jobs, StopAts, Idle
  <2> QED BY <2>1, <2>2, JobChanges, JobMoves, Rests
<1>2. quit' \in Quits
  BY QuitChanges, QuitMoves, QuitBeginning, Rests
<1>3. /\ stage' \in Stages
      /\ alive' \in BOOLEAN /\ backend' \in BOOLEAN /\ proxy' \in BOOLEAN
  BY LifecycleSteps DEF StartProxy, StartBackend, StartMITM, RestoreFromCrash,
     DropBackupAfterCrash, BackUp, Inject, Rollback, StopProxy, StopMITM, ClearSettings,
     DropBackup, StopBackend, ShutdownForQuit, QuitClears, QuitDropsBackup,
     QuitStopsBackend, QuitAgain, UserEdits, Exit, Launch, Crash, Gone, vars,
     Stages, stageWhileStopping, keptOnRollback
<1>4. /\ settings' \in [kind : {"ok", "missing", "corrupt"}, keys : [Keys -> Values]]
      /\ found' \in [Keys -> Values]
      /\ edits' \in 0 .. MaxEdits
  <2>1. CASE RestoreFromCrash \/ ClearSettings \/ QuitClears
    BY <2>1, RestoredKeys DEF RestoreFromCrash, ClearSettings, QuitClears, ClearWrites,
              ClearFinds, Written, CleanInv
  <2>2. CASE BackUp \/ Inject
    BY <2>2, KeyFacts DEF BackUp, Inject, Missing, Written
  <2>3. CASE UserEdits
    <3>1. edits + 1 \in 0 .. MaxEdits /\ edits + 1 \in Values /\ edits' = edits + 1
          /\ found' = found
      BY <2>3, KeyFacts DEF UserEdits
    <3>2. CASE settings' = [settings EXCEPT !.kind = "corrupt"]
      BY <3>1, <3>2
    <3>3. CASE \E k \in UserKeys, v \in {Absent, edits + 1} :
                  settings' = [kind |-> "ok", keys |-> [settings.keys EXCEPT ![k] = v]]
      BY <3>1, <3>3, KeyFacts, KeysAssumption DEF Values, Absent, Injected
    <3> QED BY <2>3, <3>2, <3>3 DEF UserEdits
  <2>4. CASE UNCHANGED <<settings, found, edits>>
    BY <2>4
  <2> QED BY <2>1, <2>2, <2>3, <2>4, LifecycleSteps DEF StartProxy, StartBackend,
     StartMITM, DropBackupAfterCrash, Rollback, StopProxy, StopMITM, DropBackup, StopBackend,
     ShutdownForQuit, QuitDropsBackup, QuitStopsBackend, QuitAgain, Exit, Launch, Crash, vars
<1>5. backup' \in [kind : {"none", "ok", "broken"}, keys : [Keys -> Values]]
  <2>1. CASE DropBackupAfterCrash \/ DropBackup \/ QuitDropsBackup
    BY <2>1, KeyFacts DEF DropBackupAfterCrash, DropBackup, QuitDropsBackup, NoBackup
  <2>2. CASE BackUp
    BY <2>2 DEF BackUp, writeCursorSettingsBackup
  <2>3. CASE Crash
    BY <2>3, KeyFacts DEF Crash, TornBackup, NoBackup
  <2>4. CASE UNCHANGED backup
    BY <2>4
  <2> QED BY <2>1, <2>2, <2>3, <2>4, LifecycleSteps DEF StartProxy, StartBackend,
     StartMITM, RestoreFromCrash, Inject, Rollback, StopProxy, StopMITM, ClearSettings,
     StopBackend, ShutdownForQuit, QuitClears, QuitStopsBackend, QuitAgain, UserEdits,
     Exit, Launch, vars
<1> QED BY <1>1, <1>2, <1>3, <1>4, <1>5

LEMMA LockStep ==
    ASSUME LifecycleTypeOK, LockInv, [Next]_vars
    PROVE  LockInv'
<1> USE DEF LockInv, LifecycleTypeOK, files, user, server
<1>1. CASE StartProxy
  <2>1. job'.op = "start"
    BY <1>1 DEF StartProxy
  <2> QED BY <1>1, <2>1, Rests DEF StartProxy
<1>2. CASE StopProxy
  BY <1>2 DEF StopProxy, stageWhileStopping
<1>3. CASE \/ StartBackend \/ StartMITM \/ RestoreFromCrash
           \/ DropBackupAfterCrash \/ BackUp \/ Inject \/ Rollback
  <2>1. job # Idle /\ job.op = "start" /\ alive
    BY <1>3, Rests DEF StartBackend, StartMITM, RestoreFromCrash, DropBackupAfterCrash,
              BackUp, Inject, Rollback, At
  <2>2. alive' = alive /\ quit' = quit
    BY <1>3 DEF StartBackend, StartMITM, RestoreFromCrash, DropBackupAfterCrash, BackUp,
                Inject, Rollback
  <2>3. job' = Idle \/ \E a \in StartAts : Goto(a)
    BY <1>3 DEF StartBackend, StartMITM, RestoreFromCrash, DropBackupAfterCrash, BackUp,
                Inject, Rollback, StartAts
  <2>4. job' = Idle \/ stage' = stage
    BY <1>3 DEF StartBackend, StartMITM, RestoreFromCrash, DropBackupAfterCrash, BackUp,
                Inject, Rollback
  <2> QED BY <2>1, <2>2, <2>3, <2>4, JobMoves, Rests
<1>4. CASE StopMITM \/ ClearSettings \/ DropBackup \/ StopBackend
  <2>1. job # Idle /\ job.op = "stop" /\ alive
    BY <1>4, Rests DEF StopMITM, ClearSettings, DropBackup, StopBackend, At
  <2>2. alive' = alive /\ quit' = quit
    BY <1>4 DEF StopMITM, ClearSettings, DropBackup, StopBackend
  <2>3. job' = Idle \/ \E a \in StopAts : Goto(a)
    BY <1>4 DEF StopMITM, ClearSettings, DropBackup, StopBackend, StopFails, StopAts
  <2>4. job' = Idle \/ stage' = stage
    BY <1>4 DEF StopMITM, ClearSettings, DropBackup, StopBackend, StopFails
  <2> QED BY <2>1, <2>2, <2>3, <2>4, JobMoves, Rests
<1>5. CASE QuitAgain \/ \E fromTray \in BOOLEAN : ShutdownForQuit(fromTray)
  <2>1. alive /\ alive' = alive /\ job' = job /\ stage' = stage
        /\ \E again \in BOOLEAN : QuitBegins(again)
    BY <1>5 DEF QuitAgain, Quitting, ShutdownForQuit, QuitBegins
  <2> QED BY <2>1, QuitBeginning
<1>6. CASE QuitClears \/ QuitDropsBackup \/ QuitStopsBackend
  <2>1. alive /\ alive' = alive /\ job' = job /\ stage' = stage
    BY <1>6 DEF QuitClears, QuitDropsBackup, QuitStopsBackend, Quitting
  <2>2. CASE QuitStopsBackend
    BY <2>1, <2>2, QuitMoves DEF QuitStopsBackend, QuitAts
  <2>3. CASE QuitDropsBackup
    BY <2>1, <2>3, QuitMoves DEF QuitDropsBackup, Quitting, QuitAts
  <2>4. CASE QuitClears
    BY <2>1, <2>4, QuitMoves DEF QuitClears, QuitAts
  <2> QED BY <1>6, <2>2, <2>3, <2>4
<1>7. CASE UserEdits \/ Exit \/ Launch \/ Crash \/ UNCHANGED vars
  BY <1>7, Rests DEF UserEdits, Exit, Launch, Crash, Gone, vars
<1> QED BY <1>1, <1>2, <1>3, <1>4, <1>5, <1>6, <1>7, LifecycleSteps

LEMMA ServingStep ==
    ASSUME LifecycleTypeOK, LockInv, ServingInv, [Next]_vars
    PROVE  ServingInv'
<1> USE DEF ServingInv, LockInv, LifecycleTypeOK, files, user, server, StartAts
<1>1. CASE StartProxy
  <2>1. job'.op = "start" /\ job'.at = "backend"
    BY <1>1 DEF StartProxy
  <2> QED BY <1>1, <2>1 DEF StartProxy
<1>2. CASE \/ StartBackend \/ StartMITM \/ RestoreFromCrash
           \/ DropBackupAfterCrash \/ BackUp \/ Inject \/ Rollback
  <2>1. job # Idle /\ job.op = "start" /\ job.at \in StartAts
    BY <1>2, Rests DEF StartBackend, StartMITM, RestoreFromCrash, DropBackupAfterCrash,
              BackUp, Inject, Rollback, At
  <2>2. CASE StartBackend
    BY <2>1, <2>2, JobMoves, Rests DEF StartBackend
  <2>3. CASE StartMITM
    BY <2>1, <2>3, JobMoves, Rests DEF StartMITM, At
  <2>4. CASE RestoreFromCrash \/ DropBackupAfterCrash \/ BackUp
    BY <2>1, <2>4, JobMoves, Rests DEF RestoreFromCrash, DropBackupAfterCrash, BackUp, At
  <2>5. CASE Inject
    BY <2>1, <2>5, JobMoves, Rests DEF Inject, At
  <2>6. CASE Rollback
    BY <2>1, <2>6, Rests DEF Rollback
  <2> QED BY <1>2, <2>2, <2>3, <2>4, <2>5, <2>6
<1>3. CASE StopProxy \/ StopMITM \/ ClearSettings \/ DropBackup \/ StopBackend
  <2>1. quit' = quit /\ stage' # "running"
    BY <1>3, Rests DEF StopProxy, StopMITM, ClearSettings, DropBackup, StopBackend,
              stageWhileStopping, At
  <2>2. job'.op # "start"
    <3>1. CASE StopProxy
      BY <3>1 DEF StopProxy, Idle
    <3>2. CASE ~StopProxy
      <4>1. job.op = "stop" /\ (job' = Idle \/ \E a \in StopAts : Goto(a))
        BY <1>3, <3>2 DEF StopMITM, ClearSettings, DropBackup, StopBackend, StopFails,
                  StopAts, At
      <4> QED BY <4>1, JobMoves, Rests
    <3> QED BY <3>1, <3>2
  <2> QED BY <2>1, <2>2
<1>4. CASE \/ \E fromTray \in BOOLEAN : ShutdownForQuit(fromTray)
           \/ QuitClears \/ QuitDropsBackup \/ QuitStopsBackend \/ QuitAgain
  <2>1. quit'.at \in {"clear", "drop_backup", "backend", "end"}
    BY <1>4, QuitMoves, QuitBeginning DEF ShutdownForQuit, QuitClears, QuitDropsBackup,
              QuitStopsBackend, QuitAgain, QuitBegins, QuitAts
  <2> QED BY <2>1, Rests
<1>5. CASE UserEdits \/ Exit \/ Launch \/ Crash \/ UNCHANGED vars
  BY <1>5, Rests DEF UserEdits, Exit, Launch, Crash, Gone, vars
<1> QED BY <1>1, <1>2, <1>3, <1>4, <1>5, LifecycleSteps

LEMMA CleanStep ==
    ASSUME LifecycleTypeOK, LockInv, CleanInv, [Next]_vars
    PROVE  CleanInv'
<1>1. CASE StartProxy \/ StartBackend \/ StartMITM \/ Rollback \/ StopProxy
  <2>1. UNCHANGED <<settings, backup, quit>>
    BY <1>1 DEF StartProxy, StartBackend, StartMITM, Rollback, StopProxy, files
  <2>2. /\ job'.at \notin {"drop_backup", "inject"}
        /\ job'.op = "stop" => job'.at = "proxy"
    <3>1. CASE StartProxy
      BY <3>1 DEF StartProxy
    <3>2. CASE StopProxy
      BY <3>2 DEF StopProxy, Idle
    <3>3. CASE StartBackend \/ StartMITM
      <4>1. job.op = "start" /\ \E a \in {"proxy", "restore", "rollback"} : Goto(a)
        BY <3>3 DEF StartBackend, StartMITM, At
      <4> QED BY <4>1, JobMoves DEF LifecycleTypeOK, StartAts
    <3>4. CASE Rollback
      BY <3>4, Rests DEF Rollback
    <3> QED BY <1>1, <3>1, <3>2, <3>3, <3>4
  <2> QED BY <2>1, <2>2 DEF CleanInv, HasInjected, StopAts
<1> USE DEF CleanInv, HasInjected, LifecycleTypeOK, Jobs, StopAts, files, user, server, Goto
<1>2. CASE RestoreFromCrash
  BY <1>2, RestoredKeys DEF RestoreFromCrash, Written, At, LockInv
<1>3. CASE ClearSettings
  BY <1>3, RestoredKeys, KeyFacts DEF ClearSettings, ClearWrites, ClearFinds, Written,
              StopFails, Idle, At, LockInv
<1>4. CASE DropBackupAfterCrash \/ DropBackup \/ QuitDropsBackup
  BY <1>4, KeyFacts DEF DropBackupAfterCrash, DropBackup, QuitDropsBackup, NoBackup,
              At, Quitting, LockInv, Idle
<1>5. CASE BackUp
  BY <1>5, KeyFacts DEF BackUp, Missing, writeCursorSettingsBackup, At, LockInv, Idle
<1>6. CASE Inject
  BY <1>6 DEF Inject, Written, Idle, At, LockInv
<1>7. CASE StopMITM \/ StopBackend
  BY <1>7 DEF StopMITM, StopBackend, StopFails, Idle, At, LockInv
<1>8. CASE \E fromTray \in BOOLEAN : ShutdownForQuit(fromTray)
  BY <1>8 DEF ShutdownForQuit
<1>9. CASE QuitClears
  BY <1>9, RestoredKeys, KeyFacts DEF QuitClears, ClearWrites, ClearFinds, Written,
              QuitGoto, Quitting, Quits, LockInv, Idle
<1>10. CASE QuitStopsBackend \/ QuitAgain
  BY <1>10 DEF QuitStopsBackend, QuitAgain, QuitGoto, Quits
<1>11. CASE UserEdits
  BY <1>11, KeyFacts, KeysAssumption DEF UserEdits, Busy, Idle, NoQuit
<1>12. CASE Exit \/ Launch
  BY <1>12 DEF Exit, Launch, Gone, Idle, NoQuit
<1>13. CASE Crash
  BY <1>13, KeyFacts DEF Crash, Gone, TornBackup, NoBackup, Idle, NoQuit
<1>14. CASE UNCHANGED vars
  BY <1>14 DEF vars
<1> QED BY <1>1, <1>2, <1>3, <1>4, <1>5, <1>6, <1>7, <1>8, <1>9, <1>10, <1>11, <1>12,
           <1>13, <1>14, LifecycleSteps

LEMMA LifecycleInvInit == DesktopInit => LifecycleInv
<1> SUFFICES ASSUME Init PROVE LifecycleInv
  BY DEF DesktopInit
<1> USE DEF Init
<1>1. LifecycleTypeOK
  <2>1. /\ Missing \in [kind : {"ok", "missing", "corrupt"}, keys : [Keys -> Values]]
        /\ NoBackup \in [kind : {"none", "ok", "broken"}, keys : [Keys -> Values]]
    BY KeyFacts DEF Missing, NoBackup
  <2>2. 0 \in 0 .. MaxEdits
    BY BoundsAssumption
  <2> QED BY <2>1, <2>2, KeyFacts, Rests DEF LifecycleTypeOK, Stages
<1>2. LockInv /\ ServingInv
  BY Rests DEF LockInv, ServingInv
<1>3. CleanInv
  BY KeyFacts, Rests DEF CleanInv, HasInjected, Missing, NoBackup
<1> QED BY <1>1, <1>2, <1>3 DEF LifecycleInv

LEMMA LifecycleInvStep == LifecycleInv /\ [Next]_vars => LifecycleInv'
BY LifecycleTypeStep, LockStep, ServingStep, CleanStep DEF LifecycleInv

(* The variables of the life of the process keep their types.              *)
THEOREM LifecycleTypeCorrect == DesktopSpec => []LifecycleTypeOK
<1>1. LifecycleInv => LifecycleTypeOK
  BY DEF LifecycleInv
<1> QED BY <1>1, LifecycleInvInit, LifecycleInvStep, DesktopStepIsLifecycleStep, PTL
        DEF DesktopSpec

-----------------------------------------------------------------------------
(* A stop that succeeds, or a quit that cleared the settings, leaves neither *)
(* a value of the program in Cursor's settings nor a proxy, whatever the     *)
(* user edits and whenever the program has crashed before.                   *)
THEOREM StopLeavesNothing == DesktopSpec => NothingLeftBehind
<1>1. LifecycleInv /\ [Next]_vars =>
        [\/ job.op = "stop" /\ job'.op = "none" /\ stage' = "idle" /\ alive'
         \/ quit.at = "end" /\ ~alive' /\ quit.cleared
         => ~HasInjected' /\ ~proxy']_vars
  <2> SUFFICES ASSUME LifecycleInv, Next
               PROVE  \/ job.op = "stop" /\ job'.op = "none" /\ stage' = "idle" /\ alive'
                      \/ quit.at = "end" /\ ~alive' /\ quit.cleared
                      => ~HasInjected' /\ ~proxy'
    OBVIOUS
  <2> USE DEF LifecycleInv, files, user, server
  <2>1. ASSUME job.op = "stop", job'.op = "none", stage' = "idle", alive'
        PROVE  ~HasInjected' /\ ~proxy'
    <3>1. CASE StopBackend
      BY <3>1 DEF StopBackend, CleanInv, HasInjected, At, StopAts
    <3>2. CASE \/ StartProxy \/ StopProxy \/ StartBackend \/ StartMITM \/ RestoreFromCrash
               \/ DropBackupAfterCrash \/ BackUp \/ Inject \/ Rollback
      BY <2>1, <3>2, Rests DEF StartProxy, StopProxy, StartBackend, StartMITM,
                RestoreFromCrash, DropBackupAfterCrash, BackUp, Inject, Rollback, At
    <3>3. CASE StopMITM \/ ClearSettings \/ DropBackup
      BY <2>1, <3>3 DEF StopMITM, ClearSettings, DropBackup, LockInv
    <3>4. CASE \/ \E fromTray \in BOOLEAN : ShutdownForQuit(fromTray)
               \/ QuitClears \/ QuitDropsBackup \/ QuitStopsBackend \/ QuitAgain
               \/ UserEdits \/ Launch
      BY <2>1, <3>4 DEF ShutdownForQuit, QuitClears, QuitDropsBackup, QuitStopsBackend,
                QuitAgain, UserEdits, Launch
    <3>5. CASE Exit \/ Crash
      BY <2>1, <3>5 DEF Exit, Crash, Gone
    <3> QED BY <3>1, <3>2, <3>3, <3>4, <3>5 DEF Next, Step
  <2>2. ASSUME quit.at = "end", ~alive', quit.cleared
        PROVE  ~HasInjected' /\ ~proxy'
    <3>1. alive /\ job = Idle /\ ~HasInjected
      BY <2>2, Rests DEF LockInv, CleanInv
    <3>2. Exit \/ Crash
      BY <2>2, <3>1 DEF Next, Step, StartProxy, StopProxy, StartBackend, StartMITM,
                RestoreFromCrash, DropBackupAfterCrash, BackUp, Inject, Rollback, StopMITM,
                ClearSettings, DropBackup, StopBackend, ShutdownForQuit, QuitClears,
                QuitDropsBackup, QuitStopsBackend, QuitAgain, UserEdits, Launch
    <3> QED BY <3>1, <3>2 DEF Exit, Crash, Gone, HasInjected
  <2> QED BY <2>1, <2>2
<1> QED BY <1>1, LifecycleInvInit, LifecycleInvStep, DesktopStepIsLifecycleStep, PTL
        DEF DesktopSpec, NothingLeftBehind

-----------------------------------------------------------------------------
(* The key by which the program knows its own work is put into the file with *)
(* the stage "running", and only the user could take it out of there before  *)
(* a stop or a quit.                                                         *)
LEMMA PointedStep ==
    ASSUME "edit_over_backup" \notin Quirks \/ "exclusive" \notin UserKeys,
           LifecycleInv, PointedInv, [Next]_vars
    PROVE  PointedInv'
<1> SUFFICES ASSUME stage' = "running", quit' = NoQuit
             PROVE  settings'.keys["exclusive"] = Injected
  BY DEF PointedInv
<1> USE DEF LifecycleInv, LockInv, PointedInv, files, user, server
<1>1. CASE Inject
  <2>1. CASE Written([k \in Keys |-> Injected])
    BY <2>1, KeyFacts DEF Written
  <2>2. CASE UNCHANGED <<settings, stage>>
    BY <1>1, <2>2 DEF Inject
  <2> QED BY <1>1, <2>1, <2>2 DEF Inject
<1>2. CASE \/ StartProxy \/ StartBackend \/ StartMITM \/ RestoreFromCrash
           \/ DropBackupAfterCrash \/ BackUp \/ Rollback
  BY <1>2, Rests DEF StartProxy, StartBackend, StartMITM, RestoreFromCrash,
            DropBackupAfterCrash, BackUp, Rollback, At
<1>3. CASE StopProxy \/ StopMITM \/ ClearSettings \/ DropBackup \/ StopBackend
  BY <1>3, Rests DEF StopProxy, StopMITM, ClearSettings, DropBackup, StopBackend,
            stageWhileStopping, At
<1>4. CASE \/ \E fromTray \in BOOLEAN : ShutdownForQuit(fromTray)
           \/ QuitClears \/ QuitDropsBackup \/ QuitStopsBackend \/ QuitAgain
  <2>1. quit'.at \in {"clear", "drop_backup", "backend", "end"}
    BY <1>4, QuitMoves, QuitBeginning DEF ShutdownForQuit, QuitClears, QuitDropsBackup,
              QuitStopsBackend, QuitAgain, QuitBegins, QuitAts, LifecycleTypeOK
  <2> QED BY <2>1, Rests
<1>5. CASE UserEdits
  <2>1. stage = "running" /\ quit = NoQuit /\ HasInjected
    BY <1>5, KeyFacts DEF UserEdits, HasInjected
  <2>2. "exclusive" \notin UserKeys
    BY <1>5, <2>1 DEF UserEdits, CleanInv
  <2>3. settings'.keys["exclusive"] = settings.keys["exclusive"]
    <3>1. CASE settings' = [settings EXCEPT !.kind = "corrupt"]
      BY <3>1 DEF LifecycleTypeOK
    <3>2. CASE \E k \in UserKeys, v \in {Absent, edits + 1} :
                  settings' = [kind |-> "ok", keys |-> [settings.keys EXCEPT ![k] = v]]
      BY <2>2, <3>2, KeyFacts DEF LifecycleTypeOK
    <3> QED BY <1>5, <3>1, <3>2 DEF UserEdits
  <2> QED BY <2>1, <2>3
<1>6. CASE Exit \/ Launch \/ Crash \/ UNCHANGED vars
  BY <1>6 DEF Exit, Launch, Crash, Gone, vars
<1> QED BY <1>1, <1>2, <1>3, <1>4, <1>5, <1>6, LifecycleSteps

(* While the stage says that the service runs, Cursor is pointed at a proxy  *)
(* that serves, and the backend behind it does: unless the user takes out,   *)
(* over a backup, the key that nobody but the program knows.                 *)
THEOREM RunningMeansServing ==
    ASSUME "edit_over_backup" \notin Quirks \/ "exclusive" \notin UserKeys
    PROVE  DesktopSpec => []LiveProxyBehindSettings
<1>1. DesktopInit => PointedInv
  BY DEF DesktopInit, Init, PointedInv
<1>2. LifecycleInv /\ PointedInv /\ [Next]_vars => PointedInv'
  BY PointedStep
<1>3. LifecycleInv /\ PointedInv => LiveProxyBehindSettings
  BY KeyFacts DEF LifecycleInv, ServingInv, PointedInv, LiveProxyBehindSettings, Busy,
                  HasInjected
<1> QED BY <1>1, <1>2, <1>3, LifecycleInvInit, LifecycleInvStep,
           DesktopStepIsLifecycleStep, PTL DEF DesktopSpec

-----------------------------------------------------------------------------
(* What the injected values have replaced stays in the backup as long as     *)
(* they are in the file.                                                     *)
NoQuirks == "edit_over_backup" \notin Quirks /\ "torn_backup" \notin Quirks

LEMMA ExactStep ==
    ASSUME NoQuirks, LifecycleInv, ExactInv, [Next]_vars
    PROVE  /\ ExactInv'
           /\ HasInjected /\ ~HasInjected' /\ settings'.kind = "ok" => settings'.keys = found
<1> USE DEF NoQuirks, ExactInv, LifecycleInv, LifecycleTypeOK, CleanInv, HasInjected,
            files, user, server
<1>1. CASE RestoreFromCrash \/ ClearSettings \/ QuitClears
  <2>1. UNCHANGED <<backup, found>>
    BY <1>1 DEF RestoreFromCrash, ClearSettings, QuitClears
  <2>2. UNCHANGED settings \/ Written(restoredKeys)
    BY <1>1 DEF RestoreFromCrash, ClearSettings, QuitClears, ClearWrites, ClearFinds
  <2>3. CASE Written(restoredKeys)
    <3>1. settings'.kind = "ok" /\ settings'.keys = restoredKeys
      BY <2>3 DEF Written
    <3>2. ~HasInjected'
      BY <3>1, RestoredKeys
    <3>3. backup.kind = "ok" => settings'.keys = backup.keys
      BY <3>1 DEF restoredKeys, restoreCursorSettingsKeys, HasBackup
    <3> QED BY <2>1, <3>1, <3>2, <3>3
  <2> QED BY <2>1, <2>2, <2>3
<1>2. CASE DropBackupAfterCrash \/ DropBackup \/ QuitDropsBackup
  <2>1. UNCHANGED settings /\ backup'.kind = "none" /\ ~HasInjected
    BY <1>2 DEF DropBackupAfterCrash, DropBackup, QuitDropsBackup, NoBackup, At, Quitting
  <2> QED BY <2>1
<1>3. CASE BackUp
  <2>1. UNCHANGED found
    BY <1>3 DEF BackUp
  <2>2. CASE settings.kind = "corrupt"
    BY <1>3, <2>2 DEF BackUp, Missing
  <2>3. CASE settings.kind # "corrupt"
    BY <1>3, <2>1, <2>3 DEF BackUp, writeCursorSettingsBackup
  <2> QED BY <2>2, <2>3
<1>4. CASE Inject
  <2>1. UNCHANGED backup /\ backup.kind = "ok"
    BY <1>4 DEF Inject, At
  <2>2. CASE UNCHANGED <<settings, found>>
    BY <2>1, <2>2
  <2>3. CASE /\ Written([k \in Keys |-> Injected])
             /\ found' = IF HasInjected THEN found ELSE settings.keys
    <3>1. HasInjected' /\ settings'.kind = "ok"
      BY <2>3, KeyFacts DEF Written
    <3> QED BY <2>1, <2>3, <3>1
  <2> QED BY <1>4, <2>2, <2>3 DEF Inject
<1>5. CASE UserEdits
  <2>1. backup' = backup /\ backup.kind = "none"
    BY <1>5 DEF UserEdits
  <2> QED BY <2>1
<1>6. CASE Crash
  <2>1. backup' = backup
    BY <1>6 DEF Crash, TornBackup
  <2> QED BY <1>6, <2>1 DEF Crash
<1>7. CASE UNCHANGED <<settings, backup, found>>
  BY <1>7
<1> QED BY <1>1, <1>2, <1>3, <1>4, <1>5, <1>6, <1>7, LifecycleSteps DEF StartProxy,
    StartBackend, StartMITM, Rollback, StopProxy, StopMITM, StopBackend, ShutdownForQuit,
    QuitStopsBackend, QuitAgain, Exit, Launch, vars

(* Whenever the program takes its values out of the user's settings it puts  *)
(* back exactly what it had found there, however many crashes, failed writes *)
(* and restarts lie between.                                                 *)
THEOREM RestoresWhatItFound ==
    ASSUME NoQuirks PROVE DesktopSpec => RestoreIsExact
<1>1. DesktopInit => ExactInv
  BY DEF DesktopInit, Init, ExactInv, Missing, NoBackup
<1>2. LifecycleInv /\ ExactInv /\ [Next]_vars => ExactInv'
  BY ExactStep
<1>3. LifecycleInv /\ ExactInv /\ [Next]_vars =>
        [(HasInjected /\ settings'.kind = "ok" /\ \A k \in Keys : settings'.keys[k] # Injected)
         => settings'.keys = found]_vars
  BY ExactStep DEF HasInjected
<1> QED BY <1>1, <1>2, <1>3, LifecycleInvInit, LifecycleInvStep,
           DesktopStepIsLifecycleStep, PTL DEF DesktopSpec, RestoreIsExact

-----------------------------------------------------------------------------
(* The updater.                                                             *)

Published == {Releases[i] : i \in DOMAIN Releases}

(* The releases are versions, and the program's comparison finds them in the *)
(* order in which they are listed.                                           *)
ReleasesListed ==
    /\ DOMAIN Releases \subseteq Nat
    /\ U!NoVersion \notin Published
    /\ \A i, j \in DOMAIN Releases :
          i < j => U!compareVersions(Releases[i], Releases[j]) = -1

Versions == Published \cup {U!NoVersion}
Files == [of : Versions, body : {"none", "part", "whole"}]

UpdaterTypeOK ==
    /\ installed \in Versions
    /\ running \in Published
    /\ update \in [state : {"idle", "error", "checking", "downloading", "ready", "installing"},
                   of : Versions, file : Files, spawned : BOOLEAN]
    /\ check \in [at : {"none", "fetch", "download", "copy"}, of : Versions, file : Files]
    /\ archives \subseteq Files
    /\ installer \in [at : {"none", "wait", "replace", "move"}, file : Files]

Newer(version) == version \in Published /\ U!compareVersions(version, running) > 0

(* An archive that is complete, is there, and holds a later release.        *)
Good(a) == Newer(a.of) /\ a.body = "whole" /\ a \in archives

Offered == update.state \in {"ready", "installing"}

(* What a check does shows in the state; what it asks for is newer than the *)
(* program that asks.                                                       *)
CheckInv ==
    /\ check.at = "fetch" => update.state = "checking"
    /\ check.at \in {"download", "copy"} =>
          update.state = "downloading" /\ Newer(check.of)
    /\ check.at = "copy" => check.file = [of |-> check.of, body |-> "part"]

(* What is offered is good, and so is what the installer works on, which a  *)
(* program that is still there has offered.                                 *)
InstallInv ==
    /\ Offered => Good(update.file)
    /\ installer.at # "none" => Good(installer.file)
    /\ installed = U!NoVersion => installer.at = "move"
    /\ alive /\ installer.at # "none" =>
          /\ installer.at = "wait" /\ installer.file = update.file
          /\ update.state = "installing" /\ update.spawned
    /\ ~alive => update = U!Resting("idle") /\ check = U!NoCheck

(* Outside Windows, a running program keeps the one archive it needs.       *)
ArchiveInv ==
    alive /\ platform # "windows" =>
       archives \subseteq IF check.at = "copy" THEN {check.file}
                          ELSE IF Offered THEN {update.file} ELSE {}

UpdaterInv == UpdaterTypeOK /\ CheckInv /\ InstallInv /\ ArchiveInv

Updates ==
    [state : {"idle", "error", "checking", "downloading", "ready", "installing"},
     of : Versions, file : Files, spawned : BOOLEAN]
CheckStates == [at : {"none", "fetch", "download", "copy"}, of : Versions, file : Files]

(* What the updater rests on between two checks.                            *)
LEMMA UpdaterRests ==
    /\ U!NoArchive \in Files
    /\ U!NoCheck \in CheckStates /\ U!NoCheck.at = "none"
    /\ U!NoInstaller \in [at : {"none", "wait", "replace", "move"}, file : Files]
    /\ U!NoInstaller.at = "none"
    /\ \A s \in {"idle", "error", "checking", "downloading", "ready", "installing"} :
          U!Resting(s) \in Updates /\ U!Resting(s).state = s
BY DEF Files, Versions, Updates, CheckStates, U!NoArchive, U!NoCheck, U!NoInstaller,
       U!Resting

(* A check that fails at any point leaves nothing of itself.                *)
LEMMA CheckFailsStep ==
    ASSUME UpdaterInv, alive, alive' = alive, check.at # "none", U!CheckFails,
           archives' \subseteq archives,
           platform # "windows" => archives' = {},
           UNCHANGED U!program
    PROVE  UpdaterInv'
<1> USE DEF UpdaterInv, U!program
<1>1. ~Offered /\ installer.at = "none"
  BY DEF UpdaterTypeOK, CheckInv, InstallInv, Offered
<1>2. ~Offered' /\ check'.at = "none" /\ update' \in Updates /\ check' \in CheckStates
  BY UpdaterRests DEF U!CheckFails, Offered
<1>3. UpdaterTypeOK'
  BY <1>2 DEF UpdaterTypeOK, Updates, CheckStates
<1>4. CheckInv'
  BY <1>2 DEF CheckInv
<1>5. InstallInv'
  BY <1>1, <1>2 DEF InstallInv
<1>6. ArchiveInv'
  BY <1>2 DEF ArchiveInv
<1> QED BY <1>3, <1>4, <1>5, <1>6

LEMMA CheckStep ==
    ASSUME UpdaterInv, alive' = alive,
           \/ U!CheckNow
           \/ \E manifest \in U!Manifests : U!FetchUpdateInfo(manifest)
           \/ U!FetchFails
    PROVE  UpdaterInv'
<1> USE DEF UpdaterInv, U!program
<1>1. CASE U!CheckFails /\ ~U!CheckNow
  <2>1. /\ alive /\ check.at = "fetch" /\ archives' = archives
        /\ UNCHANGED <<platform, installed, running, installer>>
    BY <1>1 DEF U!FetchUpdateInfo, U!FetchFails
  <2>2. platform # "windows" => archives = {}
    BY <2>1 DEF CheckInv, ArchiveInv, Offered
  <2> QED BY <1>1, <2>1, <2>2, CheckFailsStep
<1>2. CASE U!CheckNow
  <2>1. /\ update' = U!Resting("checking") /\ update' \in Updates
        /\ update'.state = "checking"
        /\ check' \in CheckStates /\ check'.at = "fetch"
    BY <1>2, UpdaterRests DEF U!CheckNow, CheckStates
  <2>2. /\ alive /\ ~Offered /\ ~Offered' /\ check.at = "none" /\ installer.at = "none"
        /\ UNCHANGED <<platform, installed, running, installer, archives>>
    BY <1>2, <2>1 DEF U!CheckNow, Offered, UpdaterTypeOK, CheckInv, InstallInv
  <2>3. UpdaterTypeOK'
    BY <2>1, <2>2 DEF UpdaterTypeOK, Updates, CheckStates
  <2> QED BY <2>1, <2>2, <2>3 DEF CheckInv, InstallInv, ArchiveInv
<1>3. ASSUME NEW manifest \in U!Manifests, U!FetchUpdateInfo(manifest), ~U!CheckFails
      PROVE  UpdaterInv'
  <2>1. /\ alive /\ ~Offered /\ check.at = "fetch" /\ installer.at = "none"
        /\ UNCHANGED <<platform, installed, running, installer, archives>>
    BY <1>3 DEF U!FetchUpdateInfo, Offered, CheckInv, UpdaterTypeOK, InstallInv
  <2>2. CASE update' = U!Resting("idle") /\ check' = U!NoCheck
    <3>1. /\ update' \in Updates /\ update'.state = "idle"
          /\ check' \in CheckStates /\ check'.at = "none"
      BY <2>2, UpdaterRests
    <3>2. UpdaterTypeOK'
      BY <2>1, <3>1 DEF UpdaterTypeOK, Updates, CheckStates
    <3>3. ~Offered'
      BY <3>1 DEF Offered
    <3> QED BY <2>1, <3>1, <3>2, <3>3 DEF CheckInv, InstallInv, ArchiveInv
  <2>3. CASE /\ U!compareVersions(manifest.version, running) > 0
             /\ update' = [U!Resting("downloading") EXCEPT !.of = manifest.version]
             /\ check' = [U!NoCheck EXCEPT !.at = "download", !.of = manifest.version]
    <3>1. manifest.version \in Published /\ Newer(manifest.version)
      BY <2>3 DEF U!Manifests, Published, Newer
    <3>2. /\ update' \in Updates /\ update'.state = "downloading"
          /\ check' \in CheckStates /\ check'.at = "download" /\ check'.of = manifest.version
      BY <2>3, <3>1, UpdaterRests DEF Updates, CheckStates, Versions
    <3>3. UpdaterTypeOK'
      BY <2>1, <3>2 DEF UpdaterTypeOK, Updates, CheckStates
    <3>4. ~Offered'
      BY <3>2 DEF Offered
    <3> QED BY <2>1, <3>1, <3>2, <3>3, <3>4 DEF CheckInv, InstallInv, ArchiveInv, Newer
  <2> QED BY <1>3, <2>2, <2>3 DEF U!FetchUpdateInfo
<1> QED BY <1>1, <1>2, <1>3 DEF U!FetchFails

LEMMA DownloadStep ==
    ASSUME UpdaterInv, alive' = alive,
           \/ U!OpenDownload
           \/ \E body \in {"whole", "cut", "changed", "error"} : U!DownloadUpdate(body)
    PROVE  UpdaterInv'
<1> USE DEF UpdaterInv, U!program
<1> DEFINE part == [of |-> check.of, body |-> "part"]
           whole == [check.file EXCEPT !.body = "whole"]
<1>1. /\ alive /\ ~Offered /\ installer.at = "none" /\ check.at \in {"download", "copy"}
      /\ UNCHANGED <<platform, installed, running, installer>>
      /\ Newer(check.of) /\ part \in Files /\ check.of \in Published
      /\ update.state = "downloading"
  BY DEF U!OpenDownload, U!DownloadUpdate, CheckInv, InstallInv, UpdaterTypeOK, Offered,
         Newer, Files
<1>2. CASE U!OpenDownload
  <2>1. CASE U!CheckFails /\ UNCHANGED archives
    BY <1>1, <1>2, <2>1, CheckFailsStep DEF U!OpenDownload, ArchiveInv
  <2>2. CASE /\ archives' = archives \cup {part}
             /\ check' = [check EXCEPT !.at = "copy", !.file = part]
             /\ UNCHANGED update
    <3> HIDE DEF part
    <3>1. /\ check' \in CheckStates /\ check'.at = "copy" /\ check'.of = check.of
          /\ check'.file = part
      BY <1>1, <2>2 DEF UpdaterTypeOK, CheckStates
    <3>2. UpdaterTypeOK'
      BY <1>1, <2>2, <3>1 DEF UpdaterTypeOK, CheckStates
    <3>3. CheckInv'
      BY <1>1, <2>2, <3>1 DEF CheckInv, Newer, part
    <3>4. InstallInv'
      BY <1>1, <2>2, <3>1 DEF InstallInv, Offered
    <3>5. ArchiveInv'
      <4>1. platform # "windows" => archives = {}
        BY <1>1, <1>2 DEF ArchiveInv, U!OpenDownload
      <4> QED BY <1>1, <2>2, <3>1, <4>1 DEF ArchiveInv
    <3> QED BY <3>2, <3>3, <3>4, <3>5
  <2> QED BY <1>2, <2>1, <2>2 DEF U!OpenDownload
<1>3. ASSUME NEW body, body # "whole", U!DownloadUpdate(body)
      PROVE  UpdaterInv'
  <2>1. check.at = "copy" /\ archives' = U!discarded(check.file) /\ U!CheckFails
    BY <1>3 DEF U!DownloadUpdate
  <2>2. archives' \subseteq archives /\ (platform # "windows" => archives' = {})
    BY <1>1, <2>1 DEF U!discarded, ArchiveInv
  <2> QED BY <1>1, <2>1, <2>2, CheckFailsStep
<1>4. CASE U!DownloadUpdate("whole")
  <2>1. /\ check.at = "copy" /\ check' = U!NoCheck
        /\ archives' = (archives \ {check.file}) \cup {whole}
        /\ update' = [U!Resting("ready") EXCEPT !.of = check.of, !.file = whole]
    BY <1>4 DEF U!DownloadUpdate
  <2>2. whole \in Files /\ whole.of = check.of /\ whole.body = "whole"
    BY <1>1, <2>1 DEF CheckInv, Files
  <2> HIDE DEF whole
  <2>3. /\ update' \in Updates /\ update'.state = "ready" /\ update'.file = whole
        /\ check' \in CheckStates /\ check'.at = "none"
    BY <1>1, <2>1, <2>2, UpdaterRests DEF Updates, Versions
  <2>4. UpdaterTypeOK'
    BY <1>1, <2>1, <2>2, <2>3 DEF UpdaterTypeOK, Updates, CheckStates
  <2>5. InstallInv'
    BY <1>1, <2>1, <2>2, <2>3 DEF InstallInv, Good, Newer
  <2>6. ArchiveInv'
    BY <1>1, <2>1, <2>3 DEF ArchiveInv, Offered
  <2> QED BY <2>3, <2>4, <2>5, <2>6 DEF CheckInv
<1> QED BY <1>2, <1>3, <1>4

LEMMA InstallStep ==
    ASSUME UpdaterInv, alive' = alive,
           \/ U!InstallReadyUpdate \/ U!SpawnFails \/ U!SpawnInstaller
           \/ U!Unpack \/ U!TakeAway
    PROVE  UpdaterInv'
<1> USE DEF UpdaterInv, U!program, U!process
<1>1. CASE U!InstallReadyUpdate \/ U!SpawnFails
  <2>1. /\ alive /\ Offered /\ installer.at = "none" /\ check.at = "none"
        /\ UNCHANGED <<platform, installed, running, installer, check, archives>>
    BY <1>1 DEF U!InstallReadyUpdate, U!SpawnFails, Offered, UpdaterTypeOK, CheckInv,
                InstallInv
  <2>2. update' \in Updates /\ Offered' /\ update'.file = update.file
    BY <1>1 DEF U!InstallReadyUpdate, U!SpawnFails, Offered, UpdaterTypeOK, Updates
  <2>3. UpdaterTypeOK'
    BY <2>1, <2>2 DEF UpdaterTypeOK, Updates
  <2> QED BY <2>1, <2>2, <2>3 DEF CheckInv, InstallInv, ArchiveInv, Good, Newer
<1>2. CASE U!SpawnInstaller
  <2>1. /\ alive /\ Offered /\ check.at = "none" /\ update.state = "installing"
        /\ UNCHANGED <<platform, installed, running, check, archives>>
        /\ update' = [update EXCEPT !.spawned = TRUE]
        /\ installer' = [at |-> "wait", file |-> update.file]
    BY <1>2 DEF U!SpawnInstaller, Offered, UpdaterTypeOK, CheckInv
  <2>2. /\ update' \in Updates /\ update'.state = "installing" /\ update'.spawned
        /\ update'.file = update.file
        /\ installer'.at = "wait" /\ installer'.file = update.file
        /\ installer' \in [at : {"none", "wait", "replace", "move"}, file : Files]
    BY <2>1 DEF UpdaterTypeOK, Updates
  <2>3. UpdaterTypeOK'
    BY <2>1, <2>2 DEF UpdaterTypeOK, Updates
  <2>4. InstallInv'
    BY <1>2, <2>1, <2>2 DEF InstallInv, Offered, Good, Newer, U!SpawnInstaller
  <2> QED BY <2>1, <2>2, <2>3, <2>4 DEF CheckInv, ArchiveInv, Offered
<1>3. CASE U!Unpack
  <2>1. /\ ~alive /\ installer.at = "wait" /\ check.at = "none" /\ ~Offered
        /\ UNCHANGED <<platform, running, update, check, installed>>
    BY <1>3, UpdaterRests DEF U!Unpack, InstallInv, Offered
  <2>2. CASE installer' = [installer EXCEPT !.at = "replace"] /\ UNCHANGED archives
    <3>1. /\ installer' \in [at : {"none", "wait", "replace", "move"}, file : Files]
          /\ installer'.at = "replace" /\ installer'.file = installer.file
      BY <2>2 DEF UpdaterTypeOK
    <3> QED BY <2>1, <2>2, <3>1 DEF UpdaterTypeOK, CheckInv, InstallInv, ArchiveInv,
               Offered, Good, Newer
  <2>3. CASE U!InstallerEnds
    <3>1. /\ installer' \in [at : {"none", "wait", "replace", "move"}, file : Files]
          /\ installer'.at = "none" /\ archives' \subseteq archives
      BY <2>3, UpdaterRests DEF U!InstallerEnds
    <3> QED BY <2>1, <3>1 DEF UpdaterTypeOK, CheckInv, InstallInv, ArchiveInv, Offered
  <2> QED BY <1>3, <2>2, <2>3 DEF U!Unpack
<1>4. CASE U!TakeAway
  <2>1. /\ ~alive /\ installer.at = "replace" /\ installed' = U!NoVersion
        /\ installer' = [installer EXCEPT !.at = "move"]
        /\ UNCHANGED <<platform, running, update, check, archives>>
    BY <1>4 DEF U!TakeAway
  <2>2. /\ installer' \in [at : {"none", "wait", "replace", "move"}, file : Files]
        /\ installer'.at = "move" /\ installer'.file = installer.file
    BY <2>1 DEF UpdaterTypeOK
  <2> QED BY <2>1, <2>2, UpdaterRests DEF UpdaterTypeOK, Versions, CheckInv, InstallInv,
             ArchiveInv, Offered, Good, Newer
<1> QED BY <1>1, <1>2, <1>3, <1>4

(* The program starts with nothing offered and no archive, or ends.         *)
LEMMA ProcessStep ==
    ASSUME ReleasesListed, UpdaterInv, Relaunch \/ UserLaunches \/ Ends
    PROVE  UpdaterInv'
<1> USE DEF UpdaterInv
<1>1. /\ update' = U!Resting("idle") /\ check' = U!NoCheck
      /\ update' \in Updates /\ ~Offered'
      /\ check' \in CheckStates /\ check'.at = "none"
  BY UpdaterRests DEF Relaunch, UserLaunches, Ends, U!PutInPlace, U!Launched, U!Gone,
                      Offered
<1>2. CASE Relaunch
  <2>1. /\ alive' /\ archives' = {} /\ installer' = U!NoInstaller
        /\ installer.at # "none" /\ installer.file.of \in Published
        /\ installed' = installer.file.of /\ running' = installer.file.of
    BY <1>2 DEF Relaunch, Launch, U!PutInPlace, InstallInv, Good, Newer
  <2>2. installed' # U!NoVersion /\ installed' \in Versions
    BY <2>1 DEF ReleasesListed, Versions
  <2> QED BY <1>1, <2>1, <2>2, UpdaterRests DEF UpdaterTypeOK, Updates, CheckStates, CheckInv,
             InstallInv, ArchiveInv
<1>3. CASE UserLaunches
  <2>1. /\ alive' /\ archives' = {} /\ installer' = installer /\ installer.at = "none"
        /\ installed' = installed /\ running' = installed /\ installed # U!NoVersion
        /\ installed \in Published
    BY <1>3 DEF UserLaunches, Launch, U!Launched, UpdaterTypeOK, Versions
  <2> QED BY <1>1, <2>1 DEF UpdaterTypeOK, Updates, CheckStates, CheckInv, InstallInv,
             ArchiveInv
<1>4. CASE Ends
  <2>1. ~alive' /\ UNCHANGED <<installed, running, archives, installer>>
    BY <1>4 DEF Ends, Exit, Crash, Gone, U!Gone
  <2> QED BY <1>1, <2>1 DEF UpdaterTypeOK, Updates, CheckStates, CheckInv, InstallInv,
             ArchiveInv, Good, Newer
<1> QED BY <1>2, <1>3, <1>4

LEMMA UpdaterInvInit == ReleasesListed /\ DesktopInit => UpdaterInv
<1> SUFFICES ASSUME ReleasesListed, DesktopInit PROVE UpdaterInv
  OBVIOUS
<1> USE DEF DesktopInit, U!Init
<1>1. FirstInstalled \in Published /\ FirstInstalled # U!NoVersion
  BY ReleasesAssumption DEF Published, ReleasesListed
<1>2. ~Offered /\ ~alive
  BY UpdaterRests DEF Init, Offered
<1>3. UpdaterTypeOK
  BY <1>1, UpdaterRests DEF UpdaterTypeOK, Versions, Updates, CheckStates
<1> QED BY <1>1, <1>2, <1>3, UpdaterRests DEF UpdaterInv, CheckInv, InstallInv, ArchiveInv

LEMMA UpdaterInvStep ==
    ReleasesListed /\ UpdaterInv /\ [DesktopNext]_<<vars, updater>> => UpdaterInv'
<1> SUFFICES ASSUME ReleasesListed, UpdaterInv, [DesktopNext]_<<vars, updater>>
             PROVE  UpdaterInv'
  OBVIOUS
<1>1. CASE Lives \/ UNCHANGED <<vars, updater>>
  <2>1. alive' = alive /\ UNCHANGED updater
    BY <1>1 DEF Lives, Step, vars, user, StartProxy, StopProxy, StartBackend, StartMITM,
       RestoreFromCrash, DropBackupAfterCrash, BackUp, Inject, Rollback, StopMITM,
       ClearSettings, DropBackup, StopBackend, ShutdownForQuit, QuitClears,
       QuitDropsBackup, QuitStopsBackend, QuitAgain, UserEdits
  <2> QED BY <2>1 DEF updater, UpdaterInv, UpdaterTypeOK, CheckInv, InstallInv, ArchiveInv,
             Offered, Good, Newer
<1>2. CASE Checks \/ CheckEnds
  <2>1. alive' = alive
    BY <1>2 DEF Checks, CheckEnds, vars
  <2> QED BY <1>2, <2>1, CheckStep, DownloadStep DEF Checks, CheckEnds
<1>3. CASE Installs
  BY <1>3, InstallStep DEF Installs, vars
<1> QED BY <1>1, <1>2, <1>3, ProcessStep DEF DesktopNext

(* No update, failed or not, loses an archive that is offered or handed to   *)
(* the installer, keeps one outside Windows that nobody needs, or leaves the *)
(* user without a program.                                                   *)
THEOREM UpdatesLeaveNoMess ==
    ASSUME ReleasesListed PROVE DesktopSpec => []UpdateLeavesNoMess
<1>1. UpdaterInv => UpdateLeavesNoMess
  <2> SUFFICES ASSUME UpdaterInv PROVE UpdateLeavesNoMess
    OBVIOUS
  <2>1. U!AProgramIsLeft
    BY DEF UpdaterInv, InstallInv, U!AProgramIsLeft
  <2>2. U!ArchivesInOrder
    BY DEF UpdaterInv, InstallInv, ArchiveInv, CheckInv, Good, Offered, U!ArchivesInOrder
  <2> QED BY <2>1, <2>2 DEF UpdateLeavesNoMess
<1> QED BY <1>1, UpdaterInvInit, UpdaterInvStep, PTL DEF DesktopSpec

(* A version compares as equal to itself.                                   *)
LEMMA SameVersion == \A v : U!compareVersions(v, v) = 0
BY DEF U!compareVersions

(* Every installation leads to a later release than the one that ran before  *)
(* it, whatever old manifests are served and however the processes in        *)
(* between have ended.                                                       *)
THEOREM NeverDowngrades ==
    ASSUME ReleasesListed PROVE DesktopSpec => InstalledOnlyRises
<1>1. ASSUME NEW v \in Published
      PROVE  U!Rank(v) \in DOMAIN Releases /\ Releases[U!Rank(v)] = v
  BY DEF Published, U!Rank
<1>2. ASSUME UpdaterInv, NEW v, Newer(v)
      PROVE  U!Rank(v) > U!Rank(running)
  <2>1. v \in Published /\ running \in Published /\ U!compareVersions(v, running) > 0
    BY <1>2 DEF UpdaterInv, UpdaterTypeOK, Newer
  <2>2. U!Rank(v) \in Nat /\ U!Rank(running) \in Nat
    BY <1>1, <2>1 DEF ReleasesListed
  <2>3. U!Rank(v) # U!Rank(running)
    BY <1>1, <2>1, SameVersion
  <2>4. ~(U!Rank(v) < U!Rank(running))
    BY <1>1, <2>1 DEF ReleasesListed
  <2> QED BY <2>2, <2>3, <2>4
<1>3. UpdaterInv /\ [DesktopNext]_<<vars, updater>> =>
        [installed' \notin {installed, U!NoVersion}
         => U!Rank(installed') > U!Rank(running)]_updater
  <2> SUFFICES ASSUME UpdaterInv, DesktopNext, installed' \notin {installed, U!NoVersion}
               PROVE  U!Rank(installed') > U!Rank(running)
    BY DEF updater
  <2>1. U!PutInPlace
    BY DEF DesktopNext, Lives, Checks, CheckEnds, Installs, Relaunch, UserLaunches, Ends,
       updater, U!CheckNow, U!FetchUpdateInfo, U!DownloadUpdate, U!FetchFails,
       U!OpenDownload, U!InstallReadyUpdate, U!SpawnFails, U!SpawnInstaller, U!Unpack,
       U!TakeAway, U!Launched, U!Gone, U!program
  <2>2. Newer(installer.file.of) /\ installed' = installer.file.of
    BY <2>1 DEF U!PutInPlace, UpdaterInv, InstallInv, Good
  <2> QED BY <1>2, <2>2
<1> QED BY <1>3, UpdaterInvInit, UpdaterInvStep, PTL DEF DesktopSpec, InstalledOnlyRises

-----------------------------------------------------------------------------
(* The configuration. *)

Fields == {"kind", "ui", "adapters", "multiplier", "rows", "hash"}
Row    == {"absent", "seed", "own", "deleted"}
Said   == {"nothing said", "seed", "own", "deleted"}

(* A configuration in the form all copies of it have. *)
WellFormed(c) ==
    /\ c = [f \in Fields |-> c[f]]
    /\ c.kind \in {"none", "bad", "raw", "tidy"}
    /\ c.ui \in {0, 1}
    /\ c.adapters \in [Places -> {"absent", "on", "off"}]
    /\ c.multiplier \in [Places -> BOOLEAN]
    /\ c.rows \in [Models -> Row]

(* A reload or an update under way. *)
IsStep(r, ats) ==
    /\ r = [at |-> r.at, stamp |-> r.stamp, config |-> r.config]
    /\ r.at \in ats
    /\ WellFormed(r.config)

Loads(r, c) == [r EXCEPT !.at = "loaded", !.config = c]
Looks(s)    == [NoStep EXCEPT !.at = "looked", !.stamp = s]
Stores(c)   == [NoStep EXCEPT !.at = "stored", !.config = c]

ReloadAts == {"none", "looked", "loaded"}
UpdateAts == {"none", "stored", "set"}

ConfigTypeOK ==
    /\ stamp \in Nat \ {0} /\ snapshot \in 0 .. stamp /\ raced \in BOOLEAN
    /\ WellFormed(file) /\ WellFormed(current) /\ WellFormed(form)
    /\ IsStep(reload, ReloadAts) /\ reload.stamp \in 0 .. stamp
    /\ saving = [w \in Callers |-> saving[w]]
    /\ \A w \in Callers : IsStep(saving[w], UpdateAts)
    /\ sheet = [p \in Pricers |-> sheet[p]]
    /\ \A p \in Pricers : WellFormed(sheet[p])
    /\ told \in [Models -> Said]

(* What the manager may serve, c, says what the file says. *)
SaysTheSame(c) == NormalizeConfig(c) = NormalizeConfig(file)

Usable == file.kind \notin {"none", "bad"}

(* An update that no write and no reload has overlapped is the only one: the *)
(* file is what it stored, and so is every copy taken since.                 *)
UpdateIsAlone ==
    ~raced => \A w \in Callers : saving[w].at # "none" =>
        /\ \A v \in Callers \ {w} : saving[v].at = "none"
        /\ file = saving[w].config
        /\ saving[w].at = "set" => SaysTheSame(current)
        /\ reload.at = "loaded" => SaysTheSame(reload.config)

(* What a reload loaded is what the file says until the next write. *)
ReloadIsFresh ==
    (reload.at = "loaded" /\ reload.stamp = stamp /\ Usable) => SaysTheSame(reload.config)

CopyIsFresh ==
    (~InUpdate /\ ~raced /\ Usable /\ snapshot = stamp) => SaysTheSame(current)

CopyInv == UpdateIsAlone /\ ReloadIsFresh /\ CopyIsFresh

(* The prices as told, in the file and on every sheet under way. *)
FilePrices  == \A m \in Models : told[m] # "nothing said" => Loaded(file).rows[m] = told[m]
SheetPrices == \A p \in Pricers, m \in Models :
                  (sheet[p].kind # "none" /\ told[m] # "nothing said") => sheet[p].rows[m] = told[m]

(***************************************************************************)
(* Configurations and steps                                                *)
(***************************************************************************)

(* A normalisation keeps the form, and every field but the kind and the rows. *)
LEMMA NormalizedForm ==
    ASSUME NEW c, WellFormed(c)
    PROVE  /\ WellFormed(NormalizeConfig(c))
           /\ NormalizeConfig(c).kind = "tidy"
           /\ NormalizeConfig(c).adapters = c.adapters
           /\ NormalizeConfig(c).multiplier = c.multiplier
           /\ NormalizeConfig(c).rows = normalizePricingConfig(c.rows)
<1>1. normalizePricingConfig(c.rows) \in [Models -> Row]
  BY DEF WellFormed, normalizePricingConfig, Row
<1> QED BY <1>1 DEF WellFormed, NormalizeConfig, Fields

(* A second normalisation changes nothing. *)
LEMMA NormalizedOnce == \A c : NormalizeConfig(NormalizeConfig(c)) = NormalizeConfig(c)
BY DEF NormalizeConfig, normalizePricingConfig

(* The configurations the program makes itself. *)
LEMMA DefaultForm == WellFormed(DefaultConfig) /\ WellFormed(Unloaded) /\ Unloaded.kind = "none"
BY DEF WellFormed, DefaultConfig, Unloaded, Fields, Row

(* A load returns, and leaves in the file, a configuration in form.         *)
LEMMA LoadedForm ==
    ASSUME NEW f, WellFormed(f)
    PROVE  WellFormed(Loaded(f)) /\ WellFormed(Rewritten(f)) /\ Loaded(f).kind = "tidy"
<1>1. WellFormed(DefaultConfig) /\ DefaultConfig.kind = "tidy"
  BY DefaultForm DEF DefaultConfig
<1>2. WellFormed(NormalizeConfig(f)) /\ NormalizeConfig(f).kind = "tidy"
  BY NormalizedForm
<1> QED BY <1>1, <1>2 DEF Loaded, Rewritten

(* What a load returns says what it leaves in the file says. *)
LEMMA LoadedSaysTheSame ==
    \A f : NormalizeConfig(Loaded(f)) = NormalizeConfig(Rewritten(f))
BY NormalizedOnce DEF Loaded, Rewritten

(* The steps of a reload and of an update. *)
LEMMA IdleStep == IsStep(NoStep, ReloadAts) /\ IsStep(NoStep, UpdateAts) /\ NoStep.at = "none" /\ NoStep.stamp = 0
BY DefaultForm DEF IsStep, NoStep, ReloadAts, UpdateAts

(* Steps by the sets of their fields' values. *)
Steps(A, S, C) == [at : A, stamp : S, config : C]

(* Two fields of a step replaced at once.                                    *)
LEMMA TwoFields ==
    ASSUME NEW A, NEW S, NEW C, NEW r \in Steps(A, S, C)
    PROVE  /\ \A b, o : [r EXCEPT !.at = b, !.stamp = o] \in Steps({b}, {o}, C)
           /\ \A b, d : [r EXCEPT !.at = b, !.config = d] \in Steps({b}, S, {d})
<1>1. ASSUME NEW b, NEW o PROVE [r EXCEPT !.at = b, !.stamp = o] \in Steps({b}, {o}, C)
  BY ZenonT(30) DEF Steps
<1>2. ASSUME NEW b, NEW d PROVE [r EXCEPT !.at = b, !.config = d] \in Steps({b}, S, {d})
  BY ZenonT(30) DEF Steps
<1> QED BY <1>1, <1>2

(* No step under way.                                                       *)
LEMMA IdleFields == NoStep \in Steps({"none"}, {0}, {Unloaded})
BY DEF NoStep, Steps

(* A reload that has looked at the file.                                     *)
LEMMA LookStep ==
    \A s : /\ IsStep(Looks(s), ReloadAts)
           /\ Looks(s).at = "looked" /\ Looks(s).stamp = s
<1>1. \A s : Looks(s) \in Steps({"looked"}, {s}, {Unloaded})
  BY TwoFields, IdleFields, Zenon DEF Looks
<1> QED BY <1>1, DefaultForm DEF IsStep, ReloadAts, Steps

(* A reload that has loaded it.                                              *)
LEMMA LoadStep ==
    ASSUME NEW r, IsStep(r, ReloadAts), NEW c, WellFormed(c)
    PROVE  /\ IsStep(Loads(r, c), ReloadAts)
           /\ Loads(r, c).at = "loaded" /\ Loads(r, c).stamp = r.stamp
           /\ Loads(r, c).config = c
<1>1. r \in Steps({r.at}, {r.stamp}, {r.config})
  BY DEF IsStep, Steps
<1>2. Loads(r, c) \in Steps({"loaded"}, {r.stamp}, {c})
  BY <1>1, TwoFields, Zenon DEF Loads
<1> QED BY <1>2 DEF IsStep, ReloadAts, Steps

(* An update that has stored its configuration.                              *)
LEMMA StoreStep ==
    ASSUME NEW c, WellFormed(c)
    PROVE  IsStep(Stores(c), UpdateAts) /\ Stores(c).at = "stored" /\ Stores(c).config = c
<1>1. Stores(c) \in Steps({"stored"}, {0}, {c})
  BY TwoFields, IdleFields, Zenon DEF Stores
<1> QED BY <1>1 DEF IsStep, UpdateAts, Steps

(* An update whose configuration is the current one.                         *)
LEMMA SetStep ==
    ASSUME NEW r, IsStep(r, UpdateAts)
    PROVE  LET s == [r EXCEPT !.at = "set"] IN
           IsStep(s, UpdateAts) /\ s.at = "set" /\ s.config = r.config
BY DEF IsStep, UpdateAts

(* What a load does to the file: it leaves it alone or writes it again.     *)
LEMMA LoadKeepsOrWrites ==
    LoadEffect =>
        /\ file' = Rewritten(file)
        /\ \/ UNCHANGED <<file, stamp, raced>>
           \/ WriteFile(Rewritten(file), InUpdate)
BY DEF LoadEffect, WriteFile

(* A write leaves every stamp read before it behind.                        *)
LEMMA WriteStamps ==
    ASSUME NEW f, NEW o, WriteFile(f, o), ConfigTypeOK, o \in BOOLEAN
    PROVE  /\ file' = f /\ stamp' \in Nat \ {0} /\ raced' \in BOOLEAN
           /\ \A s \in 0 .. stamp : s \in 0 .. stamp' /\ s # stamp'
           /\ raced' = (raced \/ o)
<1>1. stamp \in Nat /\ raced \in BOOLEAN
  BY DEF ConfigTypeOK
<1> QED BY <1>1 DEF WriteFile

(***************************************************************************)
(* The configurations the callers write                                    *)
(***************************************************************************)

(* What the form may send is in form. *)
LEMMA PayloadForm ==
    ASSUME WellFormed(form), NEW patch \in Payloads
    PROVE  WellFormed(patch)
<1>1. CASE patch = [form EXCEPT !.ui = 1 - @]
  BY <1>1 DEF WellFormed, Fields
<1>2. ASSUME NEW i \in Places, NEW a \in {"absent", "on", "off"}, patch = WithAdapter(form, i, a)
      PROVE  WellFormed(patch)
  <2> DEFINE on  == [form.adapters EXCEPT ![i] = a]
             off == [form.multiplier EXCEPT ![i] = FALSE]
  <2>1. on \in [Places -> {"absent", "on", "off"}] /\ off \in [Places -> BOOLEAN]
    BY DEF WellFormed
  <2>2. patch = [form EXCEPT !.adapters = on, !.multiplier = off]
    BY <1>2 DEF WithAdapter
  <2> HIDE DEF on, off
  <2> QED BY <2>1, <2>2 DEF WellFormed, Fields
<1> QED BY <1>1, <1>2 DEF Payloads

(* A merge takes the interface's fields and the adapters of the payload, the  *)
(* rest of the baseline.                                                     *)
LEMMA MergedForm ==
    ASSUME NEW c, WellFormed(c), NEW patch, WellFormed(patch)
    PROVE  /\ WellFormed(mergeUserPatchInto(c, patch))
           /\ mergeUserPatchInto(c, patch).adapters = patch.adapters
           /\ mergeUserPatchInto(c, patch).rows = c.rows
           /\ mergeUserPatchInto(c, patch).multiplier = [i \in Places |-> KeptMultiplier(c, patch, i)]
<1>1. \A i \in Places : KeptMultiplier(c, patch, i) \in BOOLEAN
  BY DEF KeptMultiplier
<1> DEFINE kept == [i \in Places |-> KeptMultiplier(c, patch, i)]
<1>2. kept \in [Places -> BOOLEAN]
  BY <1>1
<1>3. mergeUserPatchInto(c, patch) =
        [c EXCEPT !.ui = patch.ui, !.adapters = patch.adapters, !.hash = patch.hash, !.multiplier = kept]
  BY DEF mergeUserPatchInto
<1> HIDE DEF kept
<1>4. WellFormed([c EXCEPT !.ui = patch.ui, !.adapters = patch.adapters, !.hash = patch.hash, !.multiplier = kept])
  BY <1>2 DEF WellFormed, Fields
<1>5. LET merged == [c EXCEPT !.ui = patch.ui, !.adapters = patch.adapters, !.hash = patch.hash, !.multiplier = kept]
      IN  merged.adapters = patch.adapters /\ merged.rows = c.rows /\ merged.multiplier = kept
  BY DEF WellFormed, Fields
<1> QED BY <1>3, <1>4, <1>5 DEF kept

(* One field replaced: the hash by a turn, the rows by a pricing call.       *)
LEMMA HashForm ==
    ASSUME NEW c, WellFormed(c), NEW h
    PROVE  WellFormed([c EXCEPT !.hash = h]) /\ [c EXCEPT !.hash = h].rows = c.rows
BY DEF WellFormed, Fields

(* The same of the rows.                                                     *)
LEMMA RowsForm ==
    ASSUME NEW c, WellFormed(c), NEW rows \in [Models -> Row]
    PROVE  WellFormed([c EXCEPT !.rows = rows]) /\ [c EXCEPT !.rows = rows].rows = rows
BY DEF WellFormed, Fields

(* What the user's editor may leave is a file in form, with the prices it had. *)
LEMMA EditForm ==
    ASSUME WellFormed(file), NEW f \in Edits
    PROVE  WellFormed(f) /\ f.rows = file.rows /\ f.kind # "none"
<1>1. CASE f = [file EXCEPT !.kind = "bad"]
  BY <1>1 DEF WellFormed, Fields
<1>2. CASE f = [file EXCEPT !.kind = "raw", !.ui = 1 - @]
  <2> DEFINE u == 1 - file.ui
  <2>1. u \in {0, 1}
    BY DEF WellFormed
  <2>2. f = [file EXCEPT !.kind = "raw", !.ui = u]
    BY <1>2
  <2> HIDE DEF u
  <2> QED BY <2>1, <2>2 DEF WellFormed, Fields
<1>3. ASSUME NEW i \in Present(file), f = [file EXCEPT !.kind = "tidy", !.multiplier[i] = TRUE]
      PROVE  WellFormed(f) /\ f.rows = file.rows /\ f.kind # "none"
  BY <1>3 DEF WellFormed, Fields, Present
<1> QED BY <1>1, <1>2, <1>3 DEF Edits

(***************************************************************************)
(* The form of every copy                                                  *)
(***************************************************************************)

(* The first file and the first copy of it are in form.                      *)
LEMMA ConfigTypeOKInit == ConfigInit => ConfigTypeOK
<1> SUFFICES ASSUME ConfigInit PROVE ConfigTypeOK
  OBVIOUS
<1> DEFINE on  == [i \in Places |-> "on"]
           one == [i \in Places |-> i = 1]
           c   == [DefaultConfig EXCEPT !.adapters = on, !.multiplier = one]
<1>1. on \in [Places -> {"absent", "on", "off"}] /\ one \in [Places -> BOOLEAN]
  OBVIOUS
<1>2. WellFormed(c)
  <2> HIDE DEF on, one
  <2> QED BY <1>1, DefaultForm DEF WellFormed, Fields
<1>3. file = NormalizeConfig(c)
  BY Zenon DEF ConfigInit
<1>4. WellFormed(file)
  BY <1>2, <1>3, NormalizedForm
<1> HIDE DEF c
<1>5. told \in [Models -> Said]
  BY DEF ConfigInit, Said
<1>6. /\ stamp = 1 /\ snapshot = 1 /\ raced = FALSE /\ current = file /\ reload = NoStep
      /\ form = Unloaded
      /\ saving = [w \in Callers |-> NoStep] /\ sheet = [p \in Pricers |-> Unloaded]
  BY DEF ConfigInit
<1>7. WellFormed(current) /\ WellFormed(form) /\ IsStep(reload, ReloadAts) /\ reload.stamp = 0
  BY <1>4, <1>6, IdleStep, DefaultForm
<1>8. saving = [w \in Callers |-> saving[w]] /\ \A w \in Callers : IsStep(saving[w], UpdateAts)
  BY <1>6, IdleStep
<1>9. sheet = [p \in Pricers |-> sheet[p]] /\ \A p \in Pricers : WellFormed(sheet[p])
  BY <1>6, DefaultForm
<1>10. stamp \in Nat \ {0} /\ snapshot \in 0 .. stamp /\ reload.stamp \in 0 .. stamp
  BY <1>6, <1>7
<1>11. raced \in BOOLEAN
  BY <1>6, Zenon
<1> HIDE DEF on, one
<1> QED BY <1>4, <1>5, <1>7, <1>8, <1>9, <1>10, <1>11 DEF ConfigTypeOK

(* A load, or a write of a configuration in form, keeps the file in form and *)
(* the stamps in order.                                                      *)
FileKept ==
    /\ stamp' \in Nat \ {0} /\ raced' \in BOOLEAN /\ WellFormed(file)'
    /\ \A s \in 0 .. stamp : s \in 0 .. stamp'

(* A write of a configuration in form.                                       *)
LEMMA WriteKeepsForm ==
    ASSUME ConfigTypeOK, NEW f, WellFormed(f), NEW o, WriteFile(f, o)
    PROVE  FileKept
<1>1. stamp \in Nat /\ raced \in BOOLEAN
  BY DEF ConfigTypeOK
<1> QED BY <1>1 DEF WriteFile, FileKept, WellFormed

(* A load, which may write the file again.                                   *)
LEMMA LoadKeepsForm ==
    ASSUME ConfigTypeOK, LoadEffect
    PROVE  FileKept
<1>1. WellFormed(file) /\ WellFormed(Rewritten(file))
  BY LoadedForm DEF ConfigTypeOK
<1>2. CASE UNCHANGED <<file, stamp, raced>>
  BY <1>1, <1>2 DEF ConfigTypeOK, FileKept, WellFormed
<1>3. CASE WriteFile(Rewritten(file), InUpdate)
  BY <1>1, <1>3, WriteKeepsForm
<1> QED BY <1>2, <1>3, LoadKeepsOrWrites

(* Two parts of the form of the state. *)
CopiesOK ==
    /\ WellFormed(current) /\ WellFormed(form)
    /\ sheet = [p \in Pricers |-> sheet[p]]
    /\ \A p \in Pricers : WellFormed(sheet[p])
    /\ told \in [Models -> Said]

StepsOK ==
    /\ IsStep(reload, ReloadAts) /\ reload.stamp \in 0 .. stamp
    /\ saving = [w \in Callers |-> saving[w]]
    /\ \A w \in Callers : IsStep(saving[w], UpdateAts)

(* The copies of a step that touches none.                                   *)
LEMMA CopiesStay ==
    ConfigTypeOK /\ UNCHANGED <<current, form, sheet, told>> => CopiesOK'
BY DEF ConfigTypeOK, CopiesOK

(* The file of a step that does not write.                                   *)
LEMMA FileStays ==
    ConfigTypeOK /\ UNCHANGED <<file, stamp>> /\ raced' \in BOOLEAN => FileKept
BY DEF ConfigTypeOK, FileKept

(* A step that keeps each part keeps the whole.                              *)
LEMMA TypeAfter ==
    ASSUME FileKept, CopiesOK', StepsOK', snapshot' \in 0 .. stamp'
    PROVE  ConfigTypeOK'
BY DEF FileKept, CopiesOK, StepsOK, ConfigTypeOK

(* The three steps of a reload keep every copy in form.                      *)
LEMMA ReloadTypeStep ==
    ASSUME ConfigTypeOK, reloadIfChanged \/ ReloadLoads \/ ReloadPublishes
    PROVE  ConfigTypeOK'
<1>1. CASE reloadIfChanged
  <2>1. reload' = Looks(snapshotOf(file, stamp))
    BY <1>1 DEF reloadIfChanged, Looks
  <2>2. snapshotOf(file, stamp) \in 0 .. stamp
    BY DEF snapshotOf, ConfigTypeOK
  <2>3. IsStep(reload', ReloadAts) /\ reload'.stamp \in 0 .. stamp
    BY <2>1, <2>2, LookStep
  <2>4. FileKept /\ CopiesOK' /\ snapshot' \in 0 .. stamp'
    BY <1>1, CopiesStay, FileStays DEF reloadIfChanged, ConfigTypeOK
  <2>5. StepsOK'
    BY <1>1, <2>3 DEF reloadIfChanged, StepsOK, ConfigTypeOK
  <2> QED BY <2>4, <2>5, TypeAfter
<1>2. CASE ReloadLoads /\ Loadable(file)
  <2>1. reload' = Loads(reload, Loaded(file)) /\ LoadEffect
    BY <1>2 DEF ReloadLoads, Loads
  <2>2. WellFormed(Loaded(file)) /\ IsStep(reload, ReloadAts)
    BY LoadedForm DEF ConfigTypeOK
  <2>3. IsStep(reload', ReloadAts) /\ reload'.stamp = reload.stamp
    BY <2>1, <2>2, LoadStep
  <2>4. FileKept
    BY <2>1, LoadKeepsForm
  <2>5. CopiesOK' /\ snapshot' \in 0 .. stamp' /\ reload'.stamp \in 0 .. stamp'
    BY <1>2, <2>3, <2>4, CopiesStay DEF ReloadLoads, ConfigTypeOK, FileKept
  <2>6. StepsOK'
    BY <1>2, <2>3, <2>5 DEF ReloadLoads, StepsOK, ConfigTypeOK
  <2> QED BY <2>4, <2>5, <2>6, TypeAfter
<1>3. CASE ReloadLoads /\ ~Loadable(file)
  <2>1. FileKept /\ CopiesOK' /\ snapshot' \in 0 .. stamp'
    BY <1>3, CopiesStay, FileStays DEF ReloadLoads, ConfigTypeOK
  <2>2. StepsOK'
    BY <1>3, IdleStep DEF ReloadLoads, StepsOK, ConfigTypeOK
  <2> QED BY <2>1, <2>2, TypeAfter
<1>4. CASE ReloadPublishes
  <2>1. WellFormed(reload.config) /\ reload.stamp \in 0 .. stamp
    BY DEF ConfigTypeOK, IsStep
  <2>2. raced' \in BOOLEAN
    BY <1>4 DEF ReloadPublishes, ConfigTypeOK
  <2>3. FileKept
    BY <1>4, <2>2, FileStays DEF ReloadPublishes
  <2>4. CopiesOK' /\ snapshot' \in 0 .. stamp'
    BY <1>4, <2>1 DEF ReloadPublishes, CopiesOK, ConfigTypeOK
  <2>5. StepsOK'
    BY <1>4, IdleStep DEF ReloadPublishes, StepsOK, ConfigTypeOK
  <2> QED BY <2>3, <2>4, <2>5, TypeAfter
<1> QED BY <1>1, <1>2, <1>3, <1>4

(* An update's write keeps the file and the update in form.                  *)
LEMMA StoreTypeStep ==
    ASSUME ConfigTypeOK, NEW w \in Callers, NEW c, WellFormed(c), StoreUpdate(w, c),
           WellFormed(form'), UNCHANGED <<current, snapshot, reload, sheet, told>>
    PROVE  ConfigTypeOK'
<1> DEFINE n == NormalizeConfig(c)
<1>1. WellFormed(n)
  BY NormalizedForm
<1>2. WriteFile(n, InUpdate \/ reload.at = "loaded") /\ saving' = [saving EXCEPT ![w] = Stores(n)]
  BY DEF StoreUpdate, Stores
<1>3. IsStep(Stores(n), UpdateAts)
  BY <1>1, StoreStep
<1>4. FileKept
  BY <1>1, <1>2, WriteKeepsForm
<1> HIDE DEF n
<1>5. CopiesOK'
  BY DEF CopiesOK, ConfigTypeOK
<1>6. StepsOK' /\ snapshot' \in 0 .. stamp'
  <2>1. snapshot' \in 0 .. stamp' /\ reload'.stamp \in 0 .. stamp'
    BY <1>4 DEF FileKept, ConfigTypeOK
  <2> QED BY <1>2, <1>3, <2>1 DEF StepsOK, ConfigTypeOK
<1> QED BY <1>4, <1>5, <1>6, TypeAfter

(* The two later steps of an update.                                         *)
LEMMA UpdateTypeStep ==
    ASSUME ConfigTypeOK, NEW w \in Callers, setCurrent(w) \/ TakeSnapshot(w)
    PROVE  ConfigTypeOK'
<1>1. CASE setCurrent(w)
  <2>1. WellFormed(saving[w].config) /\ IsStep([saving[w] EXCEPT !.at = "set"], UpdateAts)
    BY SetStep DEF ConfigTypeOK, IsStep
  <2>2. PICK s : s = [saving[w] EXCEPT !.at = "set"]
    OBVIOUS
  <2>3. saving' = [saving EXCEPT ![w] = s]
    BY <1>1, <2>2, Zenon DEF setCurrent
  <2>4. FileKept /\ snapshot' \in 0 .. stamp'
    BY <1>1, FileStays DEF setCurrent, ConfigTypeOK
  <2>5. CopiesOK'
    BY <1>1, <2>1 DEF setCurrent, CopiesOK, ConfigTypeOK
  <2>6. StepsOK'
    <3>1. IsStep(s, UpdateAts) /\ reload' = reload /\ stamp' = stamp
      BY <1>1, <2>1, <2>2 DEF setCurrent
    <3> QED BY <2>3, <3>1 DEF StepsOK, ConfigTypeOK
  <2> QED BY <2>4, <2>5, <2>6, TypeAfter
<1>2. CASE TakeSnapshot(w)
  <2>1. snapshotOf(file, stamp) \in 0 .. stamp
    BY DEF snapshotOf, ConfigTypeOK
  <2>2. FileKept /\ CopiesOK' /\ snapshot' \in 0 .. stamp'
    BY <1>2, <2>1, FileStays, CopiesStay DEF TakeSnapshot, ConfigTypeOK
  <2>3. StepsOK'
    BY <1>2, IdleStep DEF TakeSnapshot, StepsOK, ConfigTypeOK
  <2> QED BY <2>2, <2>3, TypeAfter
<1> QED BY <1>1, <1>2

(* What an update starts from.                                               *)
LEMMA BaselineForm ==
    ConfigTypeOK => WellFormed(Baseline) /\ Baseline.kind = "tidy"
BY LoadedForm DEF Baseline, ConfigTypeOK

(* The steps of the settings form.                                           *)
LEMMA FormTypeStep ==
    ASSUME ConfigTypeOK, FillForm \/ SaveUserConfig \/ RejectUserConfig
    PROVE  ConfigTypeOK'
<1>1. CASE FillForm \/ RejectUserConfig
  <2>1. FileKept /\ StepsOK' /\ snapshot' \in 0 .. stamp'
    BY <1>1, FileStays DEF FillForm, RejectUserConfig, StepsOK, ConfigTypeOK
  <2>2. CopiesOK'
    BY <1>1, DefaultForm DEF FillForm, RejectUserConfig, CopiesOK, ConfigTypeOK
  <2> QED BY <2>1, <2>2, TypeAfter
<1>2. CASE SaveUserConfig
  <2>1. PICK patch \in Payloads : StoreUpdate("form", mergeUserPatchInto(Baseline, patch))
    BY <1>2 DEF SaveUserConfig
  <2>2. WellFormed(mergeUserPatchInto(Baseline, patch))
    BY PayloadForm, BaselineForm, MergedForm DEF ConfigTypeOK
  <2>3. WellFormed(form') /\ UNCHANGED <<current, snapshot, reload, sheet, told>>
    BY <1>2, DefaultForm DEF SaveUserConfig
  <2>4. "form" \in Callers
    BY DEF Callers
  <2> QED BY <2>1, <2>2, <2>3, <2>4, StoreTypeStep
<1> QED BY <1>1, <1>2

(* A turn writes the baseline with another hash.                             *)
LEMMA TurnTypeStep ==
    ASSUME ConfigTypeOK, NEW ref, SaveLastAgentModelHash(ref)
    PROVE  ConfigTypeOK'
<1>1. PICK h : h = Head(SelectChannelsForModel(current, ref))
  OBVIOUS
<1>2. /\ StoreUpdate("turn", [Baseline EXCEPT !.hash = h])
      /\ UNCHANGED <<current, snapshot, reload, form, sheet, told>>
  BY <1>1 DEF SaveLastAgentModelHash
<1>3. WellFormed([Baseline EXCEPT !.hash = h])
  BY BaselineForm, HashForm
<1>4. WellFormed(form') /\ "turn" \in Callers
  BY <1>2 DEF ConfigTypeOK, Callers
<1> QED BY <1>2, <1>3, <1>4, StoreTypeStep

(* The rows of a sheet in form, one of them replaced.                        *)
LEMMA SheetRows ==
    ASSUME ConfigTypeOK, NEW p \in Pricers, NEW m \in Models, NEW r \in Row
    PROVE  [sheet[p].rows EXCEPT ![m] = r] \in [Models -> Row]
BY DEF ConfigTypeOK, WellFormed

(* A pricing call's save.                                                    *)
LEMMA PricingSaveKeepsForm ==
    ASSUME ConfigTypeOK, NEW p \in Pricers, NEW rows \in [Models -> Row], PricingSave(p, rows)
    PROVE  /\ FileKept /\ StepsOK' /\ snapshot' \in 0 .. stamp'
           /\ sheet' = [sheet EXCEPT ![p] = Unloaded]
           /\ \A q \in Pricers : WellFormed(sheet'[q])
           /\ UNCHANGED <<current, form>>
<1>1. WellFormed([sheet[p] EXCEPT !.rows = rows])
  BY RowsForm DEF ConfigTypeOK
<1>2. WellFormed(NormalizeConfig([sheet[p] EXCEPT !.rows = rows]))
  BY <1>1, NormalizedForm
<1>3. FileKept
  BY <1>2, WriteKeepsForm DEF PricingSave
<1>4. snapshot' \in 0 .. stamp' /\ reload'.stamp \in 0 .. stamp'
  BY <1>3 DEF PricingSave, FileKept, ConfigTypeOK
<1>5. StepsOK'
  BY <1>4 DEF PricingSave, StepsOK, ConfigTypeOK
<1>6. sheet' = [sheet EXCEPT ![p] = Unloaded] /\ UNCHANGED <<current, form>>
  BY DEF PricingSave
<1>7. \A q \in Pricers : WellFormed(sheet'[q])
  BY <1>6, DefaultForm DEF ConfigTypeOK
<1> QED BY <1>3, <1>4, <1>5, <1>6, <1>7

(* The row of an edited price.                                               *)
LEMMA UpdatedRowForm == \A r : UpdatedRow(r) \in {"deleted", "own"}
BY DEF UpdatedRow

(* The row of a deleted price.                                               *)
LEMMA DeletedRowForm == \A m : DeletedRow(m) \in {"deleted", "absent"}
BY DEF DeletedRow

(* The steps of a pricing call.                                              *)
LEMMA PricingTypeStep ==
    ASSUME ConfigTypeOK, NEW p \in Pricers, PricingCall(p)
    PROVE  ConfigTypeOK'
<1>1. CASE PricingLoad(p)
  <2>1. FileKept
    BY <1>1, LoadKeepsForm DEF PricingLoad
  <2>2. WellFormed(Loaded(file))
    BY LoadedForm DEF ConfigTypeOK
  <2>3. CopiesOK'
    BY <1>1, <2>2 DEF PricingLoad, CopiesOK, ConfigTypeOK
  <2>4. snapshot' \in 0 .. stamp' /\ reload'.stamp \in 0 .. stamp'
    BY <1>1, <2>1 DEF PricingLoad, FileKept, ConfigTypeOK
  <2>5. StepsOK'
    BY <1>1, <2>4 DEF PricingLoad, StepsOK, ConfigTypeOK
  <2> QED BY <2>1, <2>3, <2>4, <2>5, TypeAfter
<1>2. ASSUME NEW m \in Models, NEW r \in Row,
             PricingSave(p, [sheet[p].rows EXCEPT ![m] = r]), told' \in [Models -> Said]
      PROVE  ConfigTypeOK'
  <2>1. [sheet[p].rows EXCEPT ![m] = r] \in [Models -> Row]
    BY SheetRows
  <2>2. PICK rows \in [Models -> Row] : rows = [sheet[p].rows EXCEPT ![m] = r]
    BY <2>1
  <2>3. PricingSave(p, rows)
    BY <1>2, <2>2
  <2>4. CopiesOK'
    BY <1>2, <2>3, PricingSaveKeepsForm DEF CopiesOK, ConfigTypeOK
  <2> QED BY <2>3, <2>4, PricingSaveKeepsForm, TypeAfter
<1>3. ASSUME NEW m \in Models, UpdateModelPricing(p, m)
      PROVE  ConfigTypeOK'
  <2>1. PICK r : r = UpdatedRow(sheet[p].rows[m])
    OBVIOUS
  <2>2. r \in Row /\ PricingSave(p, [sheet[p].rows EXCEPT ![m] = r])
    BY <1>3, <2>1, UpdatedRowForm DEF UpdateModelPricing, Row
  <2>3. told' \in [Models -> Said]
    <3>1. PICK v \in {"deleted", "own"} : told' = [told EXCEPT ![m] = v]
      <4> DEFINE v == IF told[m] = "nothing said" THEN UpdatedRow(sheet[p].rows[m]) ELSE UpdatedRow(told[m])
      <4>1. v \in {"deleted", "own"}
        BY UpdatedRowForm
      <4>2. told' = [told EXCEPT ![m] = v]
        BY <1>3 DEF UpdateModelPricing
      <4> HIDE DEF v
      <4> QED BY <4>1, <4>2
    <3> QED BY <3>1 DEF ConfigTypeOK, Said
  <2> QED BY <2>2, <2>3, <1>2
<1>4. ASSUME NEW m \in Models, DeleteModelPricing(p, m)
      PROVE  ConfigTypeOK'
  <2>1. DeletedRow(m) \in Row /\ PricingSave(p, [sheet[p].rows EXCEPT ![m] = DeletedRow(m)])
    BY <1>4, DeletedRowForm DEF DeleteModelPricing, Row
  <2>2. told' \in [Models -> Said]
    BY <1>4 DEF DeleteModelPricing, ConfigTypeOK, Said
  <2> QED BY <2>1, <2>2, <1>2
<1>5. ASSUME NEW m \in Models, RestoreDefaultPricing(p, m)
      PROVE  ConfigTypeOK'
  BY <1>5, <1>2 DEF RestoreDefaultPricing, ConfigTypeOK, Said, Row
<1> QED BY <1>1, <1>3, <1>4, <1>5 DEF PricingCall

(* An edit with the user's editor.                                           *)
LEMMA EditTypeStep ==
    ASSUME ConfigTypeOK, ExternalEdit
    PROVE  ConfigTypeOK'
<1>1. PICK f : WellFormed(f) /\ WriteFile(f, InUpdate)
  BY EditForm, DefaultForm DEF ExternalEdit, ConfigTypeOK
<1>2. FileKept
  BY <1>1, WriteKeepsForm
<1>3. told' \in [Models -> Said]
  BY DEF ExternalEdit, ConfigTypeOK, Said
<1>4. CopiesOK'
  BY <1>3 DEF ExternalEdit, CopiesOK, ConfigTypeOK
<1>5. snapshot' \in 0 .. stamp' /\ reload'.stamp \in 0 .. stamp'
  BY <1>2 DEF ExternalEdit, FileKept, ConfigTypeOK
<1>6. StepsOK'
  BY <1>5 DEF ExternalEdit, StepsOK, ConfigTypeOK
<1> QED BY <1>2, <1>4, <1>5, <1>6, TypeAfter

(* Every step keeps every copy in form.                                      *)
LEMMA ConfigTypeOKStep == ConfigTypeOK /\ [ConfigNext]_configVars => ConfigTypeOK'
<1> SUFFICES ASSUME ConfigTypeOK, [ConfigNext]_configVars PROVE ConfigTypeOK'
  OBVIOUS
<1>1. CASE UNCHANGED configVars
  BY <1>1 DEF configVars, ConfigTypeOK
<1>2. CASE ConfigNext
  BY <1>2, ReloadTypeStep, UpdateTypeStep, FormTypeStep, TurnTypeStep, PricingTypeStep, EditTypeStep
     DEF ConfigNext
<1> QED BY <1>1, <1>2

(* Every copy of the configuration, in the file, the manager, a reload, an    *)
(* update, the form or a pricing call, has all fields in their form, and no   *)
(* stamp is ahead of the file's.                                             *)
THEOREM CopiesKeepTheirForm == ConfigSpec => []ConfigTypeOK
BY ConfigTypeOKInit, ConfigTypeOKStep, PTL DEF ConfigSpec

(* A save of the form takes no multiplier from an adapter it keeps.          *)
THEOREM SavesKeepMultipliers == ConfigSpec => MultiplierSurvives
<1>1. ConfigTypeOK /\ [ConfigNext]_configVars =>
        [SaveUserConfig => \A i \in Present(Baseline) \cap Present(file') :
            Baseline.multiplier[i] => file'.multiplier[i]]_configVars
  <2> SUFFICES ASSUME ConfigTypeOK, SaveUserConfig, NEW i \in Present(Baseline),
                      i \in Present(file'), Baseline.multiplier[i]
               PROVE  file'.multiplier[i]
    BY Zenon
  <2>1. PICK patch \in Payloads : StoreUpdate("form", mergeUserPatchInto(Baseline, patch))
    BY DEF SaveUserConfig
  <2>2. PICK base : base = Baseline
    OBVIOUS
  <2>3. PICK m : m = mergeUserPatchInto(base, patch)
    OBVIOUS
  <2>4. WellFormed(base) /\ WellFormed(patch)
    BY <2>2, PayloadForm, BaselineForm DEF ConfigTypeOK
  <2>5. /\ WellFormed(m) /\ m.adapters = patch.adapters
        /\ m.multiplier = [j \in Places |-> KeptMultiplier(base, patch, j)]
    BY <2>3, <2>4, MergedForm
  <2>6. file' = NormalizeConfig(m)
    BY <2>1, <2>2, <2>3 DEF StoreUpdate, WriteFile
  <2>7. file'.adapters = patch.adapters
        /\ file'.multiplier = [j \in Places |-> KeptMultiplier(base, patch, j)]
    BY <2>5, <2>6, NormalizedForm
  <2>8. i \in Places /\ base.adapters[i] # "absent" /\ base.multiplier[i] /\ patch.adapters[i] # "absent"
    BY <2>2, <2>7 DEF Present
  <2> QED BY <2>7, <2>8 DEF KeptMultiplier
<1> QED BY <1>1, ConfigTypeOKInit, ConfigTypeOKStep, PTL DEF ConfigSpec, MultiplierSurvives

(***************************************************************************)
(* The manager's copy                                                      *)
(***************************************************************************)

(* The first copy is the file.                                               *)
LEMMA CopyInvInit == ConfigInit => CopyInv
<1> SUFFICES ASSUME ConfigInit PROVE CopyInv
  OBVIOUS
<1>1. current = file /\ reload.at = "none" /\ \A w \in Callers : saving[w].at = "none"
  BY IdleStep DEF ConfigInit
<1> QED BY <1>1 DEF CopyInv, UpdateIsAlone, ReloadIsFresh, CopyIsFresh, SaysTheSame

(* After a write no stamp read before is the file's; unless the write         *)
(* overlapped an update, none is under way.                                  *)
LEMMA WriteKeepsCopy ==
    ASSUME ConfigTypeOK, CopyInv, NEW f, NEW o \in BOOLEAN, WriteFile(f, o), InUpdate => o,
           UNCHANGED <<current, snapshot, reload, saving>>
    PROVE  CopyInv'
<1>1. reload.stamp # stamp' /\ snapshot # stamp' /\ raced' = (raced \/ o)
  BY WriteStamps DEF ConfigTypeOK
<1>2. UpdateIsAlone'
  BY <1>1 DEF UpdateIsAlone, InUpdate
<1>3. ReloadIsFresh' /\ CopyIsFresh'
  BY <1>1 DEF ReloadIsFresh, CopyIsFresh
<1> QED BY <1>2, <1>3 DEF CopyInv

(* A load by somebody other than the reload.                                 *)
LEMMA LoadKeepsCopy ==
    ASSUME ConfigTypeOK, CopyInv, LoadEffect, UNCHANGED <<current, snapshot, reload, saving>>
    PROVE  CopyInv'
<1>1. CASE UNCHANGED <<file, stamp, raced>>
  BY <1>1 DEF CopyInv, UpdateIsAlone, ReloadIsFresh, CopyIsFresh, SaysTheSame, InUpdate, Usable
<1>2. CASE WriteFile(Rewritten(file), InUpdate)
  <2>1. InUpdate \in BOOLEAN
    BY DEF InUpdate
  <2> QED BY <1>2, <2>1, WriteKeepsCopy
<1> QED BY <1>1, <1>2, LoadKeepsOrWrites

(* The steps of a reload.                                                    *)
LEMMA ReloadCopyStep ==
    ASSUME ConfigTypeOK, CopyInv, reloadIfChanged \/ ReloadLoads \/ ReloadPublishes
    PROVE  CopyInv'
<1>1. CASE reloadIfChanged
  <2>1. reload' = Looks(snapshotOf(file, stamp))
    BY <1>1 DEF reloadIfChanged, Looks
  <2>2. reload'.at = "looked"
    BY <2>1, LookStep
  <2> QED BY <1>1, <2>2 DEF reloadIfChanged, CopyInv, UpdateIsAlone, ReloadIsFresh, CopyIsFresh,
             SaysTheSame, InUpdate, Usable
<1>2. CASE ReloadLoads /\ Loadable(file)
  <2>1. /\ reload' = Loads(reload, Loaded(file)) /\ LoadEffect
        /\ UNCHANGED <<current, snapshot, saving>>
    BY <1>2 DEF ReloadLoads, Loads
  <2>2. WellFormed(Loaded(file)) /\ IsStep(reload, ReloadAts)
    BY LoadedForm DEF ConfigTypeOK
  <2>3. reload'.at = "loaded" /\ reload'.config = Loaded(file) /\ reload'.stamp = reload.stamp
    BY <2>1, <2>2, LoadStep
  <2>4. SaysTheSame(reload.config)'
    BY <2>1, <2>3, LoadKeepsOrWrites, LoadedSaysTheSame DEF SaysTheSame
  <2>5. CASE UNCHANGED <<file, stamp, raced>>
    BY <2>1, <2>3, <2>4, <2>5 DEF CopyInv, UpdateIsAlone, ReloadIsFresh, CopyIsFresh, SaysTheSame, InUpdate, Usable
  <2>6. CASE WriteFile(Rewritten(file), InUpdate)
    <3>1. InUpdate \in BOOLEAN
      BY DEF InUpdate
    <3>2. snapshot # stamp' /\ raced' = (raced \/ InUpdate)
      BY <2>6, <3>1, WriteStamps DEF ConfigTypeOK
    <3>3. UpdateIsAlone'
      BY <2>1, <3>2 DEF UpdateIsAlone, InUpdate
    <3> QED BY <2>1, <2>4, <3>2, <3>3 DEF CopyInv, ReloadIsFresh, CopyIsFresh
  <2> QED BY <2>1, <2>5, <2>6, LoadKeepsOrWrites
<1>3. CASE ReloadLoads /\ ~Loadable(file)
  BY <1>3, IdleStep DEF ReloadLoads, CopyInv, UpdateIsAlone, ReloadIsFresh, CopyIsFresh,
     SaysTheSame, InUpdate, Usable
<1>4. CASE ReloadPublishes
  <2>1. /\ reload.at = "loaded" /\ current' = reload.config /\ snapshot' = reload.stamp
        /\ reload' = NoStep /\ UNCHANGED <<file, stamp, saving>>
        /\ ~raced' <=> ~raced \/ ~InUpdate
    BY <1>4 DEF ReloadPublishes
  <2>2. UpdateIsAlone'
    BY <2>1, IdleStep DEF CopyInv, UpdateIsAlone, SaysTheSame, InUpdate
  <2>3. ReloadIsFresh'
    BY <2>1, IdleStep DEF ReloadIsFresh
  <2>4. CopyIsFresh'
    BY <2>1 DEF CopyInv, ReloadIsFresh, CopyIsFresh, SaysTheSame, Usable
  <2> QED BY <2>2, <2>3, <2>4 DEF CopyInv
<1> QED BY <1>1, <1>2, <1>3, <1>4

(* What an update stores is the file, as long as it is alone. *)
LEMMA StoreCopyStep ==
    ASSUME ConfigTypeOK, CopyInv, NEW w \in Callers, NEW c, WellFormed(c), StoreUpdate(w, c),
           UNCHANGED <<current, snapshot, reload>>
    PROVE  CopyInv'
<1> DEFINE n == NormalizeConfig(c)
<1>1. /\ WriteFile(n, InUpdate \/ reload.at = "loaded") /\ saving' = [saving EXCEPT ![w] = Stores(n)]
      /\ saving[w].at = "none"
  BY DEF StoreUpdate, Stores
<1>2. WellFormed(n)
  BY NormalizedForm
<1>3. Stores(n).at = "stored" /\ Stores(n).config = n
  BY <1>2, StoreStep
<1> HIDE DEF n
<1>4. (InUpdate \/ reload.at = "loaded") \in BOOLEAN
  BY DEF InUpdate
<1>5. /\ file' = n /\ reload.stamp # stamp'
      /\ raced' = (raced \/ (InUpdate \/ reload.at = "loaded"))
  BY <1>1, <1>4, WriteStamps DEF ConfigTypeOK
<1>6. /\ saving'[w].at = "stored" /\ saving'[w].config = n
      /\ \A v \in Callers \ {w} : saving'[v] = saving[v]
  BY <1>1, <1>3 DEF ConfigTypeOK
<1>7. UpdateIsAlone'
  BY <1>5, <1>6 DEF UpdateIsAlone, InUpdate
<1>8. ReloadIsFresh'
  BY <1>5 DEF ReloadIsFresh
<1>9. CopyIsFresh'
  BY <1>6 DEF CopyIsFresh, InUpdate
<1> QED BY <1>7, <1>8, <1>9 DEF CopyInv

(* A copy set by an update alone is the file when its stamp is taken.        *)
LEMMA UpdateCopyStep ==
    ASSUME ConfigTypeOK, CopyInv, NEW w \in Callers, setCurrent(w) \/ TakeSnapshot(w)
    PROVE  CopyInv'
<1>1. CASE setCurrent(w)
  <2>1. PICK s : s = [saving[w] EXCEPT !.at = "set"]
    OBVIOUS
  <2>2. s.at = "set" /\ s.config = saving[w].config
    BY <2>1, SetStep DEF ConfigTypeOK
  <2>3. saving' = [saving EXCEPT ![w] = s]
    BY <1>1, <2>1, Zenon DEF setCurrent
  <2>4. /\ saving'[w].at = "set" /\ saving'[w].config = saving[w].config
        /\ \A v \in Callers \ {w} : saving'[v] = saving[v]
    BY <2>2, <2>3 DEF ConfigTypeOK
  <2>5. /\ saving[w].at = "stored" /\ current' = saving[w].config
        /\ UNCHANGED <<file, stamp, snapshot, reload, raced>>
    BY <1>1 DEF setCurrent
  <2>6. UpdateIsAlone'
    BY <2>4, <2>5 DEF CopyInv, UpdateIsAlone, SaysTheSame
  <2>7. ReloadIsFresh'
    BY <2>5 DEF CopyInv, ReloadIsFresh, SaysTheSame, Usable
  <2>8. CopyIsFresh'
    BY <2>4 DEF CopyIsFresh, InUpdate
  <2> QED BY <2>6, <2>7, <2>8 DEF CopyInv
<1>2. CASE TakeSnapshot(w)
  <2>1. /\ saving[w].at = "set" /\ reload = NoStep
        /\ saving'[w] = NoStep /\ \A v \in Callers \ {w} : saving'[v] = saving[v]
        /\ UNCHANGED <<file, stamp, current, reload, raced>>
    BY <1>2 DEF TakeSnapshot, ConfigTypeOK
  <2>2. UpdateIsAlone'
    BY <2>1, IdleStep DEF CopyInv, UpdateIsAlone, SaysTheSame
  <2>3. ReloadIsFresh'
    BY <2>1, IdleStep DEF ReloadIsFresh
  <2>4. CopyIsFresh'
    BY <2>1 DEF CopyInv, UpdateIsAlone, CopyIsFresh, SaysTheSame
  <2> QED BY <2>2, <2>3, <2>4 DEF CopyInv
<1> QED BY <1>1, <1>2

(* Every step keeps the copy in order.                                       *)
LEMMA CopyInvStep == ConfigTypeOK /\ CopyInv /\ [ConfigNext]_configVars => CopyInv'
<1> SUFFICES ASSUME ConfigTypeOK, CopyInv, [ConfigNext]_configVars PROVE CopyInv'
  OBVIOUS
<1>1. CASE UNCHANGED <<file, stamp, current, snapshot, reload, saving, raced>>
  BY <1>1 DEF CopyInv, UpdateIsAlone, ReloadIsFresh, CopyIsFresh, SaysTheSame, InUpdate, Usable
<1>2. CASE SaveUserConfig
  <2>1. PICK patch \in Payloads : StoreUpdate("form", mergeUserPatchInto(Baseline, patch))
    BY <1>2 DEF SaveUserConfig
  <2>2. WellFormed(mergeUserPatchInto(Baseline, patch))
    BY PayloadForm, BaselineForm, MergedForm DEF ConfigTypeOK
  <2> QED BY <1>2, <2>1, <2>2, StoreCopyStep DEF SaveUserConfig, Callers
<1>3. ASSUME NEW ref \in Refs, SaveLastAgentModelHash(ref)
      PROVE  CopyInv'
  <2>1. PICK h : h = Head(SelectChannelsForModel(current, ref))
    OBVIOUS
  <2>2. /\ StoreUpdate("turn", [Baseline EXCEPT !.hash = h])
        /\ UNCHANGED <<current, snapshot, reload>>
    BY <1>3, <2>1 DEF SaveLastAgentModelHash
  <2>3. WellFormed([Baseline EXCEPT !.hash = h])
    BY BaselineForm, HashForm
  <2> QED BY <2>2, <2>3, StoreCopyStep DEF Callers
<1>4. ASSUME NEW p \in Pricers, PricingCall(p)
      PROVE  CopyInv'
  <2>1. InUpdate \in BOOLEAN
    BY DEF InUpdate
  <2>2. CASE PricingLoad(p)
    BY <2>2, LoadKeepsCopy DEF PricingLoad
  <2>3. ASSUME NEW rows, PricingSave(p, rows)
        PROVE  CopyInv'
    BY <2>1, <2>3, WriteKeepsCopy DEF PricingSave
  <2> QED BY <1>4, <2>2, <2>3
          DEF PricingCall, UpdateModelPricing, DeleteModelPricing, RestoreDefaultPricing
<1>5. CASE ExternalEdit
  <2>1. InUpdate \in BOOLEAN
    BY DEF InUpdate
  <2> QED BY <1>5, <2>1, WriteKeepsCopy DEF ExternalEdit
<1>6. CASE FillForm \/ RejectUserConfig
  BY <1>1, <1>6 DEF FillForm, RejectUserConfig
<1> QED
  BY <1>1, <1>2, <1>3, <1>4, <1>5, <1>6, ReloadCopyStep, UpdateCopyStep DEF ConfigNext, configVars

(* A reload overlooks no edit: a manager without an update under way whose    *)
(* snapshot is the file's serves what the file says, whatever was written     *)
(* between the reload's look, its load and its publication.                  *)
THEOREM ReloadOverlooksNothing == ConfigSpec => []CurrentMatchesFile
<1>1. CopyInv => CurrentMatchesFile
  BY DEF CopyInv, CopyIsFresh, CurrentMatchesFile, SaysTheSame, Usable
<1> QED BY <1>1, ConfigTypeOKInit, ConfigTypeOKStep, CopyInvInit, CopyInvStep, PTL DEF ConfigSpec

(***************************************************************************)
(* Prices                                                                  *)
(***************************************************************************)

(* The names under which usage is recorded are the model's own: of the rows   *)
(* that match such a name, the first is that of the model.  (What the         *)
(* candidate names are is a sort and a filter of sequences, which TLC         *)
(* evaluates.)                                                               *)
OwnRowFirst ==
    \A u \in Usages, rows \in [Models -> Row] :
        LET m == ModelOf(u)
        IN  (m \in Models /\ rows[m] # "absent") =>
                /\ MatchModelPricing(rows, u) # <<>>
                /\ Head(MatchModelPricing(rows, u)) = m

OnePricer == \A p, q \in Pricers : p = q

PriceInv == FilePrices /\ SheetPrices

(* At first the user has said nothing.                                       *)
LEMMA PriceInvInit == ConfigInit => PriceInv
BY DEF ConfigInit, PriceInv, FilePrices, SheetPrices

(* A normalisation keeps every row the user may have spoken of.              *)
LEMMA NormalizedRows ==
    ASSUME NEW c, WellFormed(c), NEW m \in Models, c.rows[m] # "absent"
    PROVE  NormalizeConfig(c).rows[m] = c.rows[m]
BY NormalizedForm DEF normalizePricingConfig

(* A row the user has spoken of is not absent, and the file is there.        *)
LEMMA SaidIsThere ==
    ASSUME ConfigTypeOK, PriceInv, NEW m \in Models, told[m] # "nothing said"
    PROVE  /\ told[m] # "absent" /\ Loaded(file).rows[m] = told[m]
           /\ file.kind # "none"
<1>1. told[m] # "absent" /\ Loaded(file).rows[m] = told[m]
  BY DEF ConfigTypeOK, PriceInv, FilePrices, Said
<1>2. DefaultConfig.rows[m] = "absent"
  BY DEF DefaultConfig
<1> QED BY <1>1, <1>2 DEF Loaded

(* A configuration written with the rows told is read with them.             *)
LEMMA WrittenIsRead ==
    ASSUME NEW c, WellFormed(c), NEW m \in Models, c.rows[m] # "absent"
    PROVE  Loaded(NormalizeConfig(c)).rows[m] = c.rows[m]
<1>1. /\ WellFormed(NormalizeConfig(c)) /\ NormalizeConfig(c).kind # "none"
      /\ NormalizeConfig(c).rows[m] = c.rows[m]
  BY NormalizedForm, NormalizedRows
<1>2. NormalizeConfig(NormalizeConfig(c)).rows[m] = c.rows[m]
  BY <1>1, NormalizedRows
<1> QED BY <1>1, <1>2 DEF Loaded

(* A load leaves in the file what the user has said.                         *)
LEMMA LoadKeepsPrices ==
    ASSUME ConfigTypeOK, PriceInv, LoadEffect, told' = told
    PROVE  FilePrices'
<1> SUFFICES ASSUME NEW m \in Models, told[m] # "nothing said"
             PROVE  Loaded(file').rows[m] = told[m]
  BY DEF FilePrices
<1>1. file' = Rewritten(file)
  BY LoadKeepsOrWrites
<1>2. /\ told[m] # "absent" /\ Loaded(file).rows[m] = told[m] /\ file.kind # "none"
      /\ WellFormed(file)
  BY SaidIsThere DEF ConfigTypeOK
<1>3. Loaded(file) = NormalizeConfig(file)
  BY <1>2 DEF Loaded
<1>4. NormalizeConfig(file).kind # "none"
  BY <1>2, NormalizedForm
<1>5. Loaded(NormalizeConfig(file)) = NormalizeConfig(file)
  BY <1>4, NormalizedOnce DEF Loaded
<1>6. file' = file \/ file' = NormalizeConfig(file)
  BY <1>1, <1>2 DEF Rewritten
<1> QED BY <1>2, <1>3, <1>5, <1>6

(* The form and a turn write the rows they found.                            *)
LEMMA StoreKeepsPrices ==
    ASSUME ConfigTypeOK, PriceInv, NEW w, NEW c, WellFormed(c), c.rows = Baseline.rows,
           StoreUpdate(w, c), UNCHANGED <<sheet, told>>
    PROVE  PriceInv'
<1>1. file' = NormalizeConfig(c)
  BY DEF StoreUpdate, WriteFile
<1>2. ASSUME NEW m \in Models, told[m] # "nothing said"
      PROVE  Loaded(file').rows[m] = told[m]
  <2>1. c.rows[m] = told[m] /\ told[m] # "absent"
    BY <1>2, SaidIsThere DEF Baseline
  <2> QED BY <1>1, <2>1, WrittenIsRead
<1> QED BY <1>2 DEF PriceInv, FilePrices, SheetPrices

(* A pricing call writes the row the user speaks of, and the others as told: *)
(* nobody else changes prices between its load and its save.                 *)
LEMMA SaveKeepsPrices ==
    ASSUME ConfigTypeOK, PriceInv, OnePricer, NEW p \in Pricers, NEW m \in Models, NEW r \in Row,
           PricingSave(p, [sheet[p].rows EXCEPT ![m] = r]),
           told' \in [Models -> Said],
           \A x \in Models \ {m} : told'[x] = told[x],
           told'[m] # "nothing said" => told'[m] = r
    PROVE  PriceInv'
<1>1. PICK rows \in [Models -> Row] : rows = [sheet[p].rows EXCEPT ![m] = r]
  BY SheetRows
<1>2. rows[m] = r /\ \A x \in Models \ {m} : rows[x] = sheet[p].rows[x]
  BY <1>1 DEF ConfigTypeOK, WellFormed
<1>3. PricingSave(p, rows)
  BY <1>1
<1>4. PICK c : c = [sheet[p] EXCEPT !.rows = rows]
  OBVIOUS
<1>5. WellFormed(c) /\ c.rows = rows
  BY <1>4, RowsForm DEF ConfigTypeOK
<1>6. file' = NormalizeConfig(c) /\ sheet[p].kind # "none" /\ sheet' = [sheet EXCEPT ![p] = Unloaded]
  BY <1>3, <1>4 DEF PricingSave, WriteFile
<1>7. ASSUME NEW x \in Models, told'[x] # "nothing said"
      PROVE  Loaded(file').rows[x] = told'[x]
  <2>1. rows[x] = told'[x]
    BY <1>2, <1>6, <1>7 DEF PriceInv, SheetPrices
  <2>2. told'[x] # "absent"
    BY <1>7 DEF Said
  <2> QED BY <1>5, <1>6, <2>1, <2>2, WrittenIsRead
<1>8. SheetPrices'
  <2>1. \A q \in Pricers : sheet'[q].kind = "none"
    BY <1>6, DefaultForm DEF OnePricer, ConfigTypeOK
  <2> QED BY <2>1 DEF SheetPrices
<1> QED BY <1>7, <1>8 DEF PriceInv, FilePrices

(* The calls of the one pricing page.                                        *)
LEMMA PricingPriceStep ==
    ASSUME ConfigTypeOK, PriceInv, OnePricer, NEW p \in Pricers, PricingCall(p)
    PROVE  PriceInv'
<1>1. CASE PricingLoad(p)
  <2>1. FilePrices' /\ told' = told /\ sheet' = [sheet EXCEPT ![p] = Loaded(file)]
    BY <1>1, LoadKeepsPrices DEF PricingLoad
  <2>2. SheetPrices'
    BY <2>1 DEF SheetPrices, PriceInv, FilePrices, ConfigTypeOK
  <2> QED BY <2>1, <2>2 DEF PriceInv
<1>2. ASSUME NEW m \in Models, UpdateModelPricing(p, m)
      PROVE  PriceInv'
  <2> DEFINE r == UpdatedRow(sheet[p].rows[m])
  <2>1. r \in Row /\ r \in Said
    BY UpdatedRowForm DEF Row, Said
  <2>2. PricingSave(p, [sheet[p].rows EXCEPT ![m] = r]) /\ sheet[p].kind # "none"
    BY <1>2 DEF UpdateModelPricing, PricingSave
  <2>3. (IF told[m] = "nothing said" THEN UpdatedRow(sheet[p].rows[m]) ELSE UpdatedRow(told[m])) = r
    BY <2>2 DEF PriceInv, SheetPrices
  <2>4. told' = [told EXCEPT ![m] = r]
    BY <1>2, <2>3 DEF UpdateModelPricing
  <2> HIDE DEF r
  <2>5. told' \in [Models -> Said] /\ told'[m] = r /\ \A x \in Models \ {m} : told'[x] = told[x]
    BY <2>1, <2>4 DEF ConfigTypeOK
  <2> QED BY <2>1, <2>2, <2>5, SaveKeepsPrices
<1>3. ASSUME NEW m \in Models, DeleteModelPricing(p, m)
      PROVE  PriceInv'
  <2>1. DeletedRow(m) \in Row /\ PricingSave(p, [sheet[p].rows EXCEPT ![m] = DeletedRow(m)])
    BY <1>3, DeletedRowForm DEF DeleteModelPricing, Row
  <2>2. /\ told' \in [Models -> Said] /\ \A x \in Models \ {m} : told'[x] = told[x]
        /\ told'[m] # "nothing said" => told'[m] = DeletedRow(m)
    BY <1>3 DEF DeleteModelPricing, ConfigTypeOK, Said, DeletedRow
  <2> QED BY <2>1, <2>2, SaveKeepsPrices
<1>4. ASSUME NEW m \in Models, RestoreDefaultPricing(p, m)
      PROVE  PriceInv'
  <2>1. "seed" \in Row /\ PricingSave(p, [sheet[p].rows EXCEPT ![m] = "seed"])
    BY <1>4 DEF RestoreDefaultPricing, Row
  <2>2. /\ told' \in [Models -> Said] /\ \A x \in Models \ {m} : told'[x] = told[x]
        /\ told'[m] = "seed"
    BY <1>4 DEF RestoreDefaultPricing, ConfigTypeOK, Said
  <2> QED BY <2>1, <2>2, SaveKeepsPrices
<1> QED BY <1>1, <1>2, <1>3, <1>4 DEF PricingCall

(* An edit keeps the rows, a removal makes the user start anew.              *)
LEMMA EditPriceStep ==
    ASSUME ConfigTypeOK, PriceInv, ExternalEdit
    PROVE  PriceInv'
<1>1. CASE told' = [m \in Models |-> "nothing said"]
  BY <1>1 DEF PriceInv, FilePrices, SheetPrices
<1>2. ASSUME NEW f \in Edits, WriteFile(f, InUpdate), told' = told
      PROVE  PriceInv'
  <2>1. WellFormed(f) /\ f.rows = file.rows /\ file' = f
    BY <1>2, EditForm DEF ConfigTypeOK, WriteFile
  <2>2. f.kind # "none"
    BY EditForm DEF ConfigTypeOK
  <2>3. ASSUME NEW m \in Models, told[m] # "nothing said"
        PROVE  Loaded(f).rows[m] = told[m]
    <3>1. file.kind # "none" /\ Loaded(file).rows[m] = told[m]
      BY <2>3, SaidIsThere
    <3>2. Loaded(file) = NormalizeConfig(file) /\ Loaded(f) = NormalizeConfig(f)
      BY <2>2, <3>1 DEF Loaded
    <3> QED BY <2>1, <3>1, <3>2, NormalizedForm DEF ConfigTypeOK
  <2>4. sheet' = sheet
    BY DEF ExternalEdit
  <2> QED BY <1>2, <2>1, <2>3, <2>4 DEF PriceInv, FilePrices, SheetPrices
<1> QED BY <1>1, <1>2 DEF ExternalEdit

(* Every step keeps the prices as told.                                      *)
LEMMA PriceInvStep == OnePricer /\ ConfigTypeOK /\ PriceInv /\ [ConfigNext]_configVars => PriceInv'
<1> SUFFICES ASSUME OnePricer, ConfigTypeOK, PriceInv, [ConfigNext]_configVars PROVE PriceInv'
  OBVIOUS
<1>1. CASE UNCHANGED <<file, sheet, told>>
  BY <1>1 DEF PriceInv, FilePrices, SheetPrices
<1>2. CASE ReloadLoads /\ Loadable(file)
  <2>1. FilePrices' /\ UNCHANGED <<sheet, told>>
    BY <1>2, LoadKeepsPrices DEF ReloadLoads
  <2> QED BY <2>1 DEF PriceInv, SheetPrices
<1>3. CASE ReloadLoads /\ ~Loadable(file)
  BY <1>1, <1>3 DEF ReloadLoads
<1>4. CASE SaveUserConfig
  <2>1. PICK patch \in Payloads : StoreUpdate("form", mergeUserPatchInto(Baseline, patch))
    BY <1>4 DEF SaveUserConfig
  <2>2. /\ WellFormed(mergeUserPatchInto(Baseline, patch))
        /\ mergeUserPatchInto(Baseline, patch).rows = Baseline.rows
    BY PayloadForm, BaselineForm, MergedForm DEF ConfigTypeOK
  <2> QED BY <1>4, <2>1, <2>2, StoreKeepsPrices DEF SaveUserConfig
<1>5. ASSUME NEW ref \in Refs, SaveLastAgentModelHash(ref)
      PROVE  PriceInv'
  <2>1. PICK h : h = Head(SelectChannelsForModel(current, ref))
    OBVIOUS
  <2>2. StoreUpdate("turn", [Baseline EXCEPT !.hash = h]) /\ UNCHANGED <<sheet, told>>
    BY <1>5, <2>1 DEF SaveLastAgentModelHash
  <2>3. WellFormed([Baseline EXCEPT !.hash = h]) /\ [Baseline EXCEPT !.hash = h].rows = Baseline.rows
    BY BaselineForm, HashForm
  <2> QED BY <2>2, <2>3, StoreKeepsPrices
<1>6. CASE reloadIfChanged \/ ReloadPublishes \/ FillForm \/ RejectUserConfig
  BY <1>1, <1>6 DEF reloadIfChanged, ReloadPublishes, FillForm, RejectUserConfig
<1>7. ASSUME NEW w \in Callers, setCurrent(w) \/ TakeSnapshot(w)
      PROVE  PriceInv'
  BY <1>1, <1>7 DEF setCurrent, TakeSnapshot
<1> QED
  BY <1>1, <1>2, <1>3, <1>4, <1>5, <1>6, <1>7, PricingPriceStep, EditPriceStep DEF ConfigNext, configVars

(* With one pricing page, whose calls come one after another, what the user   *)
(* says of a price is what a usage of the model costs, whoever else writes    *)
(* the file between a pricing call's load and its save.                      *)
THEOREM PricesStayAsTold ==
    ASSUME OnePricer, OwnRowFirst PROVE ConfigSpec => []PricesAsTold
<1>1. ConfigTypeOK /\ PriceInv => PricesAsTold
  <2> SUFFICES ASSUME ConfigTypeOK, PriceInv, NEW u \in Usages,
                      ModelOf(u) \in Models, told[ModelOf(u)] # "nothing said"
               PROVE  findPrice(Loaded(file).rows, u) =
                        (IF told[ModelOf(u)] = "deleted" THEN "nothing" ELSE told[ModelOf(u)])
    BY DEF PricesAsTold
  <2> DEFINE rows == Loaded(file).rows
             m    == ModelOf(u)
  <2>1. rows[m] = told[m] /\ told[m] # "absent"
    BY SaidIsThere
  <2>2. rows \in [Models -> Row]
    BY LoadedForm DEF ConfigTypeOK, WellFormed
  <2>3. MatchModelPricing(rows, u) # <<>> /\ Head(MatchModelPricing(rows, u)) = m
    BY <2>1, <2>2 DEF OwnRowFirst
  <2> HIDE DEF rows, m
  <2>4. findPrice(rows, u) = IF told[m] = "deleted" THEN "nothing" ELSE told[m]
    BY <2>1, <2>3 DEF findPrice
  <2> QED BY <2>4 DEF rows, m
<1>2. PriceInv /\ ConfigTypeOK /\ [ConfigNext]_configVars => PriceInv'
  BY PriceInvStep
<1> QED BY <1>1, <1>2, ConfigTypeOKInit, ConfigTypeOKStep, PriceInvInit, PTL DEF ConfigSpec
================================================================================
