--------------------------- MODULE ClientLifecycle ---------------------------
(***************************************************************************)
(* Start, stop and quit of the desktop program, and what they do to the    *)
(* user's Cursor settings.  A start brings up the backend and the proxy    *)
(* and then writes the proxy's address into settings.json, after a backup  *)
(* of the values it replaces; a stop, a quit or the start after a crash    *)
(* puts them back.  Start and stop are serialised by lifecycleMu, a quit   *)
(* only tries that lock and goes on without it.  The program may crash     *)
(* between any two writes.                                                 *)
(*                                                                         *)
(* Of the injected keys two classes matter: "proxy" (http.proxy and its    *)
(* like, which a user may set too) and "exclusive" (disableHttp2,          *)
(* systemCertificatesV2, by which the program recognises its own work).    *)
(* The certificate and the rest of the file are left out.  One function of *)
(* settings.go reads and writes the file in one step: that Cursor saves it *)
(* in between is not modelled.                                             *)
(***************************************************************************)
EXTENDS Integers, FiniteSets

CONSTANTS
    UserKeys,   \* the keys the user sets a value for
    MaxEdits,   \* bound on the user's edits
    MaxLaunches,\* bound on the launches of the program
    Quirks      \* what may go wrong beyond the ordinary

Keys == {"proxy", "exclusive"}
ASSUME KeysAssumption == UserKeys \subseteq Keys
ASSUME BoundsAssumption == MaxEdits \in Nat /\ MaxLaunches \in Nat \ {0}
ASSUME QuirksAssumption == Quirks \subseteq {"edit_over_backup", "torn_backup"}

VARIABLES
    settings,   \* settings.json: kind of file, and per key its value
    backup,     \* the backup file: kind, and per key the value it replaced
    mine,       \* history: per key, the value the user wants
    found,      \* history: per key, the value that was replaced
    edits,      \* number of the user's edits so far
    launches,   \* number of launches so far
    alive,      \* the program runs
    backend,    \* the embedded backend serves
    proxy,      \* the MITM proxy serves
    stage,      \* the lifecycle stage
    failed,     \* lastError is set
    job,        \* the holder of lifecycleMu: a start or a stop under way
    quit        \* the quit under way

vars == <<settings, backup, mine, found, edits, launches, alive, backend, proxy, stage, failed, job, quit>>

Absent   == 0
Injected == MaxEdits + 1
Values   == 0 .. Injected

NoKeys   == [k \in Keys |-> Absent]
Missing  == [kind |-> "missing", keys |-> NoKeys]
NoBackup == [kind |-> "none", keys |-> NoKeys]
Idle     == [op |-> "none", at |-> "none", proxyWas |-> FALSE, backendWas |-> FALSE]
NoQuit   == [at |-> "none", locked |-> FALSE, again |-> FALSE, cleared |-> FALSE]

Init ==
    /\ settings = Missing /\ backup = NoBackup /\ mine = NoKeys /\ found = NoKeys
    /\ edits = 0 /\ launches = 0
    /\ alive = FALSE /\ backend = FALSE /\ proxy = FALSE
    /\ stage = "idle" /\ failed = FALSE
    /\ job = Idle /\ quit = NoQuit

HasInjected == \E k \in Keys : settings.keys[k] = Injected

-----------------------------------------------------------------------------
(* The functions of settings.go *)

Readable == settings.kind = "ok"

\* readCursorSettingsBackup: a backup cut short is ignored.
HasBackup == backup.kind = "ok"

\* Slip: a backup is only an optimisation.
deletedKeys == NoKeys

restoreCursorSettingsKeys == backup.keys

\* What takes the place of the injected values.
restoredKeys == IF HasBackup THEN restoreCursorSettingsKeys ELSE NoKeys

settingsHasInjectedKeys == settings.keys["exclusive"] # Absent

\* TryCreateExclusive: a backup that is there stays.
writeCursorSettingsBackup ==
    IF backup.kind = "none" THEN [kind |-> "ok", keys |-> settings.keys] ELSE backup

Written(keys) == settings' = [kind |-> "ok", keys |-> keys]

-----------------------------------------------------------------------------
(* A start, step by step *)

At(op, at) == alive /\ job.op = op /\ job.at = at

Goto(at) == job' = [job EXCEPT !.at = at]

files  == <<settings, backup>>
user   == <<mine, edits, launches, alive, found>>
server == <<backend, proxy>>

StartProxy ==
    /\ alive /\ job = Idle /\ ~quit.locked
    /\ job' = [op |-> "start", at |-> "backend", proxyWas |-> proxy, backendWas |-> backend]
    /\ stage' = "starting"
    /\ UNCHANGED <<files, user, server, failed, quit>>

\* backendHost.Start, waitForBackend and ensureProxy.  Each of them, and the
\* loading of the configuration before them, may fail.
StartBackend ==
    /\ At("start", "backend")
    /\ \/ backend' = TRUE /\ Goto("proxy")
       \/ backend' \in {backend, TRUE} /\ Goto("rollback")
    /\ UNCHANGED <<files, user, proxy, stage, failed, quit>>

StartMITM ==
    /\ At("start", "proxy")
    /\ \/ proxy' = TRUE /\ Goto("restore")
       \/ ~proxy /\ Goto("rollback") /\ UNCHANGED proxy
    /\ UNCHANGED <<files, user, backend, stage, failed, quit>>

\* RestoreCursorSettingsFromCrash, up to the write.
RestoreFromCrash ==
    /\ At("start", "restore")
    /\ IF Readable /\ settingsHasInjectedKeys
       THEN \/ Written(restoredKeys) /\ Goto("drop_backup")
            \/ Goto("rollback") /\ UNCHANGED settings
       ELSE Goto("back_up") /\ UNCHANGED settings
    /\ UNCHANGED <<backup, user, server, stage, failed, quit>>

DropBackupAfterCrash ==
    /\ At("start", "drop_backup")
    /\ backup' = NoBackup
    /\ Goto("back_up")
    /\ UNCHANGED <<settings, user, server, stage, failed, quit>>

\* WriteUserProxySettings up to the backup.  A file that does not parse is set
\* aside and the start fails; so does a failing write of the settings after it.
BackUp ==
    /\ At("start", "back_up")
    /\ IF settings.kind = "corrupt"
       THEN /\ settings' = Missing /\ mine' = NoKeys
            /\ Goto("rollback")
            /\ UNCHANGED backup
       ELSE /\ backup' = writeCursorSettingsBackup
            /\ Goto("inject")
            /\ UNCHANGED <<settings, mine>>
    /\ UNCHANGED <<found, edits, launches, alive, server, stage, failed, quit>>

\* WriteUserProxySettings after the backup, and the end of the start.
Inject ==
    /\ At("start", "inject")
    /\ \/ /\ Written([k \in Keys |-> Injected])
          /\ found' = IF HasInjected THEN found ELSE settings.keys
          /\ stage' = "running" /\ failed' = FALSE
          /\ job' = Idle
       \/ Goto("rollback") /\ UNCHANGED <<settings, found, stage, failed>>
    /\ UNCHANGED <<backup, mine, edits, launches, alive, server, quit>>

\* Only what this start brought up is stopped.
keptOnRollback(was) == was

Rollback ==
    /\ At("start", "rollback")
    /\ proxy' = (proxy /\ keptOnRollback(job.proxyWas))
    /\ backend' = (backend /\ keptOnRollback(job.backendWas))
    /\ stage' = "failed" /\ failed' = TRUE
    /\ job' = Idle
    /\ UNCHANGED <<files, user, quit>>

-----------------------------------------------------------------------------
(* A stop *)

\* Slip: the stage changes when the stop is complete.
stageUntilStopped == stage

stageWhileStopping == "stopping"

StopProxy ==
    /\ alive /\ job = Idle /\ ~quit.locked
    /\ job' = [Idle EXCEPT !.op = "stop", !.at = "proxy"]
    /\ stage' = stageWhileStopping
    /\ UNCHANGED <<files, user, server, failed, quit>>

\* fail: the stop ends where it is.
StopFails == job' = Idle /\ failed' = TRUE

\* Shutdown closes the listener even when it reports that requests were cut off.
StopMITM ==
    /\ At("stop", "proxy")
    /\ proxy' = FALSE
    /\ \/ Goto("clear") /\ UNCHANGED failed
       \/ proxy /\ StopFails
    /\ UNCHANGED <<files, user, backend, stage, quit>>

\* ClearUserProxySettings up to the write: without a backup the keys are deleted,
\* and without a file nothing is done.
ClearWrites == Readable /\ Written(restoredKeys)

ClearFinds(kinds) == settings.kind \in kinds /\ UNCHANGED settings

ClearSettings ==
    /\ At("stop", "clear")
    /\ \/ ClearWrites /\ Goto("drop_backup") /\ UNCHANGED failed
       \/ ClearFinds({"missing"}) /\ Goto("backend") /\ UNCHANGED failed
       \/ ClearFinds({"ok", "corrupt"}) /\ StopFails
    /\ UNCHANGED <<backup, user, server, stage, quit>>

DropBackup ==
    /\ At("stop", "drop_backup")
    /\ backup' = NoBackup
    /\ Goto("backend")
    /\ UNCHANGED <<settings, user, server, stage, failed, quit>>

StopBackend ==
    /\ At("stop", "backend")
    /\ backend' = FALSE
    /\ \/ job' = Idle /\ stage' = "idle" /\ failed' = FALSE
       \/ backend /\ StopFails /\ UNCHANGED stage
    /\ UNCHANGED <<files, user, proxy, quit>>

-----------------------------------------------------------------------------
(* A quit *)

\* Slip: the settings are cleared whoever holds the lock.
lockTakenAnyway == TRUE

\* TryLock.
lockHeld == job = Idle

\* ShutdownForQuit up to the proxy's stop.  From the tray it runs twice: the menu
\* item calls it, and then app.Quit does through OnShutdown.
ShutdownForQuit(fromTray) ==
    /\ alive /\ quit = NoQuit
    /\ quit' = [at |-> "clear", locked |-> lockHeld, again |-> fromTray, cleared |-> FALSE]
    /\ proxy' = FALSE
    /\ UNCHANGED <<files, user, backend, stage, failed, job>>

Quitting(at) == alive /\ quit.at = at

QuitGoto(at) == quit' = [quit EXCEPT !.at = at]

QuitClears ==
    /\ Quitting("clear")
    /\ \/ quit.locked /\ ClearWrites /\ QuitGoto("drop_backup")
       \/ quit.locked /\ ClearFinds({"missing"}) /\ quit' = [quit EXCEPT !.at = "backend", !.cleared = TRUE]
       \/ quit.locked /\ ClearFinds({"ok", "corrupt"}) /\ QuitGoto("backend")
       \/ ~quit.locked /\ QuitGoto("backend") /\ UNCHANGED settings
    /\ UNCHANGED <<backup, user, server, stage, failed, job>>

QuitDropsBackup ==
    /\ Quitting("drop_backup")
    /\ backup' = NoBackup
    /\ quit' = [quit EXCEPT !.at = "backend", !.cleared = TRUE]
    /\ UNCHANGED <<settings, user, server, stage, failed, job>>

QuitStopsBackend ==
    /\ Quitting("backend")
    /\ backend' = FALSE
    /\ QuitGoto("end")
    /\ UNCHANGED <<files, user, proxy, stage, failed, job>>

\* OnShutdown, after the menu item has released the lock.
QuitAgain ==
    /\ Quitting("end") /\ quit.again
    /\ proxy' = FALSE
    /\ quit' = [at |-> "clear", locked |-> lockHeld, again |-> FALSE, cleared |-> FALSE]
    /\ UNCHANGED <<files, user, backend, stage, failed, job>>

Gone ==
    /\ alive' = FALSE /\ backend' = FALSE /\ proxy' = FALSE
    /\ stage' = "idle" /\ failed' = FALSE
    /\ job' = Idle /\ quit' = NoQuit

Exit ==
    /\ Quitting("end") /\ ~quit.again
    /\ Gone
    /\ UNCHANGED <<files, mine, found, edits, launches>>

-----------------------------------------------------------------------------
(* The program and the user *)

Launch ==
    /\ ~alive /\ launches < MaxLaunches
    /\ alive' = TRUE
    /\ launches' = launches + 1
    /\ UNCHANGED <<files, mine, found, edits, server, stage, failed, job, quit>>

\* The backup is created and then written: a crash in between leaves it empty.
TornBackup ==
    IF "torn_backup" \in Quirks /\ At("start", "back_up") /\ backup.kind = "none"
    THEN {[NoBackup EXCEPT !.kind = "broken"]} ELSE {}

\* The end of the process, at any point of what it does.
Crash ==
    /\ alive
    /\ Gone
    /\ backup' \in {backup} \cup TornBackup
    /\ UNCHANGED <<settings, mine, found, edits, launches>>

Busy == job # Idle \/ quit # NoQuit

UserEdits ==
    /\ edits < MaxEdits /\ ~Busy
    /\ backup.kind = "none" \/ "edit_over_backup" \in Quirks
    /\ settings.kind # "corrupt"
    /\ edits' = edits + 1
    /\ \/ \E k \in UserKeys, v \in {Absent, edits + 1} :
             /\ settings' = [kind |-> "ok", keys |-> [settings.keys EXCEPT ![k] = v]]
             /\ mine' = [mine EXCEPT ![k] = v]
       \/ settings' = [settings EXCEPT !.kind = "corrupt"] /\ UNCHANGED mine
    /\ UNCHANGED <<backup, found, launches, alive, server, stage, failed, job, quit>>

\* Everything but the beginning and the end of the process.
Step ==
    \/ StartProxy \/ StartBackend \/ StartMITM \/ RestoreFromCrash \/ DropBackupAfterCrash
    \/ BackUp \/ Inject \/ Rollback
    \/ StopProxy \/ StopMITM \/ ClearSettings \/ DropBackup \/ StopBackend
    \/ \E fromTray \in BOOLEAN : ShutdownForQuit(fromTray)
    \/ QuitClears \/ QuitDropsBackup \/ QuitStopsBackend \/ QuitAgain
    \/ UserEdits

Next == Step \/ Exit \/ Launch \/ Crash

Spec == Init /\ [][Next]_vars

-----------------------------------------------------------------------------
(* Properties *)

\* Whenever the program takes its values out of the user's settings, by a stop, a
\* quit or the start after a crash, what it leaves is what it had found there,
\* however many crashes, failed writes and restarts lie between.
RestoreIsExact ==
    [][(HasInjected /\ settings'.kind = "ok" /\ \A k \in Keys : settings'.keys[k] # Injected)
       => settings'.keys = found]_vars

\* While the stage says that the service runs, Cursor is pointed at the proxy, and
\* the proxy and the backend behind it serve: a stop that fails half-way, or a
\* start that fails on a running service, does not leave that stage behind.
LiveProxyBehindSettings ==
    (stage = "running" /\ ~Busy) => (HasInjected /\ proxy /\ backend)

\* Neither a stop that reports success nor a quit that cleared the settings leaves
\* Cursor pointed at a proxy that is gone, also if a start was under way.
NothingLeftBehind ==
    [][\/ job.op = "stop" /\ job'.op = "none" /\ stage' = "idle" /\ alive'
       \/ quit.at = "end" /\ ~alive' /\ quit.cleared
       => ~HasInjected' /\ ~proxy']_vars

\* The user's own values are not lost: each is in the settings or in the backup.
OriginalsKept ==
    \A k \in Keys : settings.keys[k] = mine[k] \/ (HasBackup /\ backup.keys[k] = mine[k])

=============================================================================
