----------------------------- MODULE DesktopApp -----------------------------
(***************************************************************************)
(* The desktop program: the life of its process with what it does to       *)
(* Cursor's settings (ClientLifecycle), and its updater (Updater).  An     *)
(* update ends the process the way a quit does and starts the next one; a  *)
(* quit, by whomever, ends a check under way.  That the user starts the    *)
(* program while the installer is at work is left out.                     *)
(***************************************************************************)
EXTENDS ClientLifecycle, Sequences

CONSTANTS Releases, FirstInstalled, Platforms

ASSUME PlatformsAssumption == Platforms \subseteq {"darwin", "linux", "windows"}
ASSUME ReleasesAssumption == \E i \in DOMAIN Releases : Releases[i] = FirstInstalled

VARIABLES platform, installed, running, update, check, archives, installer

U == INSTANCE Updater

updater == <<platform, installed, running, update, check, archives, installer>>

DesktopInit == Init /\ U!Init

\* OnShutdown cancels the manager's context; a quit from the tray comes to it
\* after a first ShutdownForQuit.
Cancelled == quit # NoQuit /\ ~quit.again

Checks ==
    /\ ~Cancelled
    /\ \/ U!CheckNow
       \/ \E manifest \in U!Manifests : U!FetchUpdateInfo(manifest)
       \/ U!DownloadUpdate("whole")
    /\ UNCHANGED vars

CheckEnds ==
    /\ U!FetchFails \/ U!OpenDownload \/ \E body \in {"cut", "changed", "error"} : U!DownloadUpdate(body)
    /\ UNCHANGED vars

Installs ==
    /\ U!InstallReadyUpdate \/ U!SpawnFails \/ U!SpawnInstaller \/ U!Unpack \/ U!TakeAway
    /\ UNCHANGED vars

\* Among them is ShutdownForQuit(FALSE), to which the app.Quit behind a spawned
\* installer comes, as the end of the desktop session does.
Lives == Step /\ UNCHANGED updater

\* The installer starts the program it has put in place.
Relaunch == U!PutInPlace /\ Launch

UserLaunches == installer.at = "none" /\ installed # U!NoVersion /\ Launch /\ U!Launched

Ends == (Exit \/ Crash) /\ U!Gone

DesktopNext ==
    \/ Lives \/ Checks \/ CheckEnds \/ Installs \/ Relaunch \/ UserLaunches \/ Ends

DesktopSpec == DesktopInit /\ [][DesktopNext]_<<vars, updater>>

-----------------------------------------------------------------------------
(* Properties *)

\* Every installation leads to a later release than the one that ran before it,
\* in the publisher's order, also among prereleases and whatever old manifests
\* are served, and however the processes in between have ended (manager.go:148,
\* semver.go:46).
InstalledOnlyRises ==
    [][installed' \notin {installed, U!NoVersion}
       => U!Rank(installed') > U!Rank(running)]_updater

\* No update, failed or not, loses an archive it needs, keeps one it does not need,
\* or leaves the user without a program.
UpdateLeavesNoMess == U!ArchivesInOrder /\ U!AProgramIsLeft
=============================================================================
