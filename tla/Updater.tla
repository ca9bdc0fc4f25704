------------------------------- MODULE Updater -------------------------------
(***************************************************************************)
(* The updater of the desktop program.  At its start, every 20 minutes and *)
(* on demand it asks for the manifest of the latest release, downloads the *)
(* archive of a newer one and offers it; to install it, it spawns a script *)
(* that waits for the process to end, replaces the program and starts it.  *)
(* One check runs at a time: the state, which is set under m.mu, keeps the *)
(* others out.  What a signed manifest says the publisher has said, though *)
(* it may not be the last thing; the bytes of an archive may be anything.  *)
(* DesktopApp composes this with the life of the process.                  *)
(***************************************************************************)
EXTENDS Integers, Sequences, FiniteSets

CONSTANTS
    Releases,   \* the versions published so far, lowest first
    FirstInstalled, \* the one the user begins with
    Platforms   \* subset of {"darwin", "linux", "windows"}

VARIABLES
    alive,      \* the program runs
    platform,   \* where it is installed
    installed,  \* the version on disk, <<>> while there is none
    running,    \* the version compiled into the process, or into the last one
    update,     \* the manager: state, readyInfo and downloadedPath
    check,      \* the goroutine of checkNow
    archives,   \* the archives this process has made, and the installer's
    installer   \* the script

updaterVars == <<platform, installed, running, update, check, archives, installer>>

NoVersion == <<>>
NoArchive == [of |-> NoVersion, body |-> "none"]
NoCheck == [at |-> "none", of |-> NoVersion, file |-> NoArchive]
NoInstaller == [at |-> "none", file |-> NoArchive]
Resting(state) == [state |-> state, of |-> NoVersion, file |-> NoArchive, spawned |-> FALSE]

Init ==
    /\ platform \in Platforms
    /\ installed = FirstInstalled /\ running = FirstInstalled
    /\ update = Resting("idle") /\ check = NoCheck
    /\ archives = {} /\ installer = NoInstaller

-----------------------------------------------------------------------------
(* The order of versions *)

Version(major, minor, patch, prerelease) ==
    [numbers |-> <<major, minor, patch>>, prerelease |-> prerelease]

compareInts(a, b) == CASE a > b -> 1 [] a < b -> -1 [] OTHER -> 0

\* The first difference decides; without one, what is said otherwise.
FirstDifference(verdicts, otherwise) ==
    LET differ == {i \in DOMAIN verdicts : verdicts[i] # 0}
    IN  IF differ = {} THEN otherwise
        ELSE verdicts[CHOOSE i \in differ : \A j \in differ : i <= j]

Both(a, b) == {i \in DOMAIN a : i \in DOMAIN b}

\* An identifier is the sequence of its characters, of which 0..9 are digits.
IsNumber(identifier) == \A i \in DOMAIN identifier : identifier[i] \in 0..9
compareText(a, b) ==
    FirstDifference([i \in Both(a, b) |-> compareInts(a[i], b[i])], compareInts(Len(a), Len(b)))
compareNumbers(a, b) ==
    IF Len(a) # Len(b) THEN compareInts(Len(a), Len(b)) ELSE compareText(a, b)

\* Fault: as it was, everything in the order of the alphabet.
compareIdentifiersAsText(a, b) == compareText(a, b)

compareIdentifiers(a, b) ==
    CASE IsNumber(a) /\ IsNumber(b) -> compareNumbers(a, b)
      [] IsNumber(a) /\ ~IsNumber(b) -> -1
      [] ~IsNumber(a) /\ IsNumber(b) -> 1
      [] OTHER -> compareText(a, b)

comparePrerelease(a, b) ==
    FirstDifference([i \in Both(a, b) |-> compareIdentifiers(a[i], b[i])],
                    compareInts(Len(a), Len(b)))

compareVersions(a, b) ==
    CASE a.numbers # b.numbers -> compareText(a.numbers, b.numbers)
      [] a.numbers = b.numbers /\ a.prerelease = b.prerelease -> 0
      [] a.numbers = b.numbers /\ a.prerelease # b.prerelease /\ a.prerelease = <<>> -> 1
      [] a.numbers = b.numbers /\ a.prerelease # b.prerelease /\ b.prerelease = <<>> -> -1
      [] OTHER -> comparePrerelease(a.prerelease, b.prerelease)

-----------------------------------------------------------------------------
(* A check *)

program == <<platform, installed, running, installer>>

\* In every other state a check only repeats what the user was told.
CheckNow ==
    /\ alive /\ update.state \in {"idle", "error"}
    /\ update' = Resting("checking")
    /\ check' = [NoCheck EXCEPT !.at = "fetch"]
    /\ UNCHANGED <<program, archives>>

CheckFails == update' = Resting("error") /\ check' = NoCheck

\* The manifest cannot be had or read.
FetchFails ==
    /\ alive /\ check.at = "fetch"
    /\ CheckFails
    /\ UNCHANGED <<program, archives>>

Manifests ==
    [version : {Releases[i] : i \in DOMAIN Releases}, signed : BOOLEAN, hasAsset : BOOLEAN]

\* A release build has the publisher's key, so a manifest has to be signed with it.
verifyManifestSignature(manifest) == manifest.signed

\* The server may still show an earlier release, and one without an asset for this
\* platform.  Nothing of an unsigned manifest is looked at.
FetchUpdateInfo(manifest) ==
    /\ alive /\ check.at = "fetch"
    /\ \/ ~verifyManifestSignature(manifest) /\ CheckFails
       \/ /\ verifyManifestSignature(manifest)
          /\ compareVersions(manifest.version, running) <= 0
          /\ update' = Resting("idle") /\ check' = NoCheck
       \/ /\ verifyManifestSignature(manifest)
          /\ compareVersions(manifest.version, running) > 0
          /\ IF manifest.hasAsset
             THEN /\ update' = [Resting("downloading") EXCEPT !.of = manifest.version]
                  /\ check' = [NoCheck EXCEPT !.at = "download", !.of = manifest.version]
             ELSE CheckFails
    /\ UNCHANGED <<program, archives>>

\* The request fails or its length is too large; otherwise there is a file now.
OpenDownload ==
    /\ alive /\ check.at = "download"
    /\ \/ CheckFails /\ UNCHANGED archives
       \/ LET file == [of |-> check.of, body |-> "part"]
          IN  /\ archives' = archives \cup {file}
              /\ check' = [check EXCEPT !.at = "copy", !.file = file]
              /\ UNCHANGED update
    /\ UNCHANGED program

\* Fault: what was downloaded is left where it is.
keptWhileOpen(file) == archives

\* os.Remove of the file, which is still open: Windows refuses that.
discarded(file) ==
    IF platform = "windows" THEN archives ELSE archives \ {file}

\* What came may be the archive, less of it, as much of something else, or end
\* in an error (also by the 90 seconds for all of the check).
DownloadUpdate(body) ==
    /\ alive /\ check.at = "copy"
    /\ LET whole == [check.file EXCEPT !.body = body]
       IN  IF body = "whole"
           THEN /\ archives' = (archives \ {check.file}) \cup {whole}
                /\ update' = [Resting("ready") EXCEPT !.of = check.of, !.file = whole]
                /\ check' = NoCheck
           ELSE archives' = discarded(check.file) /\ CheckFails
    /\ UNCHANGED program

-----------------------------------------------------------------------------
(* The installation *)

InstallReadyUpdate ==
    /\ alive /\ update.state = "ready"
    /\ update' = [update EXCEPT !.state = "installing"]
    /\ UNCHANGED <<program, check, archives>>

\* The directory may not be writable, or the shell not be there.
SpawnFails ==
    /\ alive /\ update.state = "installing" /\ ~update.spawned
    /\ update' = [update EXCEPT !.state = "ready"]
    /\ UNCHANGED <<program, check, archives>>

SpawnInstaller ==
    /\ alive /\ update.state = "installing" /\ ~update.spawned
    /\ update' = [update EXCEPT !.spawned = TRUE]
    /\ installer' = [at |-> "wait", file |-> update.file]
    /\ UNCHANGED <<platform, installed, running, check, archives>>

process == <<platform, running, update, check>>

\* The trap of the script: it ends, and the archive goes with it.
InstallerEnds == installer' = NoInstaller /\ archives' = archives \ {installer.file}

\* The old process is gone: the archive is unpacked, or found to hold no program.
Unpack ==
    /\ ~alive /\ installer.at = "wait"
    /\ \/ installer' = [installer EXCEPT !.at = "replace"] /\ UNCHANGED archives
       \/ InstallerEnds
    /\ UNCHANGED <<process, installed>>

\* Linux moves the new file over the old one; macOS removes the old bundle before
\* it moves the new one there, Windows copies file by file.
TakeAway ==
    /\ ~alive /\ installer.at = "replace" /\ platform # "linux"
    /\ installed' = NoVersion
    /\ installer' = [installer EXCEPT !.at = "move"]
    /\ UNCHANGED <<process, archives>>

\* The new program is there and starts.
PutInPlace ==
    /\ ~alive
    /\ installer.at = IF platform = "linux" THEN "replace" ELSE "move"
    /\ installed' = installer.file.of /\ running' = installer.file.of
    /\ update' = Resting("idle") /\ check' = NoCheck
    /\ installer' = NoInstaller
    /\ archives' = {}
    /\ UNCHANGED platform

-----------------------------------------------------------------------------
(* The process *)

\* The program starts with the version on disk and knows nothing of the archives
\* that earlier processes have left.
Launched ==
    /\ running' = installed
    /\ update' = Resting("idle") /\ check' = NoCheck
    /\ archives' = {}
    /\ UNCHANGED <<platform, installed, installer>>

Gone ==
    /\ update' = Resting("idle") /\ check' = NoCheck
    /\ UNCHANGED <<platform, installed, running, archives, installer>>

-----------------------------------------------------------------------------
(* Properties *)

\* The publisher's order.
Rank(version) == CHOOSE i \in DOMAIN Releases : Releases[i] = version

\* What is offered or handed to the installer is there, and whole; and a running
\* program knows of every archive it has made.  On Windows the archive of a failed
\* download stays, since it is removed while it is open (manager.go:306, 322).
ArchivesInOrder ==
    LET offered == IF update.state \in {"ready", "installing"} THEN {update.file} ELSE {}
        handed == IF installer.at # "none" THEN {installer.file} ELSE {}
    IN  /\ \A file \in offered \cup handed : file \in archives /\ file.body = "whole"
        /\ alive /\ platform # "windows" => archives \subseteq {check.file} \cup offered \cup handed

\* When no installer is at work there is a program, whatever was in the archive
\* (manager.go:682, 715, 760).
AProgramIsLeft == installer.at = "none" => installed # NoVersion
=============================================================================
