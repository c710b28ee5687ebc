------------------------------ MODULE Updater ------------------------------
(***************************************************************************)
(* The self-update of the application: the crate velowork-updater and the  *)
(* handlers of CheckForUpdates and InstallUpdate (views/window/render.rs). *)
(*                                                                         *)
(* Two tasks look for a release and download it, the background loop and   *)
(* the manual check; installations run beside them.  They share one status *)
(* (UpdateInfo), the updates directory and the executable.  A step is what *)
(* one of them does between two awaits or two file operations.             *)
(*                                                                         *)
(* There is one newer release with one asset; the texts, versions and      *)
(* percentages that a status carries are left out, as is UpdateInfo.cancel, *)
(* which the application never calls.                                      *)
(***************************************************************************)
EXTENDS Naturals

CONSTANTS Install,   \* bound: the installations that can run at one time
          MaxFaults  \* bound: file operations of installations that fail

ASSUME BoundAssumption == MaxFaults \in Nat

VARIABLES
    status,    \* UpdateInfoInner.status
    manual,    \* UpdateInfoInner.manual_check_active
    homebrew,  \* UpdateInfoInner.is_homebrew
    auto,      \* UpdateInfo.auto_check_enabled
    at,        \* where the two tasks are
    tries,     \* the attempt at downloading of the background loop
    archive,   \* the asset's file in the updates directory
    open,      \* the tasks that have that very file open for writing
    extracted, \* the directory "extracted" beside it has the new binary
    inst,      \* where each installation is
    target,    \* what current_exe returned to it
    bin, bak,  \* the executable's path, and the same with .old
    image,     \* the path that the running executable has by now
    loaded,    \* the path that it was started from
    runs,      \* what is running
    release,   \* what the release contains
    disturbed, \* the user began a check or restarted during an installation
    faults

infoVars == <<status, manual, homebrew, auto>>
taskVars == <<at, tries>>
dirVars == <<archive, open, extracted>>
exeVars == <<bin, bak, image>>
instVars == <<inst, target, exeVars, loaded, runs, faults>>
vars == <<infoVars, taskVars, dirVars, instVars, release, disturbed>>

Task == {"bg", "manual"}
Status == {"idle", "checking", "downloading", "ready", "installing",
           "readyToRestart", "brew", "failed"}
Downloading == {"clean", "create", "write", "verify"}
At == {"none", "sleep", "paused", "check", "retry", "failed", "stopped"} \cup Downloading
InstallAt == {"none", "extract", "rename", "copy", "validate", "ok", "err"}
Path == {"bin", "bak", "gone"}
Binary == {"none", "old", "new", "broken"}
MaxTries == 3

TypeOK ==
    /\ status \in Status
    /\ manual \in BOOLEAN /\ homebrew \in BOOLEAN /\ auto \in BOOLEAN
    /\ at \in [Task -> At]
    /\ tries \in 1 .. MaxTries
    /\ archive \in {"none", "partial", "whole"}
    /\ open \subseteq Task
    /\ extracted \in BOOLEAN
    /\ inst \in [Install -> InstallAt]
    /\ target \in [Install -> Path]
    /\ bin \in Binary /\ bak \in Binary
    /\ image \in Path /\ loaded \in Path
    /\ runs \in {"old", "new"}
    /\ release \in {"new", "broken"}
    /\ disturbed \in BOOLEAN
    /\ faults \in Nat

\* UpdateInfo::new and start_update_checker, in a process of the old version.
Init ==
    /\ status = "idle" /\ manual = FALSE
    /\ homebrew \in BOOLEAN /\ auto \in BOOLEAN
    /\ at = [o \in Task |-> IF o = "bg" THEN "sleep" ELSE "none"]
    /\ tries = 1
    /\ archive = "none" /\ open = {} /\ extracted = FALSE
    /\ inst = [i \in Install |-> "none"]
    /\ target = [i \in Install |-> "bin"]
    /\ bin = "old" /\ bak = "none" /\ image = "bin" /\ loaded = "bin"
    /\ runs = "old"
    /\ release \in {"new", "broken"}
    /\ disturbed = FALSE
    /\ faults = 0

Go(o, l) == at' = [at EXCEPT ![o] = l]

\* The mutated form forgets finish_manual.
EndKeepingFlag(o, s, l) ==
    /\ status' = s
    /\ Go(o, IF o = "manual" THEN "none" ELSE l)
    /\ UNCHANGED manual

\* The end of run_manual_check, which always calls finish_manual, and of a
\* round of the background loop, which goes on at l.
End(o, s, l) ==
    /\ status' = s
    /\ Go(o, IF o = "manual" THEN "none" ELSE l)
    /\ manual' = (o # "manual" /\ manual)

-----------------------------------------------------------------------------
(* The user.                                                               *)

\* set_auto_check_enabled.
Toggle ==
    /\ auto' = ~auto
    /\ UNCHANGED <<status, manual, homebrew, taskVars, dirVars, instVars, release, disturbed>>

Installing == \E i \in Install : inst[i] # "none"

Refused == manual \/ status \in {"checking", "downloading"}

\* CheckForUpdates, with try_start_manual.  The mutated form only looks for
\* another manual check.
StartManualBesideLoop ==
    /\ ~manual
    /\ manual' = TRUE
    /\ status' = "checking"
    /\ Go("manual", "check")
    /\ disturbed' = (disturbed \/ Installing)
    /\ UNCHANGED <<homebrew, auto, tries, dirVars, instVars, release>>

StartManual ==
    /\ ~Refused
    /\ manual' = TRUE
    /\ status' = "checking"
    /\ Go("manual", "check")
    /\ disturbed' = (disturbed \/ Installing)
    /\ UNCHANGED <<homebrew, auto, tries, dirVars, instVars, release>>

-----------------------------------------------------------------------------
(* The background loop, start_update_checker.                              *)

Found == {"ready", "readyToRestart", "installing", "brew"}

Look ==
    IF status \in Found THEN Go("bg", "stopped") /\ UNCHANGED status
                        ELSE Go("bg", "check") /\ status' = "checking"

\* The top of the loop, after one of its long waits; while auto is off the
\* loop only waits again.  The mutated form does not pause.
WakeBesideManual ==
    /\ at["bg"] = "sleep"
    /\ auto
    /\ Look
    /\ UNCHANGED <<manual, homebrew, auto, tries, dirVars, instVars, release, disturbed>>

Wake ==
    /\ at["bg"] = "sleep"
    /\ auto
    /\ IF manual THEN Go("bg", "paused") /\ UNCHANGED status ELSE Look
    /\ UNCHANGED <<manual, homebrew, auto, tries, dirVars, instVars, release, disturbed>>

Resume ==
    /\ at["bg"] = "paused"
    /\ ~manual
    /\ Look
    /\ UNCHANGED <<manual, homebrew, auto, tries, dirVars, instVars, release, disturbed>>

\* 30 or 60 seconds after an attempt failed, the next one.
Retry ==
    /\ at["bg"] = "retry"
    /\ Go("bg", "clean")
    /\ status' = "downloading"
    /\ UNCHANGED <<manual, homebrew, auto, tries, dirVars, instVars, release, disturbed>>

\* A failure was shown for 60 seconds.
ClearFailure ==
    /\ at["bg"] = "failed"
    /\ Go("bg", "sleep")
    /\ status' = IF status = "failed" THEN "idle" ELSE status
    /\ UNCHANGED <<manual, homebrew, auto, tries, dirVars, instVars, release, disturbed>>

-----------------------------------------------------------------------------
(* check_for_update, for both tasks.                                       *)

CheckFinds(o) ==
    /\ at[o] = "check"
    /\ runs = "old"
    /\ IF homebrew THEN End(o, "brew", "stopped")
       ELSE IF o = "bg" /\ ~auto THEN Go(o, "stopped") /\ UNCHANGED <<status, manual>>
       ELSE Go(o, "clean") /\ status' = "downloading" /\ UNCHANGED manual
    /\ tries' = IF o = "bg" THEN 1 ELSE tries
    /\ UNCHANGED <<homebrew, auto, dirVars, instVars, release, disturbed>>

CheckFindsNothing(o) ==
    /\ at[o] = "check"
    /\ End(o, "idle", "sleep")
    /\ UNCHANGED <<homebrew, auto, tries, dirVars, instVars, release, disturbed>>

CheckFails(o) ==
    /\ at[o] = "check"
    /\ End(o, "failed", "failed")
    /\ UNCHANGED <<homebrew, auto, tries, dirVars, instVars, release, disturbed>>

-----------------------------------------------------------------------------
(* download_asset, in a thread of its own.                                 *)

\* cleanup_updates_dir empties the directory, whoever uses what is in it.
Clean(o) ==
    /\ at[o] = "clean"
    /\ archive' = "none" /\ open' = {} /\ extracted' = FALSE
    /\ Go(o, "create")
    /\ UNCHANGED <<infoVars, tries, instVars, release, disturbed>>

\* The server answered: the file is created, or truncated if there is one.
Create(o) ==
    /\ at[o] = "create"
    /\ archive' = "partial"
    /\ open' = open \cup {o}
    /\ status' = "downloading"
    /\ Go(o, "write")
    /\ UNCHANGED <<manual, homebrew, auto, tries, extracted, instVars, release, disturbed>>

Progress(o) ==
    /\ at[o] = "write"
    /\ status' = "downloading"
    /\ UNCHANGED <<manual, homebrew, auto, taskVars, dirVars, instVars, release, disturbed>>

\* Two tasks that write one file write the same bytes; it is whole once both
\* are done.
Written(o) ==
    /\ at[o] = "write"
    /\ archive' = IF open = {o} THEN "whole" ELSE archive
    /\ open' = open \ {o}
    /\ Go(o, "verify")
    /\ UNCHANGED <<infoVars, tries, extracted, instVars, release, disturbed>>

\* The checksum matches, or the release has none.
Downloaded(o) ==
    /\ at[o] = "verify"
    /\ End(o, "ready", "stopped")
    /\ UNCHANGED <<homebrew, auto, tries, dirVars, instVars, release, disturbed>>

GiveUp(o) ==
    IF o = "bg" /\ tries < MaxTries
    THEN Go(o, "retry") /\ tries' = tries + 1 /\ UNCHANGED <<status, manual>>
    ELSE End(o, "failed", "failed") /\ UNCHANGED tries

\* What was written so far stays or, if it is known to be wrong, is removed.
DownloadFails(o) ==
    /\ at[o] \in Downloading
    /\ \/ UNCHANGED archive /\ open' = open \ {o}
       \/ at[o] \in {"write", "verify"} /\ archive' = "none" /\ open' = {}
    /\ GiveUp(o)
    /\ UNCHANGED <<homebrew, auto, extracted, instVars, release, disturbed>>

-----------------------------------------------------------------------------
(* InstallUpdate, run_install and install_update.                          *)

InstGo(i, l) == inst' = [inst EXCEPT ![i] = l]

\* External: std::env::current_exe gives the path that the executable was
\* loaded from or, on Linux, the one that it has by now.
CurrentExe == {loaded, image}

StartInstall(i) ==
    /\ status = "ready"
    /\ inst[i] = "none"
    /\ status' = "installing"
    /\ InstGo(i, "extract")
    /\ \E p \in CurrentExe : target' = [target EXCEPT ![i] = p]
    /\ UNCHANGED <<manual, homebrew, auto, taskVars, dirVars, exeVars, loaded,
                   runs, faults, release, disturbed>>

Fault == faults < MaxFaults /\ faults' = faults + 1

\* The archive is unpacked if it is there and whole.
Extract(i) ==
    /\ inst[i] = "extract"
    /\ \/ /\ archive = "whole"
          /\ extracted' = TRUE
          /\ InstGo(i, "rename")
          /\ UNCHANGED faults
       \/ /\ extracted' = FALSE
          /\ InstGo(i, "err")
          /\ IF archive = "whole" THEN Fault ELSE UNCHANGED faults
    /\ UNCHANGED <<infoVars, taskVars, archive, open, target, exeVars, loaded,
                   runs, release, disturbed>>

\* find_binary and the first half of replace_binary: the .old file is removed,
\* and the target becomes the .old file.
Rename(i) ==
    /\ inst[i] = "rename"
    /\ IF ~extracted
       THEN InstGo(i, "err") /\ UNCHANGED <<exeVars, faults>>
       ELSE \/ /\ target[i] = "bin" /\ bin # "none"
               /\ bin' = "none" /\ bak' = bin
               /\ image' = CASE image = "bin" -> "bak" [] image = "bak" -> "gone"
                              [] OTHER -> image
               /\ InstGo(i, "copy")
               /\ UNCHANGED faults
            \/ /\ \/ bak' = "none" /\ image' = IF image = "bak" THEN "gone" ELSE image
                  \/ target[i] = "gone" /\ UNCHANGED <<bak, image>>
               /\ InstGo(i, "err")
               /\ IF target[i] = "bin" /\ bin # "none" THEN Fault ELSE UNCHANGED faults
               /\ UNCHANGED bin
    /\ UNCHANGED <<infoVars, taskVars, dirVars, target, loaded, runs, release, disturbed>>

\* The .old file becomes the executable again, after n faults.  What is at the
\* path is removed first, and nobody looks at the error of the rename.
RollBack(n) ==
    \/ /\ faults + n <= MaxFaults
       /\ faults' = faults + n
       /\ bin' = bak /\ bak' = "none"
       /\ image' = IF image = "bak" THEN "bin" ELSE "gone"
    \/ /\ faults + n < MaxFaults
       /\ faults' = faults + n + 1
       /\ bin' = "none"
       /\ image' = IF image = "bin" THEN "gone" ELSE image
       /\ UNCHANGED bak

\* The second half of replace_binary: copy and set_permissions.
Copy(i) ==
    /\ inst[i] = "copy"
    /\ extracted
    /\ bin' = release
    /\ InstGo(i, "validate")
    /\ UNCHANGED <<infoVars, taskVars, dirVars, target, bak, image, loaded, runs,
                   faults, release, disturbed>>

\* The mutated form leaves the .old file where it is.
CopyFailsForGood(i) ==
    /\ inst[i] = "copy"
    /\ faults < MaxFaults
    /\ faults' = faults + 1
    /\ InstGo(i, "err")
    /\ UNCHANGED <<infoVars, taskVars, dirVars, target, exeVars, loaded, runs,
                   release, disturbed>>

CopyFails(i) ==
    /\ inst[i] = "copy"
    /\ RollBack(IF extracted THEN 1 ELSE 0)
    /\ InstGo(i, "err")
    /\ UNCHANGED <<infoVars, taskVars, dirVars, target, loaded, runs, release, disturbed>>

\* The mutated form only looks whether the binary can be started.
ValidateStartOnly(i) ==
    /\ inst[i] = "validate"
    /\ bin # "none"
    /\ archive' = "none" /\ open' = {} /\ extracted' = FALSE
    /\ InstGo(i, "ok")
    /\ UNCHANGED <<infoVars, taskVars, target, exeVars, loaded, runs, faults,
                   release, disturbed>>

\* validate_binary, and the removal of what is not needed any more.
Validate(i) ==
    /\ inst[i] = "validate"
    /\ bin \in {"old", "new"}
    /\ archive' = "none" /\ open' = {} /\ extracted' = FALSE
    /\ InstGo(i, "ok")
    /\ UNCHANGED <<infoVars, taskVars, target, exeVars, loaded, runs, faults,
                   release, disturbed>>

\* The binary exits with an error or hangs.
ValidationFails(i) ==
    /\ inst[i] = "validate"
    /\ bin # "none"
    /\ RollBack(IF bin = "broken" THEN 0 ELSE 1)
    /\ InstGo(i, "err")
    /\ UNCHANGED <<infoVars, taskVars, dirVars, target, loaded, runs, release, disturbed>>

\* spawn()? returns the error of a binary that cannot be started at all.
ValidationImpossible(i) ==
    /\ inst[i] = "validate"
    /\ IF bin \in {"broken", "none"} THEN UNCHANGED faults ELSE Fault
    /\ InstGo(i, "err")
    /\ UNCHANGED <<infoVars, taskVars, dirVars, target, exeVars, loaded, runs,
                   release, disturbed>>

\* run_install, when its thread has returned.
FinishInstall(i) ==
    /\ inst[i] \in {"ok", "err"}
    /\ status' = IF inst[i] = "ok" THEN "readyToRestart" ELSE "failed"
    /\ InstGo(i, "none")
    /\ UNCHANGED <<manual, homebrew, auto, taskVars, dirVars, target, exeVars,
                   loaded, runs, faults, release, disturbed>>

Content(p) == CASE p = "bin" -> bin [] p = "bak" -> bak [] OTHER -> "none"

\* restart_app, which the dialogs for the language and the appearance offer at
\* any time, or the user quits and starts the program again; then init in the
\* new process with cleanup_old_binary.  The threads of the old one are gone.
Restart ==
    /\ \E p \in CurrentExe \cup {"bin"} :
          /\ Content(p) \in {"old", "new"}
          /\ runs' = Content(p)
          /\ loaded' = p
          /\ image' = IF p = "bak" THEN "gone" ELSE p
    /\ bak' = "none"
    /\ status' = "idle" /\ manual' = FALSE
    /\ at' = [o \in Task |-> IF o = "bg" THEN "sleep" ELSE "none"]
    /\ tries' = 1
    /\ open' = {}
    /\ inst' = [i \in Install |-> "none"]
    /\ disturbed' = (disturbed \/ Installing)
    /\ UNCHANGED <<homebrew, auto, archive, extracted, target, bin, release, faults>>

-----------------------------------------------------------------------------
TaskStep(o) ==
    \/ CheckFinds(o) \/ CheckFindsNothing(o) \/ CheckFails(o)
    \/ Clean(o) \/ Create(o) \/ Written(o) \/ Downloaded(o) \/ DownloadFails(o)

LoopStep == Wake \/ Resume \/ Retry \/ ClearFailure

InstallStep(i) ==
    \/ Extract(i) \/ Rename(i) \/ Copy(i) \/ CopyFails(i)
    \/ Validate(i) \/ ValidationFails(i) \/ ValidationImpossible(i)
    \/ FinishInstall(i)

Next ==
    \/ Toggle \/ StartManual \/ Restart \/ LoopStep
    \/ \E o \in Task : TaskStep(o) \/ Progress(o)
    \/ \E i \in Install : StartInstall(i) \/ InstallStep(i)

Spec == Init /\ [][Next]_vars

\* Every call to the network has a time limit, and the tasks are polled.
Fairness == WF_vars(LoopStep) /\ \A o \in Task : WF_vars(TaskStep(o))

FairSpec == Spec /\ Fairness

-----------------------------------------------------------------------------
(* Safety.                                                                 *)

Looking(o) == at[o] \in {"check", "retry"} \cup Downloading

\* The background loop and the manual check never look for a release at the
\* same time, however their waits and the user's clicks fall, so that the two
\* never share the updates directory; a check begun, or a restart, during an
\* installation is the exception.
OneCheckAtATime == ~disturbed => ~(Looking("bg") /\ Looking("manual"))

\* "Ready" offers an archive that is there, whole and closed, and it stays so
\* until it is unpacked: no other download has emptied the directory.
ReadyIsOnDisk ==
    ~disturbed /\ (status = "ready" \/ \E i \in Install : inst[i] = "extract")
        => archive = "whole" /\ open = {}

\* "Downloading" refuses manual checks, and is shown only while a download is
\* under way that will replace it.
DownloadIsUnderWay ==
    status = "downloading" => \E o \in Task : at[o] \in {"retry"} \cup Downloading

\* Between the rename and the copy there is no executable; after that, one
\* failure of an installation never leaves the path empty.
Troubles == faults + (IF release = "broken" THEN 1 ELSE 0)
OneFailureLeavesABinary ==
    ~disturbed /\ bin = "none" => Troubles >= 2 \/ \E i \in Install : inst[i] = "copy"

\* "Ready to restart" is said only while the file at the program's path is the
\* new version: neither a copy that was rolled back, nor another check or
\* download, nor a binary that failed its test run is ever behind that status.
\* Which file the restart then runs is another matter (CurrentExe, Restart).
ReadyMeansInstalled == ~disturbed /\ status = "readyToRestart" => bin = "new"

-----------------------------------------------------------------------------
(* Liveness, under FairSpec.                                               *)

\* The loop gave up in the middle of a check, because the automatic checks had
\* been switched off, and left "checking" behind.
Abandoned == status = "checking" /\ ~manual /\ at["bg"] = "stopped"

\* A user who is refused a check because one is running can start one later,
\* whatever fails; a check that the loop abandoned is the exception.
RefusalEnds == Refused ~> (~Refused \/ Abandoned)

=============================================================================
