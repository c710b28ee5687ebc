-------------------------- MODULE Updater_proofs --------------------------
(***************************************************************************)
(* Proofs about Updater: the two tasks exclude each other, "ready" is on   *)
(* disk, "downloading" is true, one failure leaves an executable and a     *)
(* restart that is offered starts the new version, for any number of       *)
(* installations and failures.                                             *)
(*                                                                         *)
(* A part of the invariant that an installation disturbed by the user may  *)
(* break starts with ~disturbed, which never becomes true again.           *)
(***************************************************************************)
EXTENDS Updater, TLAPS

\* The flag is up as long as the manual check runs.
ManualFlag ==
    /\ at["manual"] \in {"none", "check"} \cup Downloading
    /\ at["manual"] # "none" => manual

\* Who looks for a release has said so, and so has an installation: the
\* status tells them apart.
StatusTellsWho ==
    ~disturbed =>
        /\ \A o \in Task : Looking(o) => status \in {"checking", "downloading"}
        /\ \A i \in Install : inst[i] # "none" => status = "installing"

OneInstallation ==
    ~disturbed => \A i, j \in Install : inst[i] # "none" /\ inst[j] # "none" => i = j

\* What a download has done to the directory so far.
DownloadOnDisk ==
    ~disturbed => \A o \in Task :
        /\ at[o] = "create" => open = {}
        /\ at[o] = "write" => open = {o}
        /\ at[o] = "verify" => archive = "whole" /\ open = {}

\* What an installation can go back to.
OldIsAtHand ==
    ~disturbed => \A i \in Install :
        /\ inst[i] \in {"copy", "validate"} => bak # "none"
        /\ inst[i] = "copy" => extracted

BrokenIsReleased == bin = "broken" \/ bak = "broken" => release = "broken"

Shared == ManualFlag /\ StatusTellsWho /\ OneInstallation /\ OneCheckAtATime
Disk == DownloadOnDisk /\ ReadyIsOnDisk
Exe == OldIsAtHand /\ BrokenIsReleased /\ OneFailureLeavesABinary

IInv == TypeOK /\ Shared /\ Disk /\ DownloadIsUnderWay /\ Exe

\* Every part holds at first.
LEMMA InitInv == Init => IInv
<1> SUFFICES ASSUME Init PROVE IInv
    OBVIOUS
<1>1. TypeOK
    <2>1. at \in [Task -> At]
        BY DEF Init, Task, At
    <2>2. inst \in [Install -> InstallAt] /\ target \in [Install -> Path]
        BY DEF Init, InstallAt, Path
    <2>3. open \subseteq Task /\ tries \in 1 .. MaxTries
        BY DEF Init, MaxTries
    <2>4. /\ status \in Status /\ bin \in Binary /\ bak \in Binary
          /\ image \in Path /\ loaded \in Path
        BY DEF Init, Status, Binary, Path
    <2> QED BY <2>1, <2>2, <2>3, <2>4 DEF Init, TypeOK
<1>2. Shared
    BY DEF Init, Shared, ManualFlag, StatusTellsWho, OneInstallation, OneCheckAtATime,
        Looking, Task, Downloading
<1>3. Disk /\ DownloadIsUnderWay
    BY DEF Init, Disk, DownloadOnDisk, ReadyIsOnDisk, DownloadIsUnderWay, Task, Downloading
<1>4. Exe
    BY DEF Init, Exe, OldIsAtHand, BrokenIsReleased, OneFailureLeavesABinary
<1> QED BY <1>1, <1>2, <1>3, <1>4 DEF IInv

\* Types.
LEMMA NextType == ASSUME TypeOK, [Next]_vars PROVE TypeOK'
<1> USE DEF TypeOK, Task, Status, At, Downloading, InstallAt, Path, Binary, MaxTries,
    vars, infoVars, taskVars, dirVars, exeVars, instVars
<1>1. CASE Toggle
    BY <1>1 DEF Toggle
<1>2. CASE StartManual
    BY <1>2 DEF StartManual, Go, Refused, Installing
<1>3. CASE Restart
    <2>1. at' \in [Task -> At] /\ inst' \in [Install -> InstallAt] /\ target' \in [Install -> Path]
        BY <1>3 DEF Restart, Installing, CurrentExe
    <2>2. archive' \in {"none", "partial", "whole"} /\ open' \subseteq Task
        BY <1>3 DEF Restart, Installing
    <2>3. extracted' \in BOOLEAN /\ manual' \in BOOLEAN /\ homebrew' \in BOOLEAN
          /\ auto' \in BOOLEAN /\ disturbed' \in BOOLEAN
        BY <1>3 DEF Restart, Installing
    <2>4. status' \in Status /\ tries' \in 1 .. MaxTries /\ faults' \in Nat
        BY <1>3 DEF Restart, Installing
    <2>5. bin' \in Binary /\ bak' \in Binary /\ image' \in Path /\ loaded' \in Path
          /\ runs' \in {"old", "new"} /\ release' \in {"new", "broken"}
        BY <1>3 DEF Restart, Installing, CurrentExe, Content
    <2> QED BY <2>1, <2>2, <2>3, <2>4, <2>5
<1>4. CASE Wake
    BY <1>4 DEF Wake, Look, Go
<1>5. CASE Resume
    BY <1>5 DEF Resume, Look, Go
<1>6. CASE Retry
    BY <1>6 DEF Retry, Go
<1>7. CASE ClearFailure
    BY <1>7 DEF ClearFailure, Go
<1>8. ASSUME NEW o \in Task, CheckFinds(o) PROVE TypeOK'
    <2>1. at' \in [Task -> At] /\ inst' \in [Install -> InstallAt] /\ target' \in [Install -> Path]
        BY <1>8 DEF CheckFinds, End, Go
    <2>2. archive' \in {"none", "partial", "whole"} /\ open' \subseteq Task
        BY <1>8 DEF CheckFinds, End, Go
    <2>3. extracted' \in BOOLEAN /\ manual' \in BOOLEAN /\ homebrew' \in BOOLEAN
          /\ auto' \in BOOLEAN /\ disturbed' \in BOOLEAN
        BY <1>8 DEF CheckFinds, End, Go
    <2>4. status' \in Status /\ tries' \in 1 .. MaxTries /\ faults' \in Nat
        BY <1>8 DEF CheckFinds, End, Go
    <2>5. bin' \in Binary /\ bak' \in Binary /\ image' \in Path /\ loaded' \in Path
          /\ runs' \in {"old", "new"} /\ release' \in {"new", "broken"}
        BY <1>8 DEF CheckFinds, End, Go
    <2> QED BY <2>1, <2>2, <2>3, <2>4, <2>5
<1>9. ASSUME NEW o \in Task, CheckFindsNothing(o) PROVE TypeOK'
    BY <1>9 DEF CheckFindsNothing, End, Go
<1>10. ASSUME NEW o \in Task, CheckFails(o) PROVE TypeOK'
    BY <1>10 DEF CheckFails, End, Go
<1>11. ASSUME NEW o \in Task, Clean(o) PROVE TypeOK'
    <2>1. at' \in [Task -> At] /\ inst' \in [Install -> InstallAt] /\ target' \in [Install -> Path]
        BY <1>11 DEF Clean, Go
    <2>2. archive' \in {"none", "partial", "whole"} /\ open' \subseteq Task
        BY <1>11 DEF Clean, Go
    <2>3. extracted' \in BOOLEAN /\ manual' \in BOOLEAN /\ homebrew' \in BOOLEAN
          /\ auto' \in BOOLEAN /\ disturbed' \in BOOLEAN
        BY <1>11 DEF Clean, Go
    <2>4. status' \in Status /\ tries' \in 1 .. MaxTries /\ faults' \in Nat
        BY <1>11 DEF Clean, Go
    <2>5. bin' \in Binary /\ bak' \in Binary /\ image' \in Path /\ loaded' \in Path
          /\ runs' \in {"old", "new"} /\ release' \in {"new", "broken"}
        BY <1>11 DEF Clean, Go
    <2> QED BY <2>1, <2>2, <2>3, <2>4, <2>5
<1>12. ASSUME NEW o \in Task, Create(o) PROVE TypeOK'
    BY <1>12 DEF Create, Go
<1>13. ASSUME NEW o \in Task, Progress(o) PROVE TypeOK'
    BY <1>13 DEF Progress
<1>14. ASSUME NEW o \in Task, Written(o) PROVE TypeOK'
    BY <1>14 DEF Written, Go
<1>15. ASSUME NEW o \in Task, Downloaded(o) PROVE TypeOK'
    BY <1>15 DEF Downloaded, End, Go
<1>16. ASSUME NEW o \in Task, DownloadFails(o) PROVE TypeOK'
    <2>1. at' \in [Task -> At] /\ inst' \in [Install -> InstallAt] /\ target' \in [Install -> Path]
        BY <1>16 DEF DownloadFails, GiveUp, End, Go
    <2>2. archive' \in {"none", "partial", "whole"} /\ open' \subseteq Task
        BY <1>16 DEF DownloadFails, GiveUp, End, Go
    <2>3. extracted' \in BOOLEAN /\ manual' \in BOOLEAN /\ homebrew' \in BOOLEAN
          /\ auto' \in BOOLEAN /\ disturbed' \in BOOLEAN
        BY <1>16 DEF DownloadFails, GiveUp, End, Go
    <2>4. status' \in Status /\ tries' \in 1 .. MaxTries /\ faults' \in Nat
        BY <1>16 DEF DownloadFails, GiveUp, End, Go
    <2>5. bin' \in Binary /\ bak' \in Binary /\ image' \in Path /\ loaded' \in Path
          /\ runs' \in {"old", "new"} /\ release' \in {"new", "broken"}
        BY <1>16 DEF DownloadFails, GiveUp, End, Go
    <2> QED BY <2>1, <2>2, <2>3, <2>4, <2>5
<1>17. ASSUME NEW i \in Install, StartInstall(i) PROVE TypeOK'
    <2>1. at' \in [Task -> At] /\ inst' \in [Install -> InstallAt] /\ target' \in [Install -> Path]
        BY <1>17 DEF StartInstall, InstGo, CurrentExe
    <2>2. archive' \in {"none", "partial", "whole"} /\ open' \subseteq Task
        BY <1>17 DEF StartInstall, InstGo
    <2>3. extracted' \in BOOLEAN /\ manual' \in BOOLEAN /\ homebrew' \in BOOLEAN
          /\ auto' \in BOOLEAN /\ disturbed' \in BOOLEAN
        BY <1>17 DEF StartInstall, InstGo
    <2>4. status' \in Status /\ tries' \in 1 .. MaxTries /\ faults' \in Nat
        BY <1>17 DEF StartInstall, InstGo
    <2>5. bin' \in Binary /\ bak' \in Binary /\ image' \in Path /\ loaded' \in Path
          /\ runs' \in {"old", "new"} /\ release' \in {"new", "broken"}
        BY <1>17 DEF StartInstall, InstGo
    <2> QED BY <2>1, <2>2, <2>3, <2>4, <2>5
<1>18. ASSUME NEW i \in Install, Extract(i) PROVE TypeOK'
    <2>1. at' \in [Task -> At] /\ inst' \in [Install -> InstallAt] /\ target' \in [Install -> Path]
        BY <1>18 DEF Extract, InstGo, Fault
    <2>2. archive' \in {"none", "partial", "whole"} /\ open' \subseteq Task
        BY <1>18 DEF Extract, InstGo, Fault
    <2>3. extracted' \in BOOLEAN /\ manual' \in BOOLEAN /\ homebrew' \in BOOLEAN
          /\ auto' \in BOOLEAN /\ disturbed' \in BOOLEAN
        BY <1>18 DEF Extract, InstGo, Fault
    <2>4. status' \in Status /\ tries' \in 1 .. MaxTries /\ faults' \in Nat
        BY <1>18 DEF Extract, InstGo, Fault
    <2>5. bin' \in Binary /\ bak' \in Binary /\ image' \in Path /\ loaded' \in Path
          /\ runs' \in {"old", "new"} /\ release' \in {"new", "broken"}
        BY <1>18 DEF Extract, InstGo, Fault
    <2> QED BY <2>1, <2>2, <2>3, <2>4, <2>5
<1>19. ASSUME NEW i \in Install, Rename(i) PROVE TypeOK'
    BY <1>19 DEF Rename, InstGo, Fault
<1>20. ASSUME NEW i \in Install, Copy(i) PROVE TypeOK'
    BY <1>20 DEF Copy, InstGo
<1>21. ASSUME NEW i \in Install, CopyFails(i) PROVE TypeOK'
    BY <1>21 DEF CopyFails, InstGo, RollBack
<1>22. ASSUME NEW i \in Install, Validate(i) PROVE TypeOK'
    <2>1. at' \in [Task -> At] /\ inst' \in [Install -> InstallAt] /\ target' \in [Install -> Path]
        BY <1>22 DEF Validate, InstGo
    <2>2. archive' \in {"none", "partial", "whole"} /\ open' \subseteq Task
        BY <1>22 DEF Validate, InstGo
    <2>3. extracted' \in BOOLEAN /\ manual' \in BOOLEAN /\ homebrew' \in BOOLEAN
          /\ auto' \in BOOLEAN /\ disturbed' \in BOOLEAN
        BY <1>22 DEF Validate, InstGo
    <2>4. status' \in Status /\ tries' \in 1 .. MaxTries /\ faults' \in Nat
        BY <1>22 DEF Validate, InstGo
    <2>5. bin' \in Binary /\ bak' \in Binary /\ image' \in Path /\ loaded' \in Path
          /\ runs' \in {"old", "new"} /\ release' \in {"new", "broken"}
        BY <1>22 DEF Validate, InstGo
    <2> QED BY <2>1, <2>2, <2>3, <2>4, <2>5
<1>23. ASSUME NEW i \in Install, ValidationFails(i) PROVE TypeOK'
    BY <1>23 DEF ValidationFails, InstGo, RollBack
<1>24. ASSUME NEW i \in Install, ValidationImpossible(i) PROVE TypeOK'
    BY <1>24 DEF ValidationImpossible, InstGo, Fault
<1>25. ASSUME NEW i \in Install, FinishInstall(i) PROVE TypeOK'
    BY <1>25 DEF FinishInstall, InstGo
<1>26. CASE UNCHANGED vars
    BY <1>26
<1> QED BY <1>1, <1>2, <1>3, <1>4, <1>5, <1>6, <1>7, <1>8, <1>9, <1>10, <1>11, <1>12,
    <1>13, <1>14, <1>15, <1>16, <1>17, <1>18, <1>19, <1>20, <1>21, <1>22, <1>23, <1>24,
    <1>25, <1>26 DEF Next, TaskStep, LoopStep, InstallStep

\* Who may begin while another is at work.
LEMMA NextShared == ASSUME IInv, [Next]_vars PROVE Shared'
<1> USE DEF IInv, Shared, TypeOK, ManualFlag, StatusTellsWho, OneInstallation,
    OneCheckAtATime, Looking, Task, Downloading, vars, infoVars, taskVars, dirVars, exeVars,
    instVars
<1>1. CASE Toggle
    BY <1>1 DEF Toggle
<1>2. CASE StartManual
    BY <1>2 DEF Refused, StartManual, Go, Refused, Installing
<1>3. CASE Restart
    BY <1>3 DEF Restart, Installing
<1>4. CASE Wake
    BY <1>4 DEF Found, Wake, Look, Go
<1>5. CASE Resume
    BY <1>5 DEF Found, Resume, Look, Go
<1>6. CASE Retry
    BY <1>6 DEF Retry, Go
<1>7. CASE ClearFailure
    BY <1>7 DEF ClearFailure, Go
<1>8. ASSUME NEW o \in Task, CheckFinds(o) PROVE Shared'
    BY <1>8 DEF CheckFinds, End, Go
<1>9. ASSUME NEW o \in Task, CheckFindsNothing(o) PROVE Shared'
    BY <1>9 DEF CheckFindsNothing, End, Go
<1>10. ASSUME NEW o \in Task, CheckFails(o) PROVE Shared'
    BY <1>10 DEF CheckFails, End, Go
<1>11. ASSUME NEW o \in Task, Clean(o) PROVE Shared'
    BY <1>11 DEF Clean, Go
<1>12. ASSUME NEW o \in Task, Create(o) PROVE Shared'
    BY <1>12 DEF Create, Go
<1>13. ASSUME NEW o \in Task, Progress(o) PROVE Shared'
    BY <1>13 DEF Progress
<1>14. ASSUME NEW o \in Task, Written(o) PROVE Shared'
    BY <1>14 DEF Written, Go
<1>15. ASSUME NEW o \in Task, Downloaded(o) PROVE Shared'
    BY <1>15 DEF Downloaded, End, Go
<1>16. ASSUME NEW o \in Task, DownloadFails(o) PROVE Shared'
    BY <1>16 DEF DownloadFails, GiveUp, End, Go
<1>17. ASSUME NEW i \in Install, StartInstall(i) PROVE Shared'
    BY <1>17 DEF StartInstall, InstGo
<1>18. ASSUME NEW i \in Install, Extract(i) PROVE Shared'
    BY <1>18 DEF Extract, InstGo, Fault
<1>19. ASSUME NEW i \in Install, Rename(i) PROVE Shared'
    BY <1>19 DEF Rename, InstGo, Fault
<1>20. ASSUME NEW i \in Install, Copy(i) PROVE Shared'
    BY <1>20 DEF Copy, InstGo
<1>21. ASSUME NEW i \in Install, CopyFails(i) PROVE Shared'
    BY <1>21 DEF CopyFails, InstGo, RollBack
<1>22. ASSUME NEW i \in Install, Validate(i) PROVE Shared'
    BY <1>22 DEF Validate, InstGo
<1>23. ASSUME NEW i \in Install, ValidationFails(i) PROVE Shared'
    BY <1>23 DEF ValidationFails, InstGo, RollBack
<1>24. ASSUME NEW i \in Install, ValidationImpossible(i) PROVE Shared'
    BY <1>24 DEF ValidationImpossible, InstGo, Fault
<1>25. ASSUME NEW i \in Install, FinishInstall(i) PROVE Shared'
    BY <1>25 DEF FinishInstall, InstGo
<1>26. CASE UNCHANGED vars
    BY <1>26
<1> QED BY <1>1, <1>2, <1>3, <1>4, <1>5, <1>6, <1>7, <1>8, <1>9, <1>10, <1>11, <1>12,
    <1>13, <1>14, <1>15, <1>16, <1>17, <1>18, <1>19, <1>20, <1>21, <1>22, <1>23, <1>24,
    <1>25, <1>26 DEF Next, TaskStep, LoopStep, InstallStep

\* The updates directory belongs to one of them at a time.
LEMMA NextDisk == ASSUME IInv, [Next]_vars PROVE Disk'
<1> USE DEF IInv, Shared, Disk, TypeOK, StatusTellsWho, OneInstallation,
    OneCheckAtATime, DownloadOnDisk, ReadyIsOnDisk, Looking, Task, Downloading, Installing,
    vars, infoVars, taskVars, dirVars, exeVars, instVars
<1>1. CASE Toggle
    BY <1>1 DEF Toggle
<1>2. CASE StartManual
    BY <1>2 DEF StartManual, Go, Refused, Installing
<1>3. CASE Restart
    BY <1>3 DEF Restart, Installing
<1>4. CASE Wake
    BY <1>4 DEF Wake, Look, Go
<1>5. CASE Resume
    BY <1>5 DEF Resume, Look, Go
<1>6. CASE Retry
    BY <1>6 DEF Retry, Go
<1>7. CASE ClearFailure
    BY <1>7 DEF ClearFailure, Go
<1>8. ASSUME NEW o \in Task, CheckFinds(o) PROVE Disk'
    BY <1>8 DEF CheckFinds, End, Go
<1>9. ASSUME NEW o \in Task, CheckFindsNothing(o) PROVE Disk'
    BY <1>9 DEF CheckFindsNothing, End, Go
<1>10. ASSUME NEW o \in Task, CheckFails(o) PROVE Disk'
    BY <1>10 DEF CheckFails, End, Go
<1>11. ASSUME NEW o \in Task, Clean(o) PROVE Disk'
    BY <1>11 DEF Clean, Go
<1>12. ASSUME NEW o \in Task, Create(o) PROVE Disk'
    BY <1>12 DEF Create, Go
<1>13. ASSUME NEW o \in Task, Progress(o) PROVE Disk'
    BY <1>13 DEF Progress
<1>14. ASSUME NEW o \in Task, Written(o) PROVE Disk'
    BY <1>14 DEF Written, Go
<1>15. ASSUME NEW o \in Task, Downloaded(o) PROVE Disk'
    BY <1>15 DEF Downloaded, End, Go
<1>16. ASSUME NEW o \in Task, DownloadFails(o) PROVE Disk'
    BY <1>16 DEF DownloadFails, GiveUp, End, Go
<1>17. ASSUME NEW i \in Install, StartInstall(i) PROVE Disk'
    BY <1>17 DEF StartInstall, InstGo
<1>18. ASSUME NEW i \in Install, Extract(i) PROVE Disk'
    BY <1>18 DEF Extract, InstGo, Fault
<1>19. ASSUME NEW i \in Install, Rename(i) PROVE Disk'
    BY <1>19 DEF Rename, InstGo, Fault
<1>20. ASSUME NEW i \in Install, Copy(i) PROVE Disk'
    BY <1>20 DEF Copy, InstGo
<1>21. ASSUME NEW i \in Install, CopyFails(i) PROVE Disk'
    BY <1>21 DEF CopyFails, InstGo, RollBack
<1>22. ASSUME NEW i \in Install, Validate(i) PROVE Disk'
    BY <1>22 DEF Validate, InstGo
<1>23. ASSUME NEW i \in Install, ValidationFails(i) PROVE Disk'
    BY <1>23 DEF ValidationFails, InstGo, RollBack
<1>24. ASSUME NEW i \in Install, ValidationImpossible(i) PROVE Disk'
    BY <1>24 DEF ValidationImpossible, InstGo, Fault
<1>25. ASSUME NEW i \in Install, FinishInstall(i) PROVE Disk'
    BY <1>25 DEF FinishInstall, InstGo
<1>26. CASE UNCHANGED vars
    BY <1>26
<1> QED BY <1>1, <1>2, <1>3, <1>4, <1>5, <1>6, <1>7, <1>8, <1>9, <1>10, <1>11, <1>12,
    <1>13, <1>14, <1>15, <1>16, <1>17, <1>18, <1>19, <1>20, <1>21, <1>22, <1>23, <1>24,
    <1>25, <1>26 DEF Next, TaskStep, LoopStep, InstallStep

\* Who leaves a download says so.
LEMMA NextDownload == ASSUME IInv, [Next]_vars PROVE DownloadIsUnderWay'
<1> USE DEF IInv, TypeOK, DownloadIsUnderWay, Task, Downloading, vars, infoVars,
    taskVars, dirVars, exeVars, instVars
<1>1. CASE Toggle
    BY <1>1 DEF Toggle
<1>2. CASE StartManual
    BY <1>2 DEF StartManual, Go, Refused, Installing
<1>3. CASE Restart
    BY <1>3 DEF Restart, Installing
<1>4. CASE Wake
    BY <1>4 DEF Wake, Look, Go
<1>5. CASE Resume
    BY <1>5 DEF Resume, Look, Go
<1>6. CASE Retry
    BY <1>6 DEF Retry, Go
<1>7. CASE ClearFailure
    BY <1>7 DEF ClearFailure, Go
<1>8. ASSUME NEW o \in Task, CheckFinds(o) PROVE DownloadIsUnderWay'
    BY <1>8 DEF CheckFinds, End, Go
<1>9. ASSUME NEW o \in Task, CheckFindsNothing(o) PROVE DownloadIsUnderWay'
    BY <1>9 DEF CheckFindsNothing, End, Go
<1>10. ASSUME NEW o \in Task, CheckFails(o) PROVE DownloadIsUnderWay'
    BY <1>10 DEF CheckFails, End, Go
<1>11. ASSUME NEW o \in Task, Clean(o) PROVE DownloadIsUnderWay'
    BY <1>11 DEF Clean, Go
<1>12. ASSUME NEW o \in Task, Create(o) PROVE DownloadIsUnderWay'
    BY <1>12 DEF Create, Go
<1>13. ASSUME NEW o \in Task, Progress(o) PROVE DownloadIsUnderWay'
    BY <1>13 DEF Progress
<1>14. ASSUME NEW o \in Task, Written(o) PROVE DownloadIsUnderWay'
    BY <1>14 DEF Written, Go
<1>15. ASSUME NEW o \in Task, Downloaded(o) PROVE DownloadIsUnderWay'
    BY <1>15 DEF Downloaded, End, Go
<1>16. ASSUME NEW o \in Task, DownloadFails(o) PROVE DownloadIsUnderWay'
    BY <1>16 DEF DownloadFails, GiveUp, End, Go
<1>17. ASSUME NEW i \in Install, StartInstall(i) PROVE DownloadIsUnderWay'
    BY <1>17 DEF StartInstall, InstGo
<1>18. ASSUME NEW i \in Install, Extract(i) PROVE DownloadIsUnderWay'
    BY <1>18 DEF Extract, InstGo, Fault
<1>19. ASSUME NEW i \in Install, Rename(i) PROVE DownloadIsUnderWay'
    BY <1>19 DEF Rename, InstGo, Fault
<1>20. ASSUME NEW i \in Install, Copy(i) PROVE DownloadIsUnderWay'
    BY <1>20 DEF Copy, InstGo
<1>21. ASSUME NEW i \in Install, CopyFails(i) PROVE DownloadIsUnderWay'
    BY <1>21 DEF CopyFails, InstGo, RollBack
<1>22. ASSUME NEW i \in Install, Validate(i) PROVE DownloadIsUnderWay'
    BY <1>22 DEF Validate, InstGo
<1>23. ASSUME NEW i \in Install, ValidationFails(i) PROVE DownloadIsUnderWay'
    BY <1>23 DEF ValidationFails, InstGo, RollBack
<1>24. ASSUME NEW i \in Install, ValidationImpossible(i) PROVE DownloadIsUnderWay'
    BY <1>24 DEF ValidationImpossible, InstGo, Fault
<1>25. ASSUME NEW i \in Install, FinishInstall(i) PROVE DownloadIsUnderWay'
    BY <1>25 DEF FinishInstall, InstGo
<1>26. CASE UNCHANGED vars
    BY <1>26
<1> QED BY <1>1, <1>2, <1>3, <1>4, <1>5, <1>6, <1>7, <1>8, <1>9, <1>10, <1>11, <1>12,
    <1>13, <1>14, <1>15, <1>16, <1>17, <1>18, <1>19, <1>20, <1>21, <1>22, <1>23, <1>24,
    <1>25, <1>26 DEF Next, TaskStep, LoopStep, InstallStep

\* A step of an installation can be taken back as long as it may have to be.
LEMMA NextExe == ASSUME IInv, [Next]_vars PROVE Exe'
<1> USE DEF IInv, Shared, Exe, TypeOK, StatusTellsWho, OneInstallation, OldIsAtHand,
    BrokenIsReleased, OneFailureLeavesABinary, Troubles, Looking, Task, Downloading,
    Installing, Binary, vars, infoVars, taskVars, dirVars, exeVars, instVars
<1>1. CASE Toggle
    BY <1>1 DEF Toggle
<1>2. CASE StartManual
    BY <1>2 DEF StartManual, Go, Refused, Installing
<1>3. CASE Restart
    BY <1>3 DEF Restart, Installing
<1>4. CASE Wake
    BY <1>4 DEF Wake, Look, Go
<1>5. CASE Resume
    BY <1>5 DEF Resume, Look, Go
<1>6. CASE Retry
    BY <1>6 DEF Retry, Go
<1>7. CASE ClearFailure
    BY <1>7 DEF ClearFailure, Go
<1>8. ASSUME NEW o \in Task, CheckFinds(o) PROVE Exe'
    BY <1>8 DEF CheckFinds, End, Go
<1>9. ASSUME NEW o \in Task, CheckFindsNothing(o) PROVE Exe'
    BY <1>9 DEF CheckFindsNothing, End, Go
<1>10. ASSUME NEW o \in Task, CheckFails(o) PROVE Exe'
    BY <1>10 DEF CheckFails, End, Go
<1>11. ASSUME NEW o \in Task, Clean(o) PROVE Exe'
    BY <1>11 DEF Clean, Go
<1>12. ASSUME NEW o \in Task, Create(o) PROVE Exe'
    BY <1>12 DEF Create, Go
<1>13. ASSUME NEW o \in Task, Progress(o) PROVE Exe'
    BY <1>13 DEF Progress
<1>14. ASSUME NEW o \in Task, Written(o) PROVE Exe'
    BY <1>14 DEF Written, Go
<1>15. ASSUME NEW o \in Task, Downloaded(o) PROVE Exe'
    BY <1>15 DEF Downloaded, End, Go
<1>16. ASSUME NEW o \in Task, DownloadFails(o) PROVE Exe'
    BY <1>16 DEF DownloadFails, GiveUp, End, Go
<1>17. ASSUME NEW i \in Install, StartInstall(i) PROVE Exe'
    BY <1>17 DEF StartInstall, InstGo
<1>18. ASSUME NEW i \in Install, Extract(i) PROVE Exe'
    BY <1>18 DEF Extract, InstGo, Fault
<1>19. ASSUME NEW i \in Install, Rename(i) PROVE Exe'
    BY <1>19 DEF Rename, InstGo, Fault
<1>20. ASSUME NEW i \in Install, Copy(i) PROVE Exe'
    BY <1>20 DEF Copy, InstGo
<1>21. ASSUME NEW i \in Install, CopyFails(i) PROVE Exe'
    BY <1>21 DEF CopyFails, InstGo, RollBack
<1>22. ASSUME NEW i \in Install, Validate(i) PROVE Exe'
    BY <1>22 DEF Validate, InstGo
<1>23. ASSUME NEW i \in Install, ValidationFails(i) PROVE Exe'
    BY <1>23 DEF ValidationFails, InstGo, RollBack
<1>24. ASSUME NEW i \in Install, ValidationImpossible(i) PROVE Exe'
    BY <1>24 DEF ValidationImpossible, InstGo, Fault
<1>25. ASSUME NEW i \in Install, FinishInstall(i) PROVE Exe'
    BY <1>25 DEF FinishInstall, InstGo
<1>26. CASE UNCHANGED vars
    BY <1>26
<1> QED BY <1>1, <1>2, <1>3, <1>4, <1>5, <1>6, <1>7, <1>8, <1>9, <1>10, <1>11, <1>12,
    <1>13, <1>14, <1>15, <1>16, <1>17, <1>18, <1>19, <1>20, <1>21, <1>22, <1>23, <1>24,
    <1>25, <1>26 DEF Next, TaskStep, LoopStep, InstallStep

\* The parts together are inductive.
LEMMA Invariant == Spec => []IInv
<1>1. IInv /\ [Next]_vars => IInv'
    <2> SUFFICES ASSUME IInv, [Next]_vars PROVE IInv'
        OBVIOUS
    <2>1. TypeOK'
        BY NextType DEF IInv
    <2> QED BY <2>1, NextShared, NextDisk, NextDownload, NextExe DEF IInv
<1> QED BY <1>1, InitInv, PTL DEF Spec

\* Every variable of the updater has its type.
THEOREM TypeCorrect == Spec => []TypeOK
<1>1. IInv => TypeOK
    BY DEF IInv, Shared, Disk, Exe
<1> QED BY <1>1, Invariant, PTL

\* The background loop and the manual check never look for a release at the
\* same time, unless the user disturbed an installation.
THEOREM ChecksAreExclusive == Spec => []OneCheckAtATime
<1>1. IInv => OneCheckAtATime
    BY DEF IInv, Shared, Disk, Exe
<1> QED BY <1>1, Invariant, PTL

\* An update that is offered, or about to be unpacked, is whole on the disk.
THEOREM ReadyIsThere == Spec => []ReadyIsOnDisk
<1>1. IInv => ReadyIsOnDisk
    BY DEF IInv, Shared, Disk, Exe
<1> QED BY <1>1, Invariant, PTL

\* The status says "downloading" only while a task is at it.
THEOREM DownloadingIsTrue == Spec => []DownloadIsUnderWay
<1>1. IInv => DownloadIsUnderWay
    BY DEF IInv, Shared, Disk, Exe
<1> QED BY <1>1, Invariant, PTL

\* One failure of an installation, or a broken release, leaves an executable.
THEOREM OneFailureIsSurvived == Spec => []OneFailureLeavesABinary
<1>1. IInv => OneFailureLeavesABinary
    BY DEF IInv, Shared, Disk, Exe
<1> QED BY <1>1, Invariant, PTL

-----------------------------------------------------------------------------
\* The copy is the release, and only one that ran is offered.
NewInPlace ==
    ~disturbed =>
        /\ \A i \in Install : /\ inst[i] = "validate" => bin = release
                              /\ inst[i] = "ok" => bin = "new"
        /\ status = "readyToRestart" => bin = "new"

\* A step that keeps the executable, and whose status is no offer to restart.
LEMMA KeepsNewInPlace ==
    ASSUME NewInPlace, UNCHANGED <<inst, bin, release, disturbed>>,
           status' = status \/ status' # "readyToRestart"
    PROVE  NewInPlace'
BY DEF NewInPlace

\* Only the one installation that is going on changes the executable.
LEMMA NextNew == ASSUME IInv, NewInPlace, [Next]_vars PROVE NewInPlace'
<1> USE DEF vars, infoVars, taskVars, dirVars, exeVars, instVars
<1>1. CASE Toggle \/ LoopStep
    BY <1>1, KeepsNewInPlace DEF Toggle, LoopStep, Wake, Resume, Look, Retry, ClearFailure
<1>2. CASE StartManual
    BY <1>2 DEF StartManual, NewInPlace
<1>3. CASE Restart
    BY <1>3 DEF Restart, NewInPlace
<1>4. ASSUME NEW o \in Task, TaskStep(o) \/ Progress(o)
      PROVE  NewInPlace'
    BY <1>4, KeepsNewInPlace DEF TaskStep, CheckFinds, CheckFindsNothing, CheckFails, Clean,
       Create, Written, Downloaded, DownloadFails, Progress, GiveUp, End
<1>5. ASSUME NEW i \in Install, StartInstall(i)
      PROVE  NewInPlace'
    BY <1>5 DEF StartInstall, InstGo, IInv, TypeOK, NewInPlace
<1>6. ASSUME NEW i \in Install, InstallStep(i)
      PROVE  NewInPlace'
    <2>1. inst[i] # "none"
        BY <1>6 DEF InstallStep, Extract, Rename, Copy, CopyFails, Validate, ValidationFails,
           ValidationImpossible, FinishInstall
    <2>2. ~disturbed => status = "installing" /\ \A k \in Install \ {i} : inst[k] = "none"
        BY <2>1 DEF IInv, Shared, StatusTellsWho, OneInstallation
    <2>3. release \in {"new", "broken"}
        BY DEF IInv, TypeOK
    <2>4. CASE Extract(i) \/ Rename(i) \/ CopyFails(i) \/ ValidationFails(i) \/ ValidationImpossible(i)
        <3>1. /\ status' = status /\ disturbed' = disturbed
              /\ \E l \in {"rename", "copy", "err"} : inst' = [inst EXCEPT ![i] = l]
            BY <2>4 DEF Extract, Rename, CopyFails, ValidationFails, ValidationImpossible, InstGo
        <3> QED BY <2>2, <3>1 DEF IInv, TypeOK, NewInPlace
    <2>5. CASE Copy(i)
        BY <2>2, <2>5 DEF Copy, InstGo, IInv, TypeOK, NewInPlace
    <2>6. CASE Validate(i)
        BY <2>2, <2>3, <2>6 DEF Validate, InstGo, IInv, TypeOK, NewInPlace
    <2>7. CASE FinishInstall(i)
        BY <2>2, <2>7 DEF FinishInstall, InstGo, IInv, TypeOK, NewInPlace
    <2> QED BY <1>6, <2>4, <2>5, <2>6, <2>7 DEF InstallStep
<1>7. CASE UNCHANGED vars
    BY <1>7, KeepsNewInPlace
<1> QED BY <1>1, <1>2, <1>3, <1>4, <1>5, <1>6, <1>7 DEF Next

\* The status never says that the program is ready to restart when the file at
\* its path is another than the new version, unless the user interfered with the
\* installation.  Nothing is said of the file that a restart then runs: it is the
\* one that current_exe names, on Linux the one renamed to .old.
THEOREM InstalledWhenReady == Spec => []ReadyMeansInstalled
<1>1. Init => NewInPlace
    BY DEF Init, NewInPlace
<1>2. NewInPlace => ReadyMeansInstalled
    BY DEF NewInPlace, ReadyMeansInstalled
<1> QED BY <1>1, <1>2, NextNew, Invariant, PTL DEF Spec

=============================================================================
