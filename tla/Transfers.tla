----------------------------- MODULE Transfers -----------------------------
(***************************************************************************)
(* SFTP uploads and downloads: the store of the transfer manager,          *)
(* velowork-views-terminal/src/transfer_store.rs, and the tasks that move  *)
(* the files, layout/terminal_pane/sftp_panel.rs.                          *)
(*                                                                         *)
(* Four actors share a transfer: the worker on the I/O runtime, which      *)
(* reads the control and writes the destination; the ticker, which copies  *)
(* the worker's progress to the store; the task that awaits the worker;    *)
(* and the user, who clicks on what the popup last drew.  The worker *)
(* loads the control and then awaits a read or a write, which takes effect *)
(* whatever became of the control meanwhile: two steps.                    *)
(*                                                                         *)
(* External: the file systems, and the connections, which may be lost at   *)
(* any time; the tasks see that as any other error.                        *)
(***************************************************************************)
EXTENDS Naturals, FiniteSets

CONSTANTS Dest, KindOf,   \* destinations, and what is done to each
          Session,
          MaxBegun,       \* bound: transfers begun, in all runs of the program
          MaxClicks,      \* bound: what the user does
          MaxRuns         \* bound: runs of the program

ASSUME DestAssumption ==
    Dest # {} /\ Session # {} /\ KindOf \in [Dest -> {"upload", "download", "open"}]
ASSUME BoundAssumption ==
    MaxBegun \in Nat /\ MaxClicks \in Nat /\ MaxRuns \in Nat \ {0}

Id == 1 .. MaxBegun         \* "xfer-N"
None == "none"

VARIABLES
    next,      \* NEXT_TRANSFER_ID, which starts again in every run
    rows,      \* TransferStore.tasks: the status of each
    listed,    \* the ids in TransferStore.controls
    control,   \* what the control of each transfer holds
    dest, sess,         \* of each transfer
    worker,    \* where the worker is
    result,    \* TransferProgress: the status, once done
    ticking, awaiting,  \* the transfers whose ticker, whose task goes on
    saved,     \* transfers.json
    aim,       \* the click under way: its element as it was drawn
    files,     \* what is at each destination; external
    written,   \* the transfers whose last bytes have been written
    clicks, begun, runs,
    shared,    \* history: transfers whose destination another one touched
    late       \* history: transfers clicked on when the worker was done

storeVars == <<rows, listed, control, saved>>
taskVars == <<worker, result, ticking, awaiting>>
placeVars == <<next, dest, sess>>
worldVars == <<files, written, shared>>
boundVars == <<clicks, begun, runs>>
vars == <<storeVars, taskVars, placeVars, worldVars, aim, boundVars, late>>

Finished == {"Complete", "Error"}
Status == {"Active", "Paused"} \cup Finished

\* At the top of the loop, in the loop of a pause, in a read or a write, and
\* out of the loop without success.
InLoop == {"looking", "held", "busy"}
Working == {"begun", "broken"} \cup InLoop

AnyDest == CHOOSE d \in Dest : TRUE
AnySession == CHOOSE s \in Session : TRUE
Toolbar == 0
NoAim == <<Toolbar, None>>
Aims == {NoAim} \cup Id \X Status \cup {Toolbar} \X {"pause", "resume", "clear"}

TypeOK ==
    /\ next \in 0 .. MaxBegun
    /\ rows \in [Id -> Status \cup {None}]
    /\ saved \in [Id -> Finished \cup {None}]
    /\ listed \subseteq Id
    /\ aim \in Aims
    /\ control \in [Id -> {"active", "paused", "cancelled"}]
    /\ dest \in [Id -> Dest] /\ sess \in [Id -> Session]
    /\ worker \in [Id -> Working \cup {None, "over"}]
    /\ result \in [Id -> Finished \cup {None}]
    /\ ticking \subseteq Id /\ awaiting \subseteq Id
    /\ written \subseteq Id /\ shared \subseteq Id /\ late \subseteq Id
    /\ files \in [Dest -> {"other", "part", "whole"}]
    /\ clicks \in 0 .. MaxClicks /\ begun \in 0 .. MaxBegun /\ runs \in 1 .. MaxRuns

Init ==
    /\ next = 0 /\ listed = {} /\ ticking = {} /\ awaiting = {}
    /\ control = [i \in Id |-> "active"]
    /\ worker = [i \in Id |-> None] /\ result = [i \in Id |-> None]
    /\ rows = [i \in Id |-> None] /\ saved = [i \in Id |-> None]
    /\ aim = NoAim
    /\ dest = [i \in Id |-> AnyDest]
    /\ sess = [i \in Id |-> AnySession]
    /\ files = [d \in Dest |-> "other"]
    /\ clicks = 0 /\ begun = 0 /\ runs = 1 /\ written = {} /\ shared = {} /\ late = {}

-----------------------------------------------------------------------------
(* The store.                                                              *)

\* save_persisted, with the rows r.
Save(r) == saved' = [i \in Id |-> IF r[i] \in Finished THEN r[i] ELSE None]

SetRow(i, s) == rows' = [rows EXCEPT ![i] = s]
SetControl(i, c) == control' = [control EXCEPT ![i] = c]

\* set_status, for the two statuses the popup sets.
SetStatus(i, s) ==
    /\ IF rows[i] # None THEN SetRow(i, s) ELSE UNCHANGED rows
    /\ IF i \in listed THEN SetControl(i, IF s = "Active" THEN "active" ELSE "paused")
                       ELSE UNCHANGED control
    /\ UNCHANGED <<listed, saved>>

\* The mutated form does not cancel.
RemoveRow(i) ==
    /\ SetRow(i, None) /\ listed' = listed \ {i}
    /\ Save(rows')
    /\ UNCHANGED control

Remove(i) ==
    /\ SetRow(i, None)
    /\ IF i \in listed THEN SetControl(i, "cancelled") ELSE UNCHANGED control
    /\ listed' = listed \ {i}
    /\ Save(rows')

\* The mutated form leaves the file as it is.
ClearRows ==
    /\ rows' = [i \in Id |-> IF rows[i] \in Finished THEN None ELSE rows[i]]
    /\ listed' = {i \in listed : rows[i] \notin Finished}
    /\ UNCHANGED <<control, saved>>

ClearCompleted ==
    /\ rows' = [i \in Id |-> IF rows[i] \in Finished THEN None ELSE rows[i]]
    /\ listed' = {i \in listed : rows[i] \notin Finished}
    /\ Save(rows')
    /\ UNCHANGED control

\* pause_all and resume_all: rows and controls, each on its own.
Switch(from, to, off, on) ==
    /\ rows' = [i \in Id |-> IF rows[i] = from THEN to ELSE rows[i]]
    /\ control' = [i \in Id |-> IF i \in listed /\ control[i] = off THEN on ELSE control[i]]
    /\ UNCHANGED <<listed, saved>>

PauseAll == Switch("Active", "Paused", "active", "paused")
ResumeAll == Switch("Paused", "Active", "paused", "active")

\* The mutated form forgets the workers.
FailRows(s) ==
    LET hit == {i \in Id : rows[i] \in {"Active", "Paused"} /\ sess[i] = s}
    IN  /\ hit # {}
        /\ rows' = [i \in Id |-> IF i \in hit THEN "Error" ELSE rows[i]]
        /\ Save(rows')
        /\ UNCHANGED <<listed, control>>

FailSession(s) ==
    LET hit == {i \in Id : rows[i] \in {"Active", "Paused"} /\ sess[i] = s}
    IN  /\ hit # {}
        /\ rows' = [i \in Id |-> IF i \in hit THEN "Error" ELSE rows[i]]
        /\ control' = [i \in Id |-> IF i \in hit \cap listed THEN "cancelled" ELSE control[i]]
        /\ Save(rows')
        /\ UNCHANGED listed

-----------------------------------------------------------------------------
(* The user.                                                               *)

\* A row or a button is drawn, and clicked on: what the click will do is
\* settled here, and done later.
Aim(a) ==
    /\ aim = NoAim /\ clicks < MaxClicks
    /\ clicks' = clicks + 1 /\ aim' = a
    /\ UNCHANGED <<storeVars, taskVars, placeVars, worldVars, begun, runs, late>>

AimAtRow(i) == rows[i] # None /\ Aim(<<i, rows[i]>>)

AimAtToolbar ==
    \/ Aim(<<Toolbar, "clear">>)
    \/ (\E i \in Id : rows[i] = "Active") /\ Aim(<<Toolbar, "pause">>)
    \/ /\ \A i \in Id : rows[i] # "Active"
       /\ \E i \in Id : rows[i] = "Paused"
       /\ Aim(<<Toolbar, "resume">>)

\* The buttons of a row: pause or resume while it is not finished, remove.
ClickRow(i, s) ==
    \/ s = "Active" /\ SetStatus(i, "Paused")
    \/ s = "Paused" /\ SetStatus(i, "Active")
    \/ Remove(i)

ClickToolbar(b) ==
    \/ b = "clear" /\ ClearCompleted
    \/ b = "pause" /\ PauseAll
    \/ b = "resume" /\ ResumeAll

Click ==
    /\ aim # NoAim /\ aim' = NoAim
    /\ \/ \E i \in Id, s \in Status : aim = <<i, s>> /\ ClickRow(i, s)
       \/ \E b \in {"clear", "pause", "resume"} : aim = <<Toolbar, b>> /\ ClickToolbar(b)
    /\ late' = late \cup {i \in Id : result[i] # None /\ rows'[i] # rows[i]}
    /\ UNCHANGED <<taskVars, placeVars, worldVars, boundVars>>

\* bind_active_terminal: a terminal without SSH gets the focus, or the
\* connection of the terminal in focus is seen to be closed.
LoseFocus(s) ==
    /\ clicks < MaxClicks /\ clicks' = clicks + 1
    /\ FailSession(s)
    /\ UNCHANGED <<taskVars, placeVars, worldVars, aim, begun, runs, late>>

-----------------------------------------------------------------------------
(* A transfer.                                                             *)

\* The store gets a row in place of any of that id, and its control.
Begin(d, s) ==
    LET i == next + 1
    IN  /\ begun < MaxBegun /\ begun' = begun + 1 /\ next' = i
        /\ dest' = [dest EXCEPT ![i] = d] /\ sess' = [sess EXCEPT ![i] = s]
        /\ SetRow(i, "Active") /\ SetControl(i, "active")
        /\ listed' = listed \cup {i}
        /\ worker' = [worker EXCEPT ![i] = "begun"]
        /\ ticking' = ticking \cup {i} /\ awaiting' = awaiting \cup {i}
        /\ shared' = shared \ {i}
        /\ UNCHANGED <<saved, result, files, written, aim, clicks, runs, late>>

\* The worker publishes what came out, and is over.
Publish(i, s) ==
    /\ worker' = [worker EXCEPT ![i] = "over"]
    /\ result' = [result EXCEPT ![i] = s]
    /\ UNCHANGED <<ticking, awaiting>>

GoTo(i, p) ==
    /\ worker' = [worker EXCEPT ![i] = p]
    /\ UNCHANGED <<result, ticking, awaiting>>

WorkerStep == UNCHANGED <<storeVars, placeVars, aim, boundVars, late>>

\* The transfers that share the destination of i.
Mates(i) == {j \in Id \ {i} : dest[j] = dest[i]}

\* The destination is created or emptied.
Open(i) ==
    /\ worker[i] = "begun"
    /\ GoTo(i, "looking")
    /\ files' = [files EXCEPT ![dest[i]] = "part"]
    /\ shared' = shared \cup Mates(i)
                   \cup {j \in {i} : \E m \in Mates(i) : worker[m] \in Working}
    /\ UNCHANGED written /\ WorkerStep

\* The connection is lost, or a file cannot be opened.
CannotOpen(i) ==
    /\ worker[i] = "begun"
    /\ Publish(i, "Error")
    /\ UNCHANGED worldVars /\ WorkerStep

\* The control is loaded: the next read and write begin, or the worker is held
\* until a later load of the control finds it changed.
Look(i) ==
    /\ \/ worker[i] \in {"looking", "held"} /\ control[i] = "active" /\ GoTo(i, "busy")
       \/ worker[i] = "looking" /\ control[i] = "paused" /\ GoTo(i, "held")
    /\ UNCHANGED worldVars /\ WorkerStep

\* The last chunk; the ones before it change nothing here.
Write(i) ==
    /\ worker[i] = "busy" /\ i \notin written
    /\ GoTo(i, "looking")
    /\ files' = [files EXCEPT ![dest[i]] = "whole"]
    /\ written' = written \cup {i}
    /\ UNCHANGED shared /\ WorkerStep

\* Before the control is loaded the connection is found lost; a control that
\* says so ends the loop; or the read or the write fails.  A paused worker
\* looks at nothing but the control.
LeavesLoop(i) ==
    \/ worker[i] \in {"looking", "busy"}
    \/ worker[i] = "held" /\ control[i] = "cancelled"

\* The mutated form of Break: nothing notes that the loop ended early.
BreakUnmarked(i) ==
    /\ LeavesLoop(i)
    /\ Publish(i, "Complete")
    /\ UNCHANGED worldVars /\ WorkerStep

Break(i) ==
    /\ LeavesLoop(i)
    /\ GoTo(i, "broken")
    /\ UNCHANGED worldVars /\ WorkerStep

\* Nothing is left to read.
Eof(i) ==
    /\ worker[i] = "busy" /\ i \in written
    /\ Publish(i, "Complete")
    /\ UNCHANGED worldVars /\ WorkerStep

\* What is left behind goes when the transfer was cancelled, unless it was
\* fetched to be opened; a remote file stays when the connection is lost.
CleanUp(i) ==
    /\ worker[i] = "broken"
    /\ Publish(i, "Error")
    /\ \/ /\ control[i] = "cancelled" /\ KindOf[dest[i]] # "open"
          /\ files' = [files EXCEPT ![dest[i]] = "other"]
       \/ /\ control[i] = "cancelled" => KindOf[dest[i]] # "download"
          /\ UNCHANGED files
    /\ UNCHANGED <<written, shared>> /\ WorkerStep

\* The store gets the result.
Show(i) ==
    /\ IF rows[i] # None THEN SetRow(i, result[i]) ELSE UNCHANGED rows
    /\ UNCHANGED <<listed, control>>

\* The ticker finds the worker done.
Tick(i) ==
    /\ i \in ticking /\ result[i] # None
    /\ ticking' = ticking \ {i}
    /\ Show(i)
    /\ IF rows[i] # None THEN Save(rows') ELSE UNCHANGED saved
    /\ UNCHANGED <<worker, result, awaiting, placeVars, worldVars, aim, boundVars, late>>

\* The task that awaited the worker goes on; for a file that is opened, it
\* leaves a failure to the ticker.
Conclude(i) ==
    /\ i \in awaiting /\ result[i] # None
    /\ awaiting' = awaiting \ {i}
    /\ IF KindOf[dest[i]] = "open" /\ result[i] = "Error"
       THEN UNCHANGED <<rows, listed, control>> ELSE Show(i)
    /\ Save(rows')
    /\ UNCHANGED <<worker, result, ticking, placeVars, worldVars, aim, boundVars, late>>

-----------------------------------------------------------------------------
(* The rest of the world.                                                  *)

\* The program ends, or is killed, and starts again: load_persisted.
Restart ==
    /\ runs < MaxRuns /\ runs' = runs + 1
    /\ next' = 0 /\ listed' = {} /\ ticking' = {} /\ awaiting' = {} /\ late' = {}
    /\ control' = [i \in Id |-> "active"]
    /\ worker' = [i \in Id |-> None] /\ result' = [i \in Id |-> None]
    /\ rows' = saved /\ aim' = NoAim
    /\ dest' = [i \in Id |-> AnyDest] /\ sess' = [i \in Id |-> AnySession]
    /\ written' = {} /\ shared' = {}
    /\ UNCHANGED <<saved, files, clicks, begun>>

Work(i) ==
    \/ Open(i) \/ CannotOpen(i) \/ Look(i) \/ Write(i) \/ Break(i) \/ Eof(i) \/ CleanUp(i)
    \/ Tick(i) \/ Conclude(i)

Next ==
    \/ AimAtToolbar \/ Click \/ Restart
    \/ \E i \in Id : AimAtRow(i)
    \/ \E d \in Dest, s \in Session : Begin(d, s)
    \/ \E i \in Id : Work(i)
    \/ \E s \in Session : LoseFocus(s)

Spec == Init /\ [][Next]_vars

\* The runtime runs what is ready, and keepalives end a connection that
\* answers nothing.
FairSpec == Spec /\ \A i \in Id : WF_vars(Work(i))
-----------------------------------------------------------------------------
(* Properties.                                                             *)

\* A worker that moves a file has a row that says whether it is paused, and a
\* control in the store: nothing runs that the user neither sees nor can
\* stop.  Seven operations write the rows and the controls, each its own way.
RunningIsShown ==
    \A i \in Id : worker[i] \in Working /\ control[i] # "cancelled" =>
        /\ i \in listed
        /\ rows[i] = IF control[i] = "paused" THEN "Paused" ELSE "Active"

\* A transfer of this run that is shown as complete has left a whole file,
\* also when it was failed as its last bytes moved and is shown as complete
\* all the same, unless another transfer used the same destination meanwhile
\* or afterwards.
CompleteMeansWhole ==
    \A i \in 1 .. next :
        rows[i] = "Complete" /\ i \notin shared => files[dest[i]] = "whole"

\* transfers.json knows every verdict that is shown, and none of a transfer
\* that was removed: what a restart brings back is what the user last saw.
HistoryIsTrue ==
    \A i \in Id : /\ rows[i] \in Finished => saved[i] = rows[i]
                  /\ rows[i] = None => saved[i] = None

\* Transfer i was begun in this run of the program, and removed.
Gone(i) == i <= next /\ rows[i] = None

\* A transfer that is removed is not shown again before the program ends, and
\* its worker begins no read or write any more, although the ticker, the task
\* and other clicks go on: the one that it awaits when the row is removed is
\* its last.  That one still takes effect: it may write, or find the end of the
\* file and make the transfer complete.
RemovalIsFinal ==
    [][\A i \in Id : Gone(i) /\ runs' = runs =>
           rows'[i] = None /\ (worker'[i] = "busy" => worker[i] = "busy")]_vars

\* A transfer is at rest: paused, or over with its verdict shown.
Settled(i) ==
    \/ worker[i] = "held" /\ control[i] = "paused" /\ rows[i] = "Paused"
    \/ /\ worker[i] = "over" /\ i \notin ticking \cup awaiting
       /\ i \in late \/ rows[i] \in {None, result[i]}

\* Unless it stays paused, every transfer ends, cancelled ones included, and
\* its row shows the verdict, unless a click on an outdated row put another
\* status there.
TransfersSettle == []<>(\A i \in 1 .. next : Settled(i))
=============================================================================
