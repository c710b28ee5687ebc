-------------------------- MODULE Transfers_proofs --------------------------
(***************************************************************************)
(* Type correctness and the safety invariants of Transfers, for any        *)
(* destinations, sessions and numbers of transfers, clicks and runs.       *)
(***************************************************************************)
EXTENDS Transfers, TLAPS

Opened == InLoop \cup {"broken"}

\* The places of a worker are compared one by one everywhere.
USE DEF InLoop

\* The ids given out are those with a worker; who is over has a result; what
\* has a control in the store has a row there; who wrote its
\* last bytes has opened its destination.
Shape ==
    /\ next <= begun
    /\ \A i \in Id : worker[i] = None <=> i > next
    /\ \A i \in Id : worker[i] = "over" <=> result[i] # None
    /\ \A i \in listed : rows[i] # None
    /\ \A i \in written : worker[i] \in Opened \cup {"over"}

\* A row of this run is complete because its transfer is.
RowIsResult ==
    \A i \in Id : i <= next /\ rows[i] = "Complete" => result[i] = "Complete"

\* Whose destination is its own has no mate at work there.
Alone ==
    \A i \in Id \ shared :
        /\ i <= next /\ ((worker[i] \in InLoop /\ i \in written) \/ result[i] = "Complete") =>
              files[dest[i]] = "whole"
        /\ i <= next /\ (worker[i] \in Opened \/ result[i] = "Complete") =>
              \A m \in Mates(i) : worker[m] \notin Opened

IInv ==
    /\ TypeOK /\ Shape /\ RunningIsShown /\ HistoryIsTrue
    /\ RowIsResult /\ Alone
-----------------------------------------------------------------------------
(* What the user and the focus do to the store.                            *)

StoreOp ==
    \/ \E i \in Id : SetStatus(i, "Paused") \/ SetStatus(i, "Active") \/ Remove(i)
    \/ ClearCompleted \/ PauseAll \/ ResumeAll
    \/ \E s \in Session : FailSession(s)

\* What every operation of the store keeps.
StoreIsKept ==
    /\ rows' \in [Id -> Status \cup {None}] /\ saved' \in [Id -> Finished \cup {None}]
    /\ control' \in [Id -> {"active", "paused", "cancelled"}] /\ listed' \subseteq Id
    /\ \A i \in listed' : rows'[i] # None
    /\ \A i \in Id : rows'[i] = "Complete" => rows[i] = "Complete"
    /\ HistoryIsTrue'

(* A click, or a loss of the focus, is an operation of the store.           *)
LEMMA ClickIsStoreOp ==
    ASSUME Click \/ (\E s \in Session : LoseFocus(s))
    PROVE  StoreOp
  BY DEF Click, LoseFocus, ClickRow, ClickToolbar, StoreOp

(* What is saved is the verdict of each row that has one.                   *)
LEMMA SaveIsTrue ==
    ASSUME NEW r \in [Id -> Status \cup {None}], rows' = r, Save(r)
    PROVE  saved' \in [Id -> Finished \cup {None}] /\ HistoryIsTrue'
  BY DEF Save, HistoryIsTrue, Status, Finished, None

(* The operations of the store keep what is said of the store alone.        *)
LEMMA StoreOpKeepsStore ==
    ASSUME TypeOK, Shape, HistoryIsTrue, StoreOp
    PROVE  StoreIsKept
<1>1. ASSUME NEW i \in Id, NEW s \in {"Paused", "Active"}, SetStatus(i, s)
      PROVE  StoreIsKept
  <2>1. rows' = rows \/ (rows[i] # None /\ rows' = [rows EXCEPT ![i] = s])
    BY <1>1 DEF SetStatus, SetRow
  <2>2. control' \in [Id -> {"active", "paused", "cancelled"}]
    BY <1>1 DEF SetStatus, SetControl, TypeOK
  <2>3. saved' = saved /\ listed' = listed
    BY <1>1 DEF SetStatus
  <2> QED BY <2>1, <2>2, <2>3
          DEF StoreIsKept, TypeOK, Shape, HistoryIsTrue, Status, Finished, None
<1>2. ASSUME NEW i \in Id, Remove(i) PROVE StoreIsKept
  <2>1. rows' = [rows EXCEPT ![i] = None] /\ listed' = listed \ {i} /\ Save(rows')
    BY <1>2 DEF Remove, SetRow
  <2>2. control' \in [Id -> {"active", "paused", "cancelled"}]
    BY <1>2 DEF Remove, SetControl, TypeOK
  <2>3. rows' \in [Id -> Status \cup {None}]
    BY <2>1 DEF TypeOK
  <2>4. saved' \in [Id -> Finished \cup {None}] /\ HistoryIsTrue'
    BY <2>1, <2>3, SaveIsTrue
  <2> QED BY <2>1, <2>2, <2>3, <2>4 DEF StoreIsKept, TypeOK, Shape, None
<1>3. ASSUME ClearCompleted PROVE StoreIsKept
  <2>1. /\ rows' = [i \in Id |-> IF rows[i] \in Finished THEN None ELSE rows[i]]
        /\ listed' = {i \in listed : rows[i] \notin Finished}
        /\ control' = control /\ Save(rows')
    BY <1>3 DEF ClearCompleted
  <2>3. rows' \in [Id -> Status \cup {None}]
    BY <2>1 DEF TypeOK
  <2>4. saved' \in [Id -> Finished \cup {None}] /\ HistoryIsTrue'
    BY <2>1, <2>3, SaveIsTrue
  <2> QED BY <2>1, <2>3, <2>4 DEF StoreIsKept, TypeOK, Shape, None
<1>4. ASSUME NEW f \in {"Active", "Paused"}, NEW t \in {"Active", "Paused"},
             NEW off, NEW on \in {"active", "paused"}, Switch(f, t, off, on)
      PROVE  StoreIsKept
  <2>1. /\ rows' = [i \in Id |-> IF rows[i] = f THEN t ELSE rows[i]]
        /\ control' = [i \in Id |-> IF i \in listed /\ control[i] = off THEN on ELSE control[i]]
        /\ listed' = listed /\ saved' = saved
    BY <1>4 DEF Switch
  <2>2. control' \in [Id -> {"active", "paused", "cancelled"}]
    BY <2>1 DEF TypeOK
  <2>3. rows' \in [Id -> Status \cup {None}]
    BY <2>1 DEF TypeOK, Status
  <2> QED BY <2>1, <2>2, <2>3
          DEF StoreIsKept, TypeOK, Shape, HistoryIsTrue, Status, Finished, None
<1>5. ASSUME NEW s \in Session, FailSession(s) PROVE StoreIsKept
  <2> DEFINE hit == {i \in Id : rows[i] \in {"Active", "Paused"} /\ sess[i] = s}
  <2>1. /\ rows' = [i \in Id |-> IF i \in hit THEN "Error" ELSE rows[i]]
        /\ control' = [i \in Id |-> IF i \in hit \cap listed THEN "cancelled" ELSE control[i]]
        /\ listed' = listed /\ Save(rows')
    BY <1>5 DEF FailSession
  <2> HIDE DEF hit
  <2>2. control' \in [Id -> {"active", "paused", "cancelled"}]
    BY <2>1 DEF TypeOK
  <2>3. rows' \in [Id -> Status \cup {None}]
    BY <2>1 DEF TypeOK, Status, Finished
  <2>4. saved' \in [Id -> Finished \cup {None}] /\ HistoryIsTrue'
    BY <2>1, <2>3, SaveIsTrue
  <2> QED BY <2>1, <2>2, <2>3, <2>4 DEF StoreIsKept, TypeOK, Shape, None
<1>6. CASE PauseAll
  BY <1>4, <1>6 DEF PauseAll
<1>7. CASE ResumeAll
  BY <1>4, <1>7 DEF ResumeAll
<1> QED BY <1>1, <1>2, <1>3, <1>5, <1>6, <1>7 DEF StoreOp

(* The operations of the store keep rows and controls of running workers in *)
(* step.                                                                    *)
LEMMA StoreOpKeepsRunning ==
    ASSUME TypeOK, Shape, RunningIsShown, StoreOp, worker' = worker
    PROVE  RunningIsShown'
<1> USE DEF TypeOK, RunningIsShown
<1>1. ASSUME NEW i \in Id, NEW s \in {"Paused", "Active"}, SetStatus(i, s)
      PROVE  RunningIsShown'
  <2>1. CASE i \in listed
    <3>1. /\ rows' = [rows EXCEPT ![i] = s] /\ listed' = listed
          /\ control' = [control EXCEPT ![i] = IF s = "Active" THEN "active" ELSE "paused"]
      BY <1>1, <2>1 DEF SetStatus, SetRow, SetControl, Shape
    <3> QED BY <3>1, <2>1
  <2>2. CASE i \notin listed
    <3>1. /\ rows' = rows \/ rows' = [rows EXCEPT ![i] = s]
          /\ listed' = listed /\ control' = control
      BY <1>1, <2>2 DEF SetStatus, SetRow
    <3> QED BY <3>1, <2>2
  <2> QED BY <2>1, <2>2
<1>2. ASSUME NEW i \in Id, Remove(i) PROVE RunningIsShown'
  <2>1. /\ rows' = [rows EXCEPT ![i] = None] /\ listed' = listed \ {i}
        /\ control' = IF i \in listed THEN [control EXCEPT ![i] = "cancelled"] ELSE control
    BY <1>2 DEF Remove, SetRow, SetControl
  <2> QED BY <2>1
<1>3. ASSUME ClearCompleted PROVE RunningIsShown'
  BY <1>3 DEF ClearCompleted, Finished
<1>4. ASSUME PauseAll PROVE RunningIsShown'
  BY <1>4 DEF PauseAll, Switch
<1>5. ASSUME ResumeAll PROVE RunningIsShown'
  BY <1>5 DEF ResumeAll, Switch
<1>6. ASSUME NEW s \in Session, FailSession(s) PROVE RunningIsShown'
  <2> DEFINE hit == {i \in Id : rows[i] \in {"Active", "Paused"} /\ sess[i] = s}
  <2>1. /\ rows' = [i \in Id |-> IF i \in hit THEN "Error" ELSE rows[i]]
        /\ control' = [i \in Id |-> IF i \in hit \cap listed THEN "cancelled" ELSE control[i]]
        /\ listed' = listed
    BY <1>6 DEF FailSession
  <2> HIDE DEF hit
  <2> QED BY <2>1
<1> QED BY <1>1, <1>2, <1>3, <1>4, <1>5, <1>6 DEF StoreOp
-----------------------------------------------------------------------------
(* One step.                                                               *)

\* The steps, with the operations of the store gathered.
Steps ==
    \/ AimAtToolbar \/ (\E i \in Id : AimAtRow(i))
    \/ Restart
    \/ \E d \in Dest, s \in Session : Begin(d, s)
    \/ \E i \in Id : Work(i)
    \/ /\ StoreOp /\ UNCHANGED <<taskVars, placeVars, worldVars, begun, runs>>
       /\ aim' \in {aim, NoAim} /\ late' \in {late, late \cup {i \in Id : result[i] # None /\ rows'[i] # rows[i]}}
       /\ clicks' = clicks \/ (clicks < MaxClicks /\ clicks' = clicks + 1)

LEMMA NextIsSteps ==
    ASSUME Next PROVE Steps
<1>1. CASE Click
  BY <1>1, ClickIsStoreOp DEF Click, Steps, boundVars
<1>2. CASE \E s \in Session : LoseFocus(s)
  BY <1>2, ClickIsStoreOp DEF LoseFocus, Steps
<1> QED BY <1>1, <1>2 DEF Next, Steps

LEMMA InitInv ==
    ASSUME Init PROVE IInv
<1> USE DestAssumption, BoundAssumption DEF Init, Id
<1>1. AnyDest \in Dest /\ AnySession \in Session
  BY DEF AnyDest, AnySession
<1>2. TypeOK
  BY <1>1 DEF TypeOK, Aims, Status, Finished, Working
<1>3. Shape /\ RunningIsShown /\ HistoryIsTrue /\ RowIsResult
  BY DEF Shape, RunningIsShown, HistoryIsTrue, RowIsResult, None, Working, Finished
<1>4. Alone
  BY DEF Alone
<1> QED BY <1>2, <1>3, <1>4 DEF IInv

(* What the result does to the store.                                      *)
LEMMA ShowKeepsStore ==
    ASSUME TypeOK, Shape, HistoryIsTrue, NEW i \in Id, result[i] # None, Show(i),
           Save(rows') \/ (rows[i] = None /\ saved' = saved)
    PROVE  /\ rows' \in [Id -> Status \cup {None}] /\ saved' \in [Id -> Finished \cup {None}]
           /\ HistoryIsTrue' /\ \A j \in listed : rows'[j] # None
<1> USE DEF TypeOK
<1>1. rows' = rows \/ (rows[i] # None /\ rows' = [rows EXCEPT ![i] = result[i]])
  BY DEF Show, SetRow
<1>2. result[i] \in Finished
  OBVIOUS
<1>3. rows' \in [Id -> Status \cup {None}]
  BY <1>1, <1>2 DEF Status
<1>4. CASE Save(rows')
  BY <1>1, <1>2, <1>3, <1>4, SaveIsTrue DEF Shape, Finished, None
<1>5. CASE rows[i] = None /\ saved' = saved
  BY <1>1, <1>3, <1>5 DEF Shape, HistoryIsTrue
<1> QED BY <1>4, <1>5

(* Every step keeps the types.                                             *)
LEMMA NextTypeOK ==
    ASSUME IInv, Next PROVE TypeOK'
<1> USE DestAssumption, BoundAssumption DEF IInv, TypeOK
<1>1. CASE AimAtToolbar
  BY <1>1 DEF AimAtToolbar, Aim, Aims, storeVars, taskVars, placeVars, worldVars
<1>2. ASSUME NEW i \in Id, AimAtRow(i) PROVE TypeOK'
  BY <1>2 DEF AimAtRow, Aim, Aims, storeVars, taskVars, placeVars, worldVars
<1>3. CASE Restart
  <2>1. AnyDest \in Dest /\ AnySession \in Session
    BY DEF AnyDest, AnySession
  <2>2. rows' \in [Id -> Status \cup {None}]
    BY <1>3 DEF Restart, Status
  <2> QED BY <1>3, <2>1, <2>2 DEF Restart, Aims
<1>4. ASSUME NEW d \in Dest, NEW s \in Session, Begin(d, s) PROVE TypeOK'
  <2> DEFINE i == next + 1
  <2>1. i \in Id /\ next' \in 0 .. MaxBegun
    BY <1>4 DEF Begin, Shape, Id
  <2>2. dest' \in [Id -> Dest] /\ sess' \in [Id -> Session]
    BY <1>4, <2>1 DEF Begin
  <2>3. rows' \in [Id -> Status \cup {None}]
    BY <1>4, <2>1 DEF Begin, SetRow, Status
  <2>4. control' \in [Id -> {"active", "paused", "cancelled"}]
    BY <1>4, <2>1 DEF Begin, SetControl
  <2>5. worker' \in [Id -> Working \cup {None, "over"}]
    BY <1>4, <2>1 DEF Begin, Working
  <2> QED BY <1>4, <2>1, <2>2, <2>3, <2>4, <2>5 DEF Begin
<1>5. ASSUME NEW i \in Id, Work(i) PROVE TypeOK'
  <2> USE DEF WorkerStep, storeVars, placeVars, worldVars, boundVars
  <2>1. CASE Open(i)
    <3>1. worker' \in [Id -> Working \cup {None, "over"}]
      BY <2>1 DEF Open, GoTo, Working
    <3>2. files' \in [Dest -> {"other", "part", "whole"}]
      BY <2>1 DEF Open
    <3>3. shared' \subseteq Id
      BY <2>1 DEF Open, Mates
    <3> QED BY <2>1, <3>1, <3>2, <3>3 DEF Open, GoTo
  <2>9. CASE Look(i)
    <3>1. \E p \in Working : GoTo(i, p)
      BY <2>9 DEF Look, Working
    <3>2. worker' \in [Id -> Working \cup {None, "over"}]
      BY <3>1 DEF GoTo
    <3> QED BY <2>9, <3>2 DEF Look, GoTo
  <2>2. CASE CannotOpen(i)
    BY <2>2 DEF CannotOpen, Publish, Finished
  <2>3. CASE Write(i)
    BY <2>3 DEF Write, GoTo, Working
  <2>4. CASE Break(i)
    BY <2>4 DEF Break, LeavesLoop, GoTo, Working
  <2>5. CASE Eof(i)
    BY <2>5 DEF Eof, Publish, Finished
  <2>6. CASE CleanUp(i)
    BY <2>6 DEF CleanUp, Publish, Finished
  <2>7. CASE Tick(i)
    <3>1. rows' \in [Id -> Status \cup {None}] /\ saved' \in [Id -> Finished \cup {None}]
      BY <2>7, ShowKeepsStore DEF Tick
    <3> QED BY <2>7, <3>1 DEF Tick, Show
  <2>8. CASE Conclude(i)
    <3>1. CASE Show(i)
      <4>1. rows' \in [Id -> Status \cup {None}] /\ saved' \in [Id -> Finished \cup {None}]
        BY <2>8, <3>1, ShowKeepsStore DEF Conclude
      <4> QED BY <2>8, <3>1, <4>1 DEF Conclude, Show
    <3>2. CASE UNCHANGED <<rows, listed, control>>
      <4>1. saved' \in [Id -> Finished \cup {None}]
        BY <2>8, <3>2, SaveIsTrue DEF Conclude
      <4> QED BY <2>8, <3>2, <4>1 DEF Conclude
    <3> QED BY <2>8, <3>1, <3>2 DEF Conclude
  <2> QED BY <1>5, <2>1, <2>2, <2>3, <2>4, <2>5, <2>6, <2>7, <2>8, <2>9 DEF Work
<1>6. ASSUME StoreOp, UNCHANGED <<taskVars, placeVars, worldVars, begun, runs>>,
             aim' \in {aim, NoAim}, late' \subseteq Id,
             clicks' = clicks \/ (clicks < MaxClicks /\ clicks' = clicks + 1)
      PROVE  TypeOK'
  <2>1. StoreIsKept
    BY <1>6, StoreOpKeepsStore
  <2> QED BY <1>6, <2>1 DEF StoreIsKept, Aims, taskVars, placeVars, worldVars
<1>7. Steps
  BY NextIsSteps
<1> HIDE DEF IInv
<1>8. IInv => late \subseteq Id
  BY DEF IInv
<1> QED BY <1>1, <1>2, <1>3, <1>4, <1>5, <1>6, <1>7, <1>8 DEF Steps
(* Every step keeps the history, the shape of the store and its rows'       *)
(* verdicts.                                                               *)
LEMMA NextStore ==
    ASSUME IInv, Next PROVE HistoryIsTrue' /\ Shape' /\ RowIsResult'
<1> USE DEF IInv, TypeOK, Shape, RowIsResult
<1> DEFINE P == HistoryIsTrue' /\ Shape' /\ RowIsResult'
<1>1. CASE AimAtToolbar \/ (\E i \in Id : AimAtRow(i))
  BY <1>1 DEF AimAtToolbar, AimAtRow, Aim, storeVars, taskVars, placeVars, worldVars, HistoryIsTrue
<1>2. CASE Restart
  BY <1>2 DEF Restart, HistoryIsTrue, Id, None
<1>3. ASSUME NEW d \in Dest, NEW s \in Session, Begin(d, s) PROVE P
  <2> DEFINE i == next + 1
  <2>1. i \in Id /\ next' = i /\ begun' = begun + 1
    BY <1>3, BoundAssumption DEF Begin, Id
  <2>2. /\ rows' = [rows EXCEPT ![i] = "Active"] /\ listed' = listed \cup {i}
        /\ worker' = [worker EXCEPT ![i] = "begun"] /\ UNCHANGED <<saved, result, written>>
    BY <1>3 DEF Begin, SetRow
  <2>3. HistoryIsTrue'
    BY <2>1, <2>2 DEF HistoryIsTrue, Finished, None
  <2>4. next' <= begun' /\ \A j \in Id : worker'[j] = None <=> j > next'
    BY <2>1, <2>2 DEF Id, None
  <2>5. \A j \in Id : worker'[j] = "over" <=> result'[j] # None
    BY <2>1, <2>2 DEF Id, None
  <2>6. /\ \A j \in listed' : rows'[j] # None
        /\ \A j \in written' : worker'[j] \in Opened \cup {"over"}
    BY <2>1, <2>2 DEF Opened, Id, None
  <2>7. RowIsResult'
    BY <2>1, <2>2 DEF Id
  <2> QED BY <2>3, <2>4, <2>5, <2>6, <2>7
<1>4. ASSUME NEW i \in Id, Work(i) PROVE P
  <2> USE DEF WorkerStep, storeVars, placeVars, worldVars, boundVars
  <2>1. ASSUME NEW p \in Opened, worker[i] \in Working, GoTo(i, p), WorkerStep,
               written' \in {written, written \cup {i}}
        PROVE  P
    BY <2>1 DEF GoTo, HistoryIsTrue, Working, Opened, None
  <2>2. ASSUME NEW r \in Finished, worker[i] \in Working, Publish(i, r), WorkerStep,
               written' = written
        PROVE  P
    <3>1. worker[i] # "over" /\ worker[i] # None /\ result[i] = None
      BY <2>2 DEF Working, None
    <3> QED BY <2>2, <3>1 DEF Publish, HistoryIsTrue, Finished, None
  <2>3. CASE Open(i)
    BY <2>1, <2>3 DEF Open, Working, Opened
  <2>4. CASE CannotOpen(i)
    BY <2>2, <2>4 DEF CannotOpen, Working, Finished
  <2>5. CASE Write(i)
    BY <2>1, <2>5 DEF Write, Working, Opened
  <2>6. CASE Break(i)
    BY <2>1, <2>6 DEF Break, LeavesLoop, Working, Opened
  <2>7. CASE Eof(i)
    BY <2>2, <2>7 DEF Eof, Working, Finished
  <2>8. CASE CleanUp(i)
    BY <2>2, <2>8 DEF CleanUp, Working, Finished
  <2>12. CASE Look(i)
    <3>1. worker[i] \in Working /\ \E p \in Opened : GoTo(i, p)
      BY <2>12 DEF Look, Working, Opened
    <3> QED BY <2>1, <2>12, <3>1 DEF Look
  <2>9. ASSUME Show(i), result[i] # None, UNCHANGED <<worker, result, next, begun, written>>,
               Save(rows') \/ (rows[i] = None /\ saved' = saved)
        PROVE  P
    <3>1. HistoryIsTrue' /\ \A j \in listed : rows'[j] # None
      BY <2>9, ShowKeepsStore
    <3>2. rows' = rows \/ rows' = [rows EXCEPT ![i] = result[i]]
      BY <2>9 DEF Show, SetRow
    <3>3. listed' = listed
      BY <2>9 DEF Show
    <3>4. RowIsResult'
      BY <2>9, <3>2
    <3> QED BY <2>9, <3>1, <3>3, <3>4
  <2>10. CASE Tick(i)
    BY <2>9, <2>10 DEF Tick
  <2>11. CASE Conclude(i)
    <3>1. CASE Show(i)
      BY <2>9, <2>11, <3>1 DEF Conclude
    <3>2. CASE UNCHANGED <<rows, listed, control>>
      <4>1. HistoryIsTrue'
        BY <2>11, <3>2, SaveIsTrue DEF Conclude
      <4> QED BY <2>11, <3>2, <4>1 DEF Conclude
    <3> QED BY <2>11, <3>1, <3>2 DEF Conclude
  <2> QED BY <1>4, <2>3, <2>4, <2>5, <2>6, <2>7, <2>8, <2>10, <2>11, <2>12 DEF Work
<1>5. ASSUME StoreOp, UNCHANGED <<taskVars, placeVars, worldVars, begun, runs>> PROVE P
  <2>1. StoreIsKept
    BY <1>5, StoreOpKeepsStore
  <2> QED BY <1>5, <2>1 DEF StoreIsKept, taskVars, placeVars, worldVars
<1> QED BY <1>1, <1>2, <1>3, <1>4, <1>5, NextIsSteps DEF Steps

(* Every step keeps running workers shown.                                 *)
LEMMA NextRunning ==
    ASSUME IInv, Next PROVE RunningIsShown'
<1> USE DEF IInv, TypeOK, Shape, RunningIsShown
<1>1. CASE AimAtToolbar \/ (\E i \in Id : AimAtRow(i))
  BY <1>1 DEF AimAtToolbar, AimAtRow, Aim, storeVars, taskVars, placeVars
<1>2. CASE Restart
  BY <1>2 DEF Restart, Working, None
<1>3. ASSUME NEW d \in Dest, NEW s \in Session, Begin(d, s) PROVE RunningIsShown'
  <2> DEFINE i == next + 1
  <2>1. i \in Id
    BY <1>3, BoundAssumption DEF Begin, Id
  <2>2. /\ rows' = [rows EXCEPT ![i] = "Active"] /\ listed' = listed \cup {i}
        /\ worker' = [worker EXCEPT ![i] = "begun"]
        /\ control' = [control EXCEPT ![i] = "active"]
    BY <1>3 DEF Begin, SetRow, SetControl
  <2> HIDE DEF i
  <2> QED BY <2>1, <2>2
<1>4. ASSUME NEW i \in Id, Work(i) PROVE RunningIsShown'
  <2> USE DEF WorkerStep, storeVars, placeVars, worldVars, boundVars
  <2>1. ASSUME WorkerStep, worker[i] \in Working, NEW p, worker' = [worker EXCEPT ![i] = p]
        PROVE  RunningIsShown'
    BY <2>1
  <2>2. CASE Open(i) \/ CannotOpen(i) \/ Write(i)
    BY <2>1, <2>2 DEF Open, CannotOpen, Write, GoTo, Publish, Working
  <2>3. CASE Break(i) \/ Eof(i) \/ CleanUp(i)
    BY <2>1, <2>3 DEF Break, LeavesLoop, Eof, CleanUp, GoTo, Publish, Working
  <2>6. CASE Look(i)
    BY <2>1, <2>6 DEF Look, GoTo, Working
  <2>4. ASSUME result[i] # None, UNCHANGED <<worker, listed, control>>,
               rows' = rows \/ rows' = [rows EXCEPT ![i] = result[i]]
        PROVE  RunningIsShown'
    BY <2>4 DEF Working
  <2>5. CASE Tick(i) \/ Conclude(i)
    BY <2>4, <2>5 DEF Tick, Conclude, Show, SetRow
  <2> QED BY <1>4, <2>2, <2>3, <2>5, <2>6 DEF Work
<1>5. ASSUME StoreOp, UNCHANGED <<taskVars, placeVars, worldVars, begun, runs>>
      PROVE  RunningIsShown'
  BY <1>5, StoreOpKeepsRunning DEF taskVars
<1> QED BY <1>1, <1>2, <1>3, <1>4, <1>5, NextIsSteps DEF Steps
(* Every step leaves the files of those that are alone whole.               *)
LEMMA NextAlone ==
    ASSUME IInv, Next PROVE Alone'
<1> USE DEF IInv, TypeOK, Shape, Alone, Mates, Opened
<1>1. ASSUME UNCHANGED <<worker, result, next, dest, worldVars>> PROVE Alone'
  BY <1>1 DEF worldVars
<1>2. CASE Restart
  BY <1>2 DEF Restart, Id
<1>3. ASSUME NEW d \in Dest, NEW s \in Session, Begin(d, s) PROVE Alone'
  <2> DEFINE i == next + 1
  <2>1. i \in Id /\ next' = i /\ result[i] = None
    BY <1>3, BoundAssumption DEF Begin, Id, None
  <2>2. /\ dest' = [dest EXCEPT ![i] = d] /\ worker' = [worker EXCEPT ![i] = "begun"]
        /\ shared' = shared \ {i} /\ UNCHANGED <<result, files, written>>
    BY <1>3 DEF Begin
  <2>3. worker'[i] = "begun" /\ result'[i] # "Complete"
    BY <2>1, <2>2 DEF None
  <2>4. \A j \in Id : j <= next' /\ j # i => j <= next
    BY <2>1 DEF Id
  <2> HIDE DEF i
  <2>5. ASSUME NEW j \in Id \ shared, j # i, j <= next
        PROVE  /\ (worker'[j] \in InLoop /\ j \in written') \/ result'[j] = "Complete" =>
                     files'[dest'[j]] = "whole"
               /\ worker'[j] \in Opened \/ result'[j] = "Complete" =>
                     \A m \in {k \in Id \ {j} : dest'[k] = dest'[j]} : worker'[m] \notin Opened
    BY <2>1, <2>2, <2>5
  <2> QED BY <2>2, <2>3, <2>4, <2>5
<1>4. ASSUME NEW i \in Id, Open(i) PROVE Alone'
  <2>1. /\ worker' = [worker EXCEPT ![i] = "looking"] /\ worker[i] = "begun"
        /\ files' = [files EXCEPT ![dest[i]] = "part"]
        /\ shared' = shared \cup Mates(i)
                       \cup {j \in {i} : \E m \in Mates(i) : worker[m] \in Working}
        /\ UNCHANGED <<next, dest, result, written>>
    BY <1>4 DEF Open, GoTo, WorkerStep, placeVars
  <2>2. result[i] # "Complete" /\ i \notin written
    BY <2>1 DEF None
  <2>3. ASSUME NEW j \in Id \ shared', j # i
        PROVE  dest[j] # dest[i] /\ j \notin shared
    BY <2>1, <2>3
  <2>4. ASSUME i \notin shared' PROVE \A m \in Mates(i) : worker'[m] \notin Opened
    BY <2>1, <2>4 DEF Working
  <2> QED BY <2>1, <2>2, <2>3, <2>4
<1>5. ASSUME NEW i \in Id, Write(i) PROVE Alone'
  <2>1. /\ worker' = [worker EXCEPT ![i] = "looking"] /\ worker[i] = "busy"
        /\ files' = [files EXCEPT ![dest[i]] = "whole"]
        /\ written' = written \cup {i}
        /\ UNCHANGED <<next, dest, result, shared>>
    BY <1>5 DEF Write, GoTo, WorkerStep, placeVars
  <2> QED BY <2>1
<1>6. ASSUME NEW i \in Id, Break(i) PROVE Alone'
  BY <1>6 DEF Break, LeavesLoop, GoTo, WorkerStep, placeVars, worldVars
<1>14. ASSUME NEW i \in Id, Look(i) PROVE Alone'
  BY <1>14 DEF Look, GoTo, WorkerStep, placeVars, worldVars
<1>7. ASSUME NEW i \in Id, worker[i] \notin Opened, NEW r, r # "Complete",
             Publish(i, r), UNCHANGED <<files, written, shared, next, dest>>
      PROVE  Alone'
  BY <1>7 DEF Publish
<1>8. ASSUME NEW i \in Id, Eof(i) PROVE Alone'
  BY <1>8 DEF Eof, Publish, WorkerStep, placeVars, worldVars
<1>9. ASSUME NEW i \in Id, CleanUp(i) PROVE Alone'
  <2>1. /\ worker' = [worker EXCEPT ![i] = "over"] /\ worker[i] = "broken"
        /\ result' = [result EXCEPT ![i] = "Error"]
        /\ UNCHANGED <<next, dest, written, shared>>
        /\ files' = files \/ files' = [files EXCEPT ![dest[i]] = "other"]
    BY <1>9 DEF CleanUp, Publish, WorkerStep, placeVars
  <2>2. ASSUME NEW j \in Id \ shared, j # i, dest[j] = dest[i], j <= next
        PROVE  ~(worker[j] \in Opened \/ result[j] = "Complete")
    BY <2>1, <2>2
  <2> QED BY <2>1, <2>2
<1>10. ASSUME NEW i \in Id, CannotOpen(i) PROVE Alone'
  BY <1>7, <1>10 DEF CannotOpen, WorkerStep, placeVars, worldVars
<1>11. CASE AimAtToolbar \/ (\E i \in Id : AimAtRow(i))
  BY <1>1, <1>11 DEF AimAtToolbar, AimAtRow, Aim, taskVars, placeVars, worldVars
<1>12. CASE \E i \in Id : Tick(i) \/ Conclude(i)
  BY <1>1, <1>12 DEF Tick, Conclude, placeVars, worldVars
<1>13. CASE UNCHANGED <<taskVars, placeVars, worldVars, begun, runs>>
  BY <1>1, <1>13 DEF taskVars, placeVars, worldVars
<1> QED BY <1>2, <1>3, <1>4, <1>5, <1>6, <1>8, <1>9, <1>10, <1>11, <1>12, <1>13, <1>14,
           NextIsSteps
        DEF Steps, Work

-----------------------------------------------------------------------------
(* Theorems.                                                               *)

(* Nothing moves without a step.                                           *)
LEMMA Stutters ==
    ASSUME IInv, UNCHANGED vars PROVE IInv'
  BY DEF IInv, TypeOK, Shape, RunningIsShown, HistoryIsTrue, RowIsResult, Alone, Mates,
         vars, storeVars, taskVars, placeVars, worldVars, boundVars

\* What the proofs carry from state to state, in every behaviour.
THEOREM Inductive == Spec => []IInv
<1>1. IInv /\ [Next]_vars => IInv'
  BY NextTypeOK, NextStore, NextRunning, NextAlone, Stutters DEF IInv
<1> QED BY InitInv, <1>1, PTL DEF Spec

\* The variables of the store and of the tasks have their types, always.
THEOREM TypeCorrect == Spec => []TypeOK
  BY Inductive, PTL DEF IInv

\* No worker runs that the manager does not show and cannot stop, however
\* clicks on outdated rows, losses of focus and results interleave.
THEOREM NothingRunsUnseen == Spec => []RunningIsShown
  BY Inductive, PTL DEF IInv

\* The history on disk is what the manager shows, and a restart brings
\* nothing back that was removed.
THEOREM HistoryIsKept == Spec => []HistoryIsTrue
  BY Inductive, PTL DEF IInv

\* What is shown as complete is whole, whoever failed or cancelled what
\* meanwhile, as long as no two transfers meet at one destination.
THEOREM CompleteIsWhole == Spec => []CompleteMeansWhole
<1>1. ASSUME IInv PROVE CompleteMeansWhole
  <2> SUFFICES ASSUME NEW i \in 1 .. next, rows[i] = "Complete", i \notin shared
               PROVE  files[dest[i]] = "whole"
    BY DEF CompleteMeansWhole
  <2>1. next \in 0 .. MaxBegun
    BY <1>1 DEF IInv, TypeOK
  <2>2. i \in Id /\ i <= next
    BY <2>1, BoundAssumption DEF Id
  <2> QED BY <1>1, <2>2 DEF IInv, RowIsResult, Alone
<1> QED BY Inductive, <1>1, PTL

\* What a step does to transfer i once it was removed.
StaysGone(i) == rows'[i] = None /\ (worker'[i] = "busy" => worker[i] = "busy")

\* A removal is final until the program ends: the read or write that the worker
\* awaits when it happens is the last, and nothing shows the transfer again,
\* whatever the ticker, the task and the other clicks are about to do to it.
THEOREM RemovedForGood == Spec => RemovalIsFinal
<1>1. ASSUME IInv, [Next]_vars, NEW i \in Id, Gone(i), runs' = runs
      PROVE  StaysGone(i)
  <2> USE <1>1 DEF IInv, TypeOK, Gone, StaysGone
  <2>1. worker[i] \in Working => control[i] = "cancelled"
    BY DEF RunningIsShown, Shape
  <2>2. i \notin listed
    BY DEF Shape
  <2>3. CASE UNCHANGED vars
    BY <2>3 DEF vars, storeVars, taskVars
  <2>4. CASE AimAtToolbar \/ (\E j \in Id : AimAtRow(j))
    BY <2>4 DEF AimAtToolbar, AimAtRow, Aim, storeVars, taskVars
  <2>5. CASE Restart
    BY <2>5 DEF Restart
  <2>6. ASSUME NEW d \in Dest, NEW s \in Session, Begin(d, s)
        PROVE  StaysGone(i)
    BY <2>6 DEF Begin, SetRow, Id
  <2>7. ASSUME NEW j \in Id, Work(j)
        PROVE  StaysGone(i)
    <3>1. CASE j # i
      BY <2>7, <3>1 DEF Work, WorkerStep, storeVars, Open, CannotOpen, Look, Write, Break, Eof,
                        CleanUp, Tick, Conclude, Show, SetRow, GoTo, Publish
    <3>2. CASE j = i
      BY <2>1, <2>7, <3>2 DEF Work, WorkerStep, storeVars, Open, CannotOpen, Look, Write, Break, Eof,
                        CleanUp, Tick, Conclude, Show, GoTo, Publish, Working
    <3> QED BY <3>1, <3>2
  <2>8. ASSUME StoreOp, UNCHANGED taskVars
        PROVE  StaysGone(i)
    <3>1. rows'[i] = None
      BY <2>2, <2>8 DEF StoreOp, SetStatus, SetRow, Remove, ClearCompleted, PauseAll, ResumeAll,
                        Switch, FailSession, None, Finished
    <3> QED BY <2>8, <3>1 DEF taskVars
  <2> QED BY <2>3, <2>4, <2>5, <2>6, <2>7, <2>8, NextIsSteps DEF Steps
<1>2. IInv /\ [Next]_vars => \A i \in Id : Gone(i) /\ runs' = runs => StaysGone(i)
  BY <1>1
<1>3. IInv /\ [Next]_vars =>
        [\A i \in Id : Gone(i) /\ runs' = runs =>
            rows'[i] = None /\ (worker'[i] = "busy" => worker[i] = "busy")]_vars
  BY <1>2 DEF StaysGone
<1> QED BY <1>3, Inductive, PTL DEF Spec, RemovalIsFinal

=============================================================================
