---------------------- MODULE SettingsPersister_proofs ----------------------
(***************************************************************************)
(* Proofs about SettingsPersister: an acknowledged flush is durable, and   *)
(* the persister implements SettingsFile; for any contents, any capacity   *)
(* of the channel and any number of changes, failed writes and flushes     *)
(* that time out.                                                          *)
(***************************************************************************)
EXTENDS SettingsPersister, TLAPS

\* Whatever waits in the slot, or is being written while it is empty, is what
\* the UI thread holds.
LatestInHand ==
    /\ slot # None => slot = ui
    /\ worker.at = "write" => worker.val # None /\ (slot = None => worker.val = ui)

\* The settings of the UI thread are on their way to the disk, or there.
Underway == slot = None /\ worker.at # "write" => log[disk] = log[ui]

\* The worker serves the flush that the UI thread waits for.
Serving == caller = "wait" /\ worker.owes = flushes

FlushInv ==
    /\ caller \in {"send", "wait", "acked"} /\ ~failed => Underway
    /\ Serving => worker.at \in {"take", "write", "ack"} /\ worker.owes # None
    /\ Serving /\ worker.at \in {"write", "ack"} => slot = None
    /\ caller = "acked" => slot = None /\ worker.at # "write"
    /\ worker.owes # None => worker.at \in {"take", "write", "ack"}

IInv == TypeOK /\ HashIsOfDisk /\ LatestInHand /\ FlushInv

LEMMA InitInv == Init => IInv
<1> SUFFICES ASSUME Init PROVE IInv
    OBVIOUS
<1>1. log \in Seq(Value) /\ Len(log) = 1 /\ log[1] = Initial
    BY ValueAssumption DEF Init
<1>2. chan \in Seq(0 .. flushes) /\ Len(chan) <= ChanCap
    <2>1. chan \in Seq(0 .. flushes) /\ Len(chan) = 0
        BY DEF Init
    <2> QED BY <2>1, BoundAssumption
<1>3. worker \in Worker /\ worker.val = 0 /\ worker.owes = 0
    BY DEF Init, Worker, WorkerAt, None
<1>4. ui \in 1 .. Len(log) /\ slot \in 0 .. Len(log) /\ disk \in 1 .. Len(log)
    BY <1>1 DEF Init, None
<1>5. flushes = 0 /\ faults = 0 /\ lastSaved \in Value /\ caller \in Caller /\ failed \in BOOLEAN
    BY ValueAssumption DEF Init, Caller
<1>6. TypeOK
    BY <1>1, <1>2, <1>3, <1>4, <1>5 DEF TypeOK
<1>7. HashIsOfDisk /\ LatestInHand /\ FlushInv
    BY <1>1 DEF Init, HashIsOfDisk, LatestInHand, FlushInv, Underway, Serving, None
<1> QED BY <1>6, <1>7 DEF IInv

LEMMA ChangeInv ==
    ASSUME IInv, NEW v \in Value, Change(v)
    PROVE  IInv'
<1>1. /\ log' = Append(log, v) /\ log' \in Seq(Value) /\ Len(log') = Len(log) + 1
      /\ \A i \in 1 .. Len(log) : log'[i] = log[i]
    BY DEF IInv, TypeOK, Change
<1>2. ui' = Len(log) + 1 /\ slot' = Len(log) + 1 /\ caller' = "running"
    BY <1>1 DEF Change, SendSave
<1>3. chan' \in Seq(0 .. flushes) /\ Len(chan') <= ChanCap
    <2>1. chan \in Seq(0 .. flushes) /\ Len(chan) <= ChanCap /\ flushes \in Nat
        BY DEF IInv, TypeOK
    <2>2. Notify \in 0 .. flushes
        BY <2>1 DEF Notify
    <2>3. CASE Len(chan) < ChanCap
        <3>1. chan' = Append(chan, Notify)
            BY <2>3 DEF Change, SendSave
        <3>2. chan' \in Seq(0 .. flushes) /\ Len(chan') = Len(chan) + 1
            BY <3>1, <2>1, <2>2
        <3> QED BY <3>2, <2>1, <2>3, BoundAssumption
    <2>4. CASE ~(Len(chan) < ChanCap)
        BY <2>1, <2>4 DEF Change, SendSave
    <2> QED BY <2>3, <2>4
<1>4. TypeOK'
    BY <1>1, <1>2, <1>3 DEF IInv, TypeOK, Change, Caller, Worker
<1>5. HashIsOfDisk'
    BY <1>1, <1>2 DEF IInv, TypeOK, HashIsOfDisk, Change
<1>6. LatestInHand' /\ FlushInv'
    BY <1>1, <1>2 DEF IInv, TypeOK, LatestInHand, FlushInv, Serving, Underway, Change, None
<1> QED BY <1>4, <1>5, <1>6 DEF IInv

LEMMA FlushBeginInv == IInv /\ FlushBegin => IInv'
BY DEF IInv, TypeOK, HashIsOfDisk, LatestInHand, FlushInv, Underway, Serving, FlushBegin,
       Caller, None

LEMMA FlushSendInv == IInv /\ FlushSend => IInv'
<1> SUFFICES ASSUME IInv, FlushSend PROVE IInv'
    OBVIOUS
<1>1. chan' \in Seq(0 .. flushes') /\ Len(chan') <= ChanCap
    <2>1. chan \in Seq(0 .. flushes') /\ flushes' \in 0 .. flushes'
        BY DEF IInv, TypeOK, FlushSend
    <2> QED BY <2>1, BoundAssumption DEF IInv, TypeOK, FlushSend
<1>2. TypeOK'
    BY <1>1 DEF IInv, TypeOK, FlushSend, Caller, Worker
<1>3. HashIsOfDisk' /\ LatestInHand'
    BY DEF IInv, HashIsOfDisk, LatestInHand, FlushSend
<1>4. ~Serving'
    BY DEF IInv, TypeOK, Serving, FlushSend
<1>5. FlushInv'
    BY <1>4 DEF IInv, FlushInv, Underway, FlushSend
<1> QED BY <1>2, <1>3, <1>5 DEF IInv

LEMMA CallerInv == IInv /\ (FlushReturn \/ FlushTimeout \/ Quit) => IInv'
BY DEF IInv, TypeOK, HashIsOfDisk, LatestInHand, FlushInv, Underway, Serving, FlushReturn,
       FlushTimeout, Quit, Caller, Worker, None

LEMMA ReceiveInv == IInv /\ Receive => IInv'
<1> SUFFICES ASSUME IInv, Receive PROVE IInv'
    OBVIOUS
<1>1. Head(chan) \in 0 .. flushes /\ chan' \in Seq(0 .. flushes) /\ Len(chan') <= ChanCap
    BY BoundAssumption DEF IInv, TypeOK, Receive
<1>2. TypeOK'
    BY <1>1 DEF IInv, TypeOK, Receive, At, Worker, WorkerAt, None
<1>3. HashIsOfDisk' /\ LatestInHand' /\ FlushInv'
    BY <1>1 DEF IInv, TypeOK, HashIsOfDisk, LatestInHand, FlushInv, Underway, Serving,
       Receive, At, Notify, None
<1> QED BY <1>2, <1>3 DEF IInv

LEMMA StopWaitingInv == IInv /\ StopWaiting => IInv'
BY DEF IInv, TypeOK, HashIsOfDisk, LatestInHand, FlushInv, Underway, Serving, StopWaiting,
       At, Worker, WorkerAt, None

LEMMA TakeInv == IInv /\ Take => IInv'
BY DEF IInv, TypeOK, HashIsOfDisk, LatestInHand, FlushInv, Underway, Serving, Take, Alive,
       At, Worker, WorkerAt, None

LEMMA WriteInv == IInv /\ Write => IInv'
BY DEF IInv, TypeOK, HashIsOfDisk, LatestInHand, FlushInv, Underway, Serving, Write, Alive,
       At, Worker, WorkerAt, None

LEMMA WriteFailsInv == IInv /\ WriteFails => IInv'
BY DEF IInv, TypeOK, HashIsOfDisk, LatestInHand, FlushInv, Underway, Serving, WriteFails,
       At, Worker, WorkerAt, None

LEMMA AckInv == IInv /\ Ack => IInv'
BY DEF IInv, TypeOK, HashIsOfDisk, LatestInHand, FlushInv, Underway, Serving, Ack, At,
       Worker, WorkerAt, Caller, None

LEMMA NextInv == IInv /\ [Next]_vars => IInv'
<1> SUFFICES ASSUME IInv, [Next]_vars PROVE IInv'
    OBVIOUS
<1>1. CASE UIStep
    BY <1>1, ChangeInv, FlushBeginInv, FlushSendInv, CallerInv DEF UIStep
<1>2. CASE WorkerStep \/ WriteFails
    BY <1>2, ReceiveInv, StopWaitingInv, TakeInv, WriteInv, WriteFailsInv, AckInv
       DEF WorkerStep
<1>3. CASE UNCHANGED vars
    BY <1>3 DEF vars, IInv, TypeOK, HashIsOfDisk, LatestInHand, FlushInv, Underway, Serving
<1> QED BY <1>1, <1>2, <1>3 DEF Next

\* The inductive invariant holds in every reachable state.
THEOREM Invariance == Spec => []IInv
BY InitInv, NextInv, PTL DEF Spec

\* Every variable keeps its type; the channel never exceeds its capacity.
THEOREM TypeCorrect == Spec => []TypeOK
<1>1. IInv => TypeOK
    BY DEF IInv
<1> QED BY <1>1, Invariance, PTL

\* A flush that was acknowledged without a failed write left the settings of
\* the blocked UI thread on disk.
THEOREM FlushIsDurable == Spec => []AckMeansDurable
<1>1. IInv => AckMeansDurable
    BY DEF IInv, FlushInv, Underway, AckMeansDurable
<1> QED BY <1>1, Invariance, PTL

\* A skipped write is one that would not have changed the file.
THEOREM SkippedWritesAreIdle == Spec => []HashIsOfDisk
<1>1. IInv => HashIsOfDisk
    BY DEF IInv
<1> QED BY <1>1, Invariance, PTL

-----------------------------------------------------------------------------
(* The persister implements SettingsFile.                                  *)

\* What the worker has in hand is not older than the file, and the UI thread
\* holds the newest version.
VersionInv == ui = Len(log) /\ (worker.at = "write" => disk <= worker.val)

LEMMA VersionNext == IInv /\ VersionInv /\ [Next]_vars => VersionInv'
<1> SUFFICES ASSUME IInv, VersionInv, [Next]_vars PROVE VersionInv'
    OBVIOUS
<1>1. ASSUME NEW v \in Value, Change(v)
      PROVE  VersionInv'
    BY <1>1 DEF Change, IInv, TypeOK, VersionInv
<1>2. CASE FlushBegin \/ FlushSend \/ FlushReturn \/ FlushTimeout
    BY <1>2 DEF FlushBegin, FlushSend, FlushReturn, FlushTimeout, VersionInv
<1>3. CASE Quit
    BY <1>3 DEF Quit, IInv, TypeOK, Worker, VersionInv
<1>4. CASE Receive \/ StopWaiting \/ Ack \/ WriteFails
    BY <1>4 DEF Receive, StopWaiting, Ack, WriteFails, At, VersionInv
<1>5. CASE Take
    BY <1>5 DEF Take, At, IInv, TypeOK, LatestInHand, VersionInv
<1>6. CASE Write
    BY <1>6 DEF Write, At, VersionInv
<1>7. CASE UNCHANGED vars
    BY <1>7 DEF vars, VersionInv
<1> QED BY <1>1, <1>2, <1>3, <1>4, <1>5, <1>6, <1>7 DEF Next, UIStep, WorkerStep

\* No snapshot on its way to the file is older than the file.
THEOREM VersionsAdvance == Spec => []VersionInv
<1>1. Init => VersionInv
    BY DEF Init, VersionInv
<1> QED BY <1>1, VersionNext, Invariance, PTL DEF Spec

\* A step that changes neither the versions nor the flush, seen from outside.
LEMMA Hidden ==
    ASSUME UNCHANGED <<log, disk, failed, caller>>
    PROVE  UNCHANGED File!fileVars
BY DEF File!fileVars, FlushState

\* The UI thread: a change, or a step of flush_sync.
LEMMA UIImplements ==
    ASSUME IInv, VersionInv, UIStep
    PROVE  File!FileNext \/ UNCHANGED File!fileVars
<1>1. ASSUME NEW v \in Value, Change(v)
      PROVE  File!FileNext
    <2>1. File!Set(v)
        BY <1>1 DEF Change, FlushState, File!Set
    <2> QED BY <2>1 DEF File!FileNext
<1>2. CASE FlushBegin
    <2>1. File!Ask
        BY <1>2 DEF FlushBegin, FlushState, File!Ask
    <2> QED BY <2>1 DEF File!FileNext
<1>3. CASE FlushSend
    BY <1>3 DEF FlushSend, FlushState, File!fileVars
<1>4. CASE FlushReturn \/ FlushTimeout
    <2>1. File!Return
        BY <1>4 DEF FlushReturn, FlushTimeout, FlushState, File!Return
    <2> QED BY <2>1 DEF File!FileNext
<1>5. CASE Quit
    <2>1. disk' \in disk .. Len(log)
        BY <1>5 DEF Quit, IInv, TypeOK, Worker, VersionInv
    <2>2. File!Leave
        BY <1>5, <2>1 DEF Quit, FlushState, File!Leave
    <2> QED BY <2>2 DEF File!FileNext
<1> QED BY <1>1, <1>2, <1>3, <1>4, <1>5 DEF UIStep

\* The worker: a write, or its failure, or the ack that ends a flush.
LEMMA WorkerImplements ==
    ASSUME IInv, VersionInv, WorkerStep \/ WriteFails
    PROVE  File!FileNext \/ UNCHANGED File!fileVars
<1>1. CASE Receive \/ StopWaiting \/ Take
    BY <1>1, Hidden DEF Receive, StopWaiting, Take
<1>2. CASE Write
    <2>1. worker.val \in disk .. Len(log) /\ worker.val \in 1 .. Len(log)
        BY <1>2 DEF Write, IInv, TypeOK, Worker, VersionInv
    <2>2. FlushState # "gone" /\ FlushState' = FlushState
        BY <1>2 DEF Write, Alive, FlushState
    <2>3. File!Store(worker.val)
        BY <1>2, <2>1, <2>2 DEF Write, File!Store
    <2> QED BY <2>1, <2>3 DEF File!FileNext
<1>3. CASE WriteFails
    <2>1. FlushState # "gone" /\ FlushState' = FlushState
        BY <1>3 DEF WriteFails, Alive, FlushState
    <2>2. File!StoreFails
        BY <1>3, <2>1 DEF WriteFails, File!StoreFails
    <2> QED BY <2>2 DEF File!FileNext
<1>4. CASE Ack /\ Serving
    <2>1. failed \/ log[disk] = log[Len(log)]
        BY <1>4 DEF Ack, Serving, IInv, FlushInv, Underway, VersionInv
    <2>2. File!Succeed
        BY <1>4, <2>1 DEF Ack, Serving, FlushState, File!Succeed
    <2> QED BY <2>2 DEF File!FileNext
<1>5. CASE Ack /\ ~Serving
    BY <1>5, Hidden DEF Ack, Serving
<1> QED BY <1>1, <1>2, <1>3, <1>4, <1>5 DEF WorkerStep

\* settings.json only moves on to later versions, and a flush succeeds only
\* over the latest content, or after a write that failed.
THEOREM PersisterKeepsFile == Spec => FileKeepsUp
<1>1. Init => File!FileInit
    BY DEF Init, FlushState, File!FileInit
<1>2. IInv /\ VersionInv /\ [Next]_vars => [File!FileNext]_(File!fileVars)
    <2>1. CASE UNCHANGED vars
        BY <2>1, Hidden DEF vars
    <2> QED BY <2>1, UIImplements, WorkerImplements DEF Next
<1> QED BY <1>1, <1>2, Invariance, VersionsAdvance, PTL
        DEF Spec, FileKeepsUp, File!FileSpec

=============================================================================
