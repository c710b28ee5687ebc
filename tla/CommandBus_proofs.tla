-------------------------- MODULE CommandBus_proofs --------------------------
(***************************************************************************)
(* Proofs about CommandBus: type correctness, no stray child, one worker   *)
(* per command, cancel_scope's reach, no start after a cancel, and that    *)
(* the bus implements OneShotCommands; for any number of commands, lanes,  *)
(* workers, scopes and failing system calls.                               *)
(***************************************************************************)
EXTENDS CommandBus, TLAPS

NoDuplicates(q) ==
    \A i, k \in 1 .. Len(q) : q[i] = q[k] => i = k

\* A command on its way to a worker: no answer and no child yet.
Untouched(j) == answer[j] = "none" /\ child[j] = "none" /\ ~Attended(j)

QueueInv ==
    \A l \in Lane :
        /\ NoDuplicates(queue[l])
        /\ \A j \in Job : Holds(queue[l], j) =>
              JobLane[j] = l /\ j \in submitted \ pushing /\ Untouched(j)

PushInv == \A j \in pushing : Untouched(j)

FreshInv == \A j \in Job \ submitted : Untouched(j)

\* Where a worker is says what became of the child of its command.
Progress(w) ==
    LET c == child[task[w]] IN
    /\ pc[w] \in {"popped", "start"} => c = "none"
    /\ pc[w] \in {"spawned", "published", "check", "reap"}
          => c \in {"running", "exited", "killed"}
    /\ pc[w] = "join" => c = "reaped"
    /\ pc[w] = "answer" => verdict[w] = "error" \/ c = "none"

TaskInv ==
    /\ \A w \in Worker :
          IF pc[w] \in {"ready", "parked"} THEN task[w] = NoJob
          ELSE /\ task[w] \in submitted \ pushing
               /\ answer[task[w]] = "none"
               /\ Progress(w)
    /\ \A v, w \in Worker : task[v] = task[w] /\ task[v] # NoJob => v = w

IInv == TypeOK /\ QueueInv /\ PushInv /\ FreshInv /\ TaskInv /\ NoStrayChild /\ ScopeKnowsItsJobs

-----------------------------------------------------------------------------
\* A command appended to a queue that does not hold it is then held by it.
LEMMA AppendHolds ==
    ASSUME NEW q \in Seq(Job), NEW j \in Job, NoDuplicates(q), ~Holds(q, j)
    PROVE  /\ Append(q, j) \in Seq(Job)
           /\ NoDuplicates(Append(q, j))
           /\ \A k \in Job : Holds(Append(q, j), k) <=> Holds(q, k) \/ k = j
<1>1. Append(q, j) \in Seq(Job) /\ Len(Append(q, j)) = Len(q) + 1
    OBVIOUS
<1>2. \A i \in 1 .. Len(q) : Append(q, j)[i] = q[i]
    OBVIOUS
<1>3. Append(q, j)[Len(q) + 1] = j
    OBVIOUS
<1>4. NoDuplicates(Append(q, j))
    BY <1>1, <1>2, <1>3 DEF NoDuplicates, Holds
<1>5. \A k \in Job : Holds(Append(q, j), k) <=> Holds(q, k) \/ k = j
    BY <1>1, <1>2, <1>3 DEF Holds
<1> QED BY <1>1, <1>4, <1>5

\* Taking the head of a queue without duplicates leaves the other commands.
LEMMA TailHolds ==
    ASSUME NEW q \in Seq(Job), q # <<>>, NoDuplicates(q)
    PROVE  /\ Head(q) \in Job /\ Tail(q) \in Seq(Job)
           /\ NoDuplicates(Tail(q))
           /\ Holds(q, Head(q)) /\ ~Holds(Tail(q), Head(q))
           /\ \A k \in Job : Holds(Tail(q), k) => Holds(q, k)
<1>1. Head(q) \in Job /\ Tail(q) \in Seq(Job) /\ Len(Tail(q)) = Len(q) - 1 /\ Len(q) \in Nat \ {0}
    OBVIOUS
<1>2. \A i \in 1 .. Len(Tail(q)) : Tail(q)[i] = q[i + 1]
    OBVIOUS
<1>3. Head(q) = q[1]
    OBVIOUS
<1>4. NoDuplicates(Tail(q))
    BY <1>1, <1>2 DEF NoDuplicates
<1>5. Holds(q, Head(q)) /\ ~Holds(Tail(q), Head(q))
    BY <1>1, <1>2, <1>3 DEF NoDuplicates, Holds
<1>6. \A k \in Job : Holds(Tail(q), k) => Holds(q, k)
    BY <1>1, <1>2 DEF Holds
<1> QED BY <1>1, <1>4, <1>5, <1>6

-----------------------------------------------------------------------------
LEMMA InitInv == Init => IInv
<1> SUFFICES ASSUME Init PROVE IInv
    OBVIOUS
<1>1. TypeOK
    BY PoolAssumption, CommandAssumption DEF Init, TypeOK, PC, Answer, Child, Pipe
<1>2. QueueInv
    <2>1. \A l \in Lane : queue[l] = <<>>
        BY DEF Init
    <2> QED BY <2>1 DEF QueueInv, NoDuplicates, Holds
<1>3. PushInv /\ FreshInv /\ TaskInv /\ NoStrayChild /\ ScopeKnowsItsJobs
    BY PoolAssumption DEF Init, PushInv, FreshInv, TaskInv, NoStrayChild,
       ScopeKnowsItsJobs, Untouched, Attended
<1> QED BY <1>1, <1>2, <1>3 DEF IInv

\* A command registered is untouched, and its scope knows it.
LEMMA RegisterInv ==
    ASSUME IInv, NEW j \in Job, Register(j)
    PROVE  IInv'
<1>1. TypeOK'
    BY CommandAssumption DEF IInv, TypeOK, PC, Answer, Child, Pipe, TaskInv, Register, Pruned,
       Alive, callerVars, cancelVars, workerVars, childVars
<1>2. QueueInv' /\ PushInv' /\ FreshInv'
    BY PoolAssumption DEF IInv, TypeOK, QueueInv, PushInv, FreshInv, TaskInv, Untouched,
       Attended, Register, Pruned, Alive, callerVars, cancelVars, workerVars, childVars
<1>3. TaskInv'
    BY PoolAssumption DEF IInv, TypeOK, TaskInv, Progress, FreshInv, PushInv, Untouched,
       Attended, Register, Pruned, Alive, callerVars, cancelVars, workerVars, childVars
<1>4. NoStrayChild'
    BY PoolAssumption DEF IInv, TypeOK, TaskInv, Progress, NoStrayChild, FreshInv, Untouched,
       Attended, Register, Pruned, Alive, callerVars, cancelVars, workerVars, childVars
<1>5. ScopeKnowsItsJobs'
    BY PoolAssumption DEF IInv, TypeOK, ScopeKnowsItsJobs, Register, Pruned, Alive, callerVars,
       cancelVars, workerVars, childVars
<1> QED BY <1>1, <1>2, <1>3, <1>4, <1>5 DEF IInv

\* Letting go of a handle changes nothing the invariant speaks of.
LEMMA DropInv ==
    ASSUME IInv, NEW j \in Job, Drop(j)
    PROVE  IInv'
<1>1. TypeOK'
    BY CommandAssumption DEF IInv, TypeOK, PC, Answer, Child, Pipe, TaskInv, Drop, callerVars,
       cancelVars, workerVars, childVars
<1>2. QueueInv' /\ PushInv' /\ FreshInv'
    BY PoolAssumption DEF IInv, TypeOK, QueueInv, PushInv, FreshInv, TaskInv, Untouched,
       Attended, Drop, callerVars, cancelVars, workerVars, childVars
<1>3. TaskInv'
    BY PoolAssumption DEF IInv, TypeOK, TaskInv, Progress, FreshInv, PushInv, Untouched,
       Attended, Drop, callerVars, cancelVars, workerVars, childVars
<1>4. NoStrayChild'
    BY PoolAssumption DEF IInv, TypeOK, TaskInv, Progress, NoStrayChild, FreshInv, Untouched,
       Attended, Drop, callerVars, cancelVars, workerVars, childVars
<1>5. ScopeKnowsItsJobs'
    BY PoolAssumption DEF IInv, TypeOK, ScopeKnowsItsJobs, Drop, callerVars, cancelVars,
       workerVars, childVars
<1> QED BY <1>1, <1>2, <1>3, <1>4, <1>5 DEF IInv

\* A flag raised by cancel() changes no child.
LEMMA CancelInv ==
    ASSUME IInv, NEW j \in Job, Cancel(j)
    PROVE  IInv'
<1>1. TypeOK'
    BY CommandAssumption DEF IInv, TypeOK, PC, Answer, Child, Pipe, TaskInv, Cancel, Flag,
       callerVars, cancelVars, workerVars, childVars
<1>2. QueueInv' /\ PushInv' /\ FreshInv'
    BY PoolAssumption DEF IInv, TypeOK, QueueInv, PushInv, FreshInv, TaskInv, Untouched,
       Attended, Cancel, Flag, callerVars, cancelVars, workerVars, childVars
<1>3. TaskInv'
    BY PoolAssumption DEF IInv, TypeOK, TaskInv, Progress, FreshInv, PushInv, Untouched,
       Attended, Cancel, Flag, callerVars, cancelVars, workerVars, childVars
<1>4. NoStrayChild'
    BY PoolAssumption DEF IInv, TypeOK, TaskInv, Progress, NoStrayChild, FreshInv, Untouched,
       Attended, Cancel, Flag, callerVars, cancelVars, workerVars, childVars
<1>5. ScopeKnowsItsJobs'
    BY PoolAssumption DEF IInv, TypeOK, ScopeKnowsItsJobs, Cancel, Flag, callerVars, cancelVars,
       workerVars, childVars
<1> QED BY <1>1, <1>2, <1>3, <1>4, <1>5 DEF IInv

\* Every command that the scope forgets is flagged.
LEMMA CancelScopeInv ==
    ASSUME IInv, NEW s \in Scope, CancelScope(s)
    PROVE  IInv'
<1>1. TypeOK'
    BY CommandAssumption DEF IInv, TypeOK, PC, Answer, Child, Pipe, TaskInv, CancelScope, Flag,
       Pruned, Alive, callerVars, cancelVars, workerVars, childVars
<1>2. QueueInv' /\ PushInv' /\ FreshInv'
    BY PoolAssumption DEF IInv, TypeOK, QueueInv, PushInv, FreshInv, TaskInv, Untouched,
       Attended, CancelScope, Flag, Pruned, Alive, callerVars, cancelVars, workerVars, childVars
<1>3. TaskInv'
    BY PoolAssumption DEF IInv, TypeOK, TaskInv, Progress, FreshInv, PushInv, Untouched,
       Attended, CancelScope, Flag, Pruned, Alive, callerVars, cancelVars, workerVars, childVars
<1>4. NoStrayChild'
    BY PoolAssumption DEF IInv, TypeOK, TaskInv, Progress, NoStrayChild, FreshInv, Untouched,
       Attended, CancelScope, Flag, Pruned, Alive, callerVars, cancelVars, workerVars, childVars
<1>5. ScopeKnowsItsJobs'
    BY PoolAssumption DEF IInv, TypeOK, ScopeKnowsItsJobs, CancelScope, Flag, Pruned, Alive,
       callerVars, cancelVars, workerVars, childVars
<1> QED BY <1>1, <1>2, <1>3, <1>4, <1>5 DEF IInv

\* A running child that is killed is still one to be reaped.
LEMMA KillInv ==
    ASSUME IInv, NEW j \in Job, Kill(j)
    PROVE  IInv'
<1>1. TypeOK'
    BY CommandAssumption DEF IInv, TypeOK, PC, Answer, Child, Pipe, TaskInv, Kill, callerVars,
       cancelVars, workerVars, childVars
<1>2. QueueInv' /\ PushInv' /\ FreshInv'
    BY PoolAssumption DEF IInv, TypeOK, QueueInv, PushInv, FreshInv, TaskInv, Untouched,
       Attended, Kill, callerVars, cancelVars, workerVars, childVars
<1>3. TaskInv'
    BY PoolAssumption DEF IInv, TypeOK, TaskInv, Progress, FreshInv, PushInv, Untouched,
       Attended, Kill, callerVars, cancelVars, workerVars, childVars
<1>4. NoStrayChild'
    BY PoolAssumption DEF IInv, TypeOK, TaskInv, Progress, NoStrayChild, FreshInv, Untouched,
       Attended, Kill, callerVars, cancelVars, workerVars, childVars
<1>5. ScopeKnowsItsJobs'
    BY PoolAssumption DEF IInv, TypeOK, ScopeKnowsItsJobs, Kill, callerVars, cancelVars,
       workerVars, childVars
<1> QED BY <1>1, <1>2, <1>3, <1>4, <1>5 DEF IInv

\* An idle worker stays without a job.
LEMMA ParkInv ==
    ASSUME IInv, NEW w \in Worker, Park(w)
    PROVE  IInv'
<1>1. TypeOK'
    BY CommandAssumption DEF IInv, TypeOK, PC, Answer, Child, Pipe, TaskInv, Park, Goto,
       callerVars, cancelVars, workerVars, childVars
<1>2. QueueInv' /\ PushInv' /\ FreshInv'
    BY PoolAssumption DEF IInv, TypeOK, QueueInv, PushInv, FreshInv, TaskInv, Untouched,
       Attended, Park, Goto, callerVars, cancelVars, workerVars, childVars
<1>3. TaskInv'
    BY PoolAssumption DEF IInv, TypeOK, TaskInv, Progress, FreshInv, PushInv, Untouched,
       Attended, Park, Goto, callerVars, cancelVars, workerVars, childVars
<1>4. NoStrayChild'
    BY PoolAssumption DEF IInv, TypeOK, TaskInv, Progress, NoStrayChild, FreshInv, Untouched,
       Attended, Park, Goto, callerVars, cancelVars, workerVars, childVars
<1>5. ScopeKnowsItsJobs'
    BY PoolAssumption DEF IInv, TypeOK, ScopeKnowsItsJobs, Park, Goto, callerVars, cancelVars,
       workerVars, childVars
<1> QED BY <1>1, <1>2, <1>3, <1>4, <1>5 DEF IInv

\* So does one that wakes up.
LEMMA SpuriousWakeupInv ==
    ASSUME IInv, NEW w \in Worker, SpuriousWakeup(w)
    PROVE  IInv'
<1>1. TypeOK'
    BY CommandAssumption DEF IInv, TypeOK, PC, Answer, Child, Pipe, TaskInv, SpuriousWakeup,
       Goto, callerVars, cancelVars, workerVars, childVars
<1>2. QueueInv' /\ PushInv' /\ FreshInv'
    BY PoolAssumption DEF IInv, TypeOK, QueueInv, PushInv, FreshInv, TaskInv, Untouched,
       Attended, SpuriousWakeup, Goto, callerVars, cancelVars, workerVars, childVars
<1>3. TaskInv'
    BY PoolAssumption DEF IInv, TypeOK, TaskInv, Progress, FreshInv, PushInv, Untouched,
       Attended, SpuriousWakeup, Goto, callerVars, cancelVars, workerVars, childVars
<1>4. NoStrayChild'
    BY PoolAssumption DEF IInv, TypeOK, TaskInv, Progress, NoStrayChild, FreshInv, Untouched,
       Attended, SpuriousWakeup, Goto, callerVars, cancelVars, workerVars, childVars
<1>5. ScopeKnowsItsJobs'
    BY PoolAssumption DEF IInv, TypeOK, ScopeKnowsItsJobs, SpuriousWakeup, Goto, callerVars,
       cancelVars, workerVars, childVars
<1> QED BY <1>1, <1>2, <1>3, <1>4, <1>5 DEF IInv

\* A command refused before its start has no child.
LEMMA BeginInv ==
    ASSUME IInv, NEW w \in Worker, Begin(w)
    PROVE  IInv'
<1>1. TypeOK'
    BY CommandAssumption DEF IInv, TypeOK, PC, Answer, Child, Pipe, TaskInv, Begin, Goto,
       Conclude, callerVars, cancelVars, workerVars, childVars
<1>2. QueueInv' /\ PushInv' /\ FreshInv'
    BY PoolAssumption DEF IInv, TypeOK, QueueInv, PushInv, FreshInv, TaskInv, Untouched,
       Attended, Begin, Goto, Conclude, callerVars, cancelVars, workerVars, childVars
<1>3. TaskInv'
    BY PoolAssumption DEF IInv, TypeOK, TaskInv, Progress, FreshInv, PushInv, Untouched,
       Attended, Begin, Goto, Conclude, callerVars, cancelVars, workerVars, childVars
<1>4. NoStrayChild'
    BY PoolAssumption DEF IInv, TypeOK, TaskInv, Progress, NoStrayChild, FreshInv, Untouched,
       Attended, Begin, Goto, Conclude, callerVars, cancelVars, workerVars, childVars
<1>5. ScopeKnowsItsJobs'
    BY PoolAssumption DEF IInv, TypeOK, ScopeKnowsItsJobs, Begin, Goto, Conclude, callerVars,
       cancelVars, workerVars, childVars
<1> QED BY <1>1, <1>2, <1>3, <1>4, <1>5 DEF IInv

\* The child of an attended command.
LEMMA SpawnInv ==
    ASSUME IInv, NEW w \in Worker, Spawn(w)
    PROVE  IInv'
<1>1. TypeOK'
    BY CommandAssumption DEF IInv, TypeOK, PC, Answer, Child, Pipe, TaskInv, Spawn, Goto,
       callerVars, cancelVars, workerVars, childVars
<1>2. QueueInv' /\ PushInv' /\ FreshInv'
    BY PoolAssumption DEF IInv, TypeOK, QueueInv, PushInv, FreshInv, TaskInv, Untouched,
       Attended, Spawn, Goto, callerVars, cancelVars, workerVars, childVars
<1>3. TaskInv'
    BY PoolAssumption DEF IInv, TypeOK, TaskInv, Progress, FreshInv, PushInv, Untouched,
       Attended, Spawn, Goto, callerVars, cancelVars, workerVars, childVars
<1>4. NoStrayChild'
    BY PoolAssumption DEF IInv, TypeOK, TaskInv, Progress, NoStrayChild, FreshInv, Untouched,
       Attended, Spawn, Goto, callerVars, cancelVars, workerVars, childVars
<1>5. ScopeKnowsItsJobs'
    BY PoolAssumption DEF IInv, TypeOK, ScopeKnowsItsJobs, Spawn, Goto, callerVars, cancelVars,
       workerVars, childVars
<1> QED BY <1>1, <1>2, <1>3, <1>4, <1>5 DEF IInv

\* A child that runs on alone is the one of a command answered with an error.
LEMMA SpawnFailsInv ==
    ASSUME IInv, NEW w \in Worker, SpawnFails(w)
    PROVE  IInv'
<1>1. TypeOK'
    BY CommandAssumption DEF IInv, TypeOK, PC, Answer, Child, Pipe, TaskInv, SpawnFails, Goto,
       Conclude, Fault, callerVars, cancelVars, workerVars, childVars
<1>2. QueueInv' /\ PushInv' /\ FreshInv'
    BY PoolAssumption DEF IInv, TypeOK, QueueInv, PushInv, FreshInv, TaskInv, Untouched,
       Attended, SpawnFails, Goto, Conclude, Fault, callerVars, cancelVars, workerVars,
       childVars
<1>3. TaskInv'
    BY PoolAssumption DEF IInv, TypeOK, TaskInv, Progress, FreshInv, PushInv, Untouched,
       Attended, SpawnFails, Goto, Conclude, Fault, callerVars, cancelVars, workerVars,
       childVars
<1>4. NoStrayChild'
    BY PoolAssumption DEF IInv, TypeOK, TaskInv, Progress, NoStrayChild, FreshInv, Untouched,
       Attended, SpawnFails, Goto, Conclude, Fault, callerVars, cancelVars, workerVars,
       childVars
<1>5. ScopeKnowsItsJobs'
    BY PoolAssumption DEF IInv, TypeOK, ScopeKnowsItsJobs, SpawnFails, Goto, Conclude, Fault,
       callerVars, cancelVars, workerVars, childVars
<1> QED BY <1>1, <1>2, <1>3, <1>4, <1>5 DEF IInv

\* The handle is out; the child is as it was.
LEMMA PublishInv ==
    ASSUME IInv, NEW w \in Worker, Publish(w)
    PROVE  IInv'
<1>1. TypeOK'
    BY CommandAssumption DEF IInv, TypeOK, PC, Answer, Child, Pipe, TaskInv, Publish, Goto,
       callerVars, cancelVars, workerVars, childVars
<1>2. QueueInv' /\ PushInv' /\ FreshInv'
    BY PoolAssumption DEF IInv, TypeOK, QueueInv, PushInv, FreshInv, TaskInv, Untouched,
       Attended, Publish, Goto, callerVars, cancelVars, workerVars, childVars
<1>3. TaskInv'
    BY PoolAssumption DEF IInv, TypeOK, TaskInv, Progress, FreshInv, PushInv, Untouched,
       Attended, Publish, Goto, callerVars, cancelVars, workerVars, childVars
<1>4. NoStrayChild'
    BY PoolAssumption DEF IInv, TypeOK, TaskInv, Progress, NoStrayChild, FreshInv, Untouched,
       Attended, Publish, Goto, callerVars, cancelVars, workerVars, childVars
<1>5. ScopeKnowsItsJobs'
    BY PoolAssumption DEF IInv, TypeOK, ScopeKnowsItsJobs, Publish, Goto, callerVars,
       cancelVars, workerVars, childVars
<1> QED BY <1>1, <1>2, <1>3, <1>4, <1>5 DEF IInv

\* A cancelled child is reaped before its answer.
LEMMA CheckCancelledInv ==
    ASSUME IInv, NEW w \in Worker, CheckCancelled(w)
    PROVE  IInv'
<1>1. TypeOK'
    BY CommandAssumption DEF IInv, TypeOK, PC, Answer, Child, Pipe, TaskInv, CheckCancelled,
       Goto, Conclude, KillAndReap, callerVars, cancelVars, workerVars, childVars
<1>2. QueueInv' /\ PushInv' /\ FreshInv'
    BY PoolAssumption DEF IInv, TypeOK, QueueInv, PushInv, FreshInv, TaskInv, Untouched,
       Attended, CheckCancelled, Goto, Conclude, KillAndReap, callerVars, cancelVars,
       workerVars, childVars
<1>3. TaskInv'
    BY PoolAssumption DEF IInv, TypeOK, TaskInv, Progress, FreshInv, PushInv, Untouched,
       Attended, CheckCancelled, Goto, Conclude, KillAndReap, callerVars, cancelVars,
       workerVars, childVars
<1>4. NoStrayChild'
    BY PoolAssumption DEF IInv, TypeOK, TaskInv, Progress, NoStrayChild, FreshInv, Untouched,
       Attended, CheckCancelled, Goto, Conclude, KillAndReap, callerVars, cancelVars,
       workerVars, childVars
<1>5. ScopeKnowsItsJobs'
    BY PoolAssumption DEF IInv, TypeOK, ScopeKnowsItsJobs, CheckCancelled, Goto, Conclude,
       KillAndReap, callerVars, cancelVars, workerVars, childVars
<1> QED BY <1>1, <1>2, <1>3, <1>4, <1>5 DEF IInv

\* So is one that exited, was killed or ran out of time.
LEMMA ReapInv ==
    ASSUME IInv, NEW w \in Worker, Reap(w)
    PROVE  IInv'
<1>0. /\ UNCHANGED <<callerVars, cancelVars, task, published, answer, pipe, expired, faults>>
      /\ pc[w] = "reap"
      /\ \/ /\ child' = [child EXCEPT ![task[w]] = "reaped"]
            /\ \E v \in Answer : verdict' = [verdict EXCEPT ![w] = v]
            /\ pc' = [pc EXCEPT ![w] = "join"]
         \/ UNCHANGED <<child, verdict>> /\ pc' = [pc EXCEPT ![w] = "check"]
    <2>1. child[task[w]] \in {"running", "exited", "killed"}
        BY DEF IInv, TaskInv, Progress, Reap
    <2>2. CASE child[task[w]] \in {"exited", "killed"}
        BY <2>2 DEF Reap, Conclude, Goto, Answer
    <2>3. CASE child[task[w]] = "running" /\ task[w] \in expired
        BY <2>3 DEF Reap, Conclude, Goto, KillAndReap, Answer
    <2>4. CASE child[task[w]] = "running" /\ task[w] \notin expired
        BY <2>4 DEF Reap, Goto
    <2> QED BY <2>1, <2>2, <2>3, <2>4
<1>1. TypeOK'
    <2>1. child' \in [Job -> Child]
        BY <1>0 DEF IInv, TypeOK, Child
    <2>2. verdict' \in [Worker -> Answer]
        BY <1>0 DEF IInv, TypeOK
    <2>3. pc' \in [Worker -> PC]
        BY <1>0 DEF IInv, TypeOK, PC
    <2> QED BY <1>0, <2>1, <2>2, <2>3 DEF IInv, TypeOK, callerVars, cancelVars
<1>2. QueueInv' /\ PushInv' /\ FreshInv'
    BY <1>0, PoolAssumption DEF IInv, TypeOK, QueueInv, PushInv, FreshInv, TaskInv, Untouched,
       Attended, callerVars, cancelVars, workerVars, childVars
<1>3. TaskInv'
    BY <1>0, PoolAssumption DEF IInv, TypeOK, TaskInv, Progress, FreshInv, PushInv, Untouched,
       Attended, callerVars, cancelVars, workerVars, childVars
<1>4. NoStrayChild'
    BY <1>0, PoolAssumption DEF IInv, TypeOK, TaskInv, Progress, NoStrayChild, FreshInv,
       Untouched, Attended, callerVars, cancelVars, workerVars, childVars
<1>5. ScopeKnowsItsJobs'
    BY <1>0, PoolAssumption DEF IInv, TypeOK, ScopeKnowsItsJobs, callerVars, cancelVars,
       workerVars, childVars
<1> QED BY <1>1, <1>2, <1>3, <1>4, <1>5 DEF IInv

\* The child left behind belongs to a command answered with an error.
LEMMA TryWaitFailsInv ==
    ASSUME IInv, NEW w \in Worker, TryWaitFails(w)
    PROVE  IInv'
<1>1. TypeOK'
    BY CommandAssumption DEF IInv, TypeOK, PC, Answer, Child, Pipe, TaskInv, TryWaitFails, Goto,
       Conclude, Fault, callerVars, cancelVars, workerVars, childVars
<1>2. QueueInv' /\ PushInv' /\ FreshInv'
    BY PoolAssumption DEF IInv, TypeOK, QueueInv, PushInv, FreshInv, TaskInv, Untouched,
       Attended, TryWaitFails, Goto, Conclude, Fault, callerVars, cancelVars, workerVars,
       childVars
<1>3. TaskInv'
    BY PoolAssumption DEF IInv, TypeOK, TaskInv, Progress, FreshInv, PushInv, Untouched,
       Attended, TryWaitFails, Goto, Conclude, Fault, callerVars, cancelVars, workerVars,
       childVars
<1>4. NoStrayChild'
    BY PoolAssumption DEF IInv, TypeOK, TaskInv, Progress, NoStrayChild, FreshInv, Untouched,
       Attended, TryWaitFails, Goto, Conclude, Fault, callerVars, cancelVars, workerVars,
       childVars
<1>5. ScopeKnowsItsJobs'
    BY PoolAssumption DEF IInv, TypeOK, ScopeKnowsItsJobs, TryWaitFails, Goto, Conclude, Fault,
       callerVars, cancelVars, workerVars, childVars
<1> QED BY <1>1, <1>2, <1>3, <1>4, <1>5 DEF IInv

\* The answer goes out and the worker is free.
LEMMA DeliverInv ==
    ASSUME IInv, NEW w \in Worker, Deliver(w)
    PROVE  IInv'
<1>1. TypeOK'
    BY CommandAssumption DEF IInv, TypeOK, PC, Answer, Child, Pipe, TaskInv, Deliver, Goto,
       Conclude, callerVars, cancelVars, workerVars, childVars
<1>2. QueueInv' /\ PushInv' /\ FreshInv'
    BY PoolAssumption DEF IInv, TypeOK, QueueInv, PushInv, FreshInv, TaskInv, Untouched,
       Attended, Deliver, Goto, Conclude, callerVars, cancelVars, workerVars, childVars
<1>3. TaskInv'
    BY PoolAssumption DEF IInv, TypeOK, TaskInv, Progress, FreshInv, PushInv, Untouched,
       Attended, Deliver, Goto, Conclude, callerVars, cancelVars, workerVars, childVars
<1>4. NoStrayChild'
    BY PoolAssumption DEF IInv, TypeOK, TaskInv, Progress, NoStrayChild, FreshInv, Untouched,
       Attended, Deliver, Goto, Conclude, callerVars, cancelVars, workerVars, childVars
<1>5. ScopeKnowsItsJobs'
    BY PoolAssumption DEF IInv, TypeOK, ScopeKnowsItsJobs, TaskInv, Deliver, Goto, Conclude,
       callerVars, cancelVars, workerVars, childVars
<1> QED BY <1>1, <1>2, <1>3, <1>4, <1>5 DEF IInv

\* The readers touch the pipe only.
LEMMA DrainInv ==
    ASSUME IInv, NEW j \in Job, Drain(j)
    PROVE  IInv'
<1>1. TypeOK'
    BY CommandAssumption DEF IInv, TypeOK, PC, Answer, Child, Pipe, TaskInv, Drain, callerVars,
       cancelVars, workerVars, childVars
<1>2. QueueInv' /\ PushInv' /\ FreshInv'
    BY PoolAssumption DEF IInv, TypeOK, QueueInv, PushInv, FreshInv, TaskInv, Untouched,
       Attended, Drain, callerVars, cancelVars, workerVars, childVars
<1>3. TaskInv'
    BY PoolAssumption DEF IInv, TypeOK, TaskInv, Progress, FreshInv, PushInv, Untouched,
       Attended, Drain, callerVars, cancelVars, workerVars, childVars
<1>4. NoStrayChild'
    BY PoolAssumption DEF IInv, TypeOK, TaskInv, Progress, NoStrayChild, FreshInv, Untouched,
       Attended, Drain, callerVars, cancelVars, workerVars, childVars
<1>5. ScopeKnowsItsJobs'
    BY PoolAssumption DEF IInv, TypeOK, ScopeKnowsItsJobs, Drain, callerVars, cancelVars,
       workerVars, childVars
<1> QED BY <1>1, <1>2, <1>3, <1>4, <1>5 DEF IInv

\* A child that exits is still one to be reaped.
LEMMA ExitInv ==
    ASSUME IInv, NEW j \in Job, Exit(j)
    PROVE  IInv'
<1>1. TypeOK'
    BY CommandAssumption DEF IInv, TypeOK, PC, Answer, Child, Pipe, TaskInv, Exit, callerVars,
       cancelVars, workerVars, childVars
<1>2. QueueInv' /\ PushInv' /\ FreshInv'
    BY PoolAssumption DEF IInv, TypeOK, QueueInv, PushInv, FreshInv, TaskInv, Untouched,
       Attended, Exit, callerVars, cancelVars, workerVars, childVars
<1>3. TaskInv'
    BY PoolAssumption DEF IInv, TypeOK, TaskInv, Progress, FreshInv, PushInv, Untouched,
       Attended, Exit, callerVars, cancelVars, workerVars, childVars
<1>4. NoStrayChild'
    BY PoolAssumption DEF IInv, TypeOK, TaskInv, Progress, NoStrayChild, FreshInv, Untouched,
       Attended, Exit, callerVars, cancelVars, workerVars, childVars
<1>5. ScopeKnowsItsJobs'
    BY PoolAssumption DEF IInv, TypeOK, ScopeKnowsItsJobs, Exit, callerVars, cancelVars,
       workerVars, childVars
<1> QED BY <1>1, <1>2, <1>3, <1>4, <1>5 DEF IInv

\* The readers touch the pipe only.
LEMMA EofInv ==
    ASSUME IInv, NEW j \in Job, Eof(j)
    PROVE  IInv'
<1>1. TypeOK'
    BY CommandAssumption DEF IInv, TypeOK, PC, Answer, Child, Pipe, TaskInv, Eof, callerVars,
       cancelVars, workerVars, childVars
<1>2. QueueInv' /\ PushInv' /\ FreshInv'
    BY PoolAssumption DEF IInv, TypeOK, QueueInv, PushInv, FreshInv, TaskInv, Untouched,
       Attended, Eof, callerVars, cancelVars, workerVars, childVars
<1>3. TaskInv'
    BY PoolAssumption DEF IInv, TypeOK, TaskInv, Progress, FreshInv, PushInv, Untouched,
       Attended, Eof, callerVars, cancelVars, workerVars, childVars
<1>4. NoStrayChild'
    BY PoolAssumption DEF IInv, TypeOK, TaskInv, Progress, NoStrayChild, FreshInv, Untouched,
       Attended, Eof, callerVars, cancelVars, workerVars, childVars
<1>5. ScopeKnowsItsJobs'
    BY PoolAssumption DEF IInv, TypeOK, ScopeKnowsItsJobs, Eof, callerVars, cancelVars,
       workerVars, childVars
<1> QED BY <1>1, <1>2, <1>3, <1>4, <1>5 DEF IInv

\* Time touches the deadline only.
LEMMA ExpireInv ==
    ASSUME IInv, NEW j \in Job, Expire(j)
    PROVE  IInv'
<1>1. TypeOK'
    BY CommandAssumption DEF IInv, TypeOK, PC, Answer, Child, Pipe, TaskInv, Expire, callerVars,
       cancelVars, workerVars, childVars
<1>2. QueueInv' /\ PushInv' /\ FreshInv'
    BY PoolAssumption DEF IInv, TypeOK, QueueInv, PushInv, FreshInv, TaskInv, Untouched,
       Attended, Expire, callerVars, cancelVars, workerVars, childVars
<1>3. TaskInv'
    BY PoolAssumption DEF IInv, TypeOK, TaskInv, Progress, FreshInv, PushInv, Untouched,
       Attended, Expire, callerVars, cancelVars, workerVars, childVars
<1>4. NoStrayChild'
    BY PoolAssumption DEF IInv, TypeOK, TaskInv, Progress, NoStrayChild, FreshInv, Untouched,
       Attended, Expire, callerVars, cancelVars, workerVars, childVars
<1>5. ScopeKnowsItsJobs'
    BY PoolAssumption DEF IInv, TypeOK, ScopeKnowsItsJobs, Expire, callerVars, cancelVars,
       workerVars, childVars
<1> QED BY <1>1, <1>2, <1>3, <1>4, <1>5 DEF IInv

\* The command is queued; a worker may wake up for it.
LEMMA PushKeepsInv ==
    ASSUME IInv, NEW j \in Job, Push(j)
    PROVE  IInv'
<1> DEFINE l == JobLane[j]
<1>1. /\ l \in Lane /\ j \in submitted /\ Untouched(j)
      /\ ~Holds(queue[l], j) /\ NoDuplicates(queue[l]) /\ queue[l] \in Seq(Job)
    BY PoolAssumption DEF IInv, TypeOK, PushInv, QueueInv, Push
<1>2. /\ pushing' = pushing \ {j}
      /\ queue' = [queue EXCEPT ![l] = Append(queue[l], j)]
      /\ UNCHANGED <<submitted, dropped, scopes, cancelVars, task, verdict, published,
                     answer, childVars, faults>>
    BY DEF Push
<1>3. pc' = pc \/ \E w \in Worker : pc[w] = "parked" /\ pc' = [pc EXCEPT ![w] = "ready"]
    BY DEF Push, NotifyOne, Parked
<1>4. /\ queue'[l] \in Seq(Job) /\ NoDuplicates(queue'[l])
      /\ \A k \in Job : Holds(queue'[l], k) <=> Holds(queue[l], k) \/ k = j
      /\ \A m \in Lane \ {l} : queue'[m] = queue[m]
    BY <1>1, <1>2, AppendHolds DEF IInv, TypeOK
<1>5. TypeOK'
    BY <1>1, <1>2, <1>3, <1>4 DEF IInv, TypeOK, PC, cancelVars, childVars
<1>6. Untouched(j)' /\ \A k \in Job : Untouched(k)' <=> Untouched(k)
    BY <1>1, <1>2 DEF Untouched, Attended, childVars
<1>7. QueueInv'
    BY <1>1, <1>2, <1>4, <1>6 DEF IInv, QueueInv
<1>8. PushInv' /\ FreshInv'
    BY <1>1, <1>2, <1>6 DEF IInv, TypeOK, PushInv, FreshInv
<1>9. TaskInv'
    BY <1>1, <1>2, <1>3 DEF IInv, TypeOK, TaskInv, Progress, Untouched, Attended, childVars
<1>10. NoStrayChild' /\ ScopeKnowsItsJobs'
    BY <1>1, <1>2, <1>6 DEF IInv, NoStrayChild, ScopeKnowsItsJobs, Attended, cancelVars, childVars
<1> QED BY <1>5, <1>7, <1>8, <1>9, <1>10 DEF IInv

\* The head of the queue goes to one worker, and to no other.
LEMMA PopInv ==
    ASSUME IInv, NEW w \in Worker, Pop(w)
    PROVE  IInv'
<1> DEFINE l == WorkerLane[w]
           q == queue[l]
           j == Head(q)
<1>1. l \in Lane /\ q \in Seq(Job) /\ q # <<>> /\ NoDuplicates(q)
    BY PoolAssumption DEF IInv, TypeOK, QueueInv, Pop
<1>2. /\ j \in Job /\ Tail(q) \in Seq(Job) /\ NoDuplicates(Tail(q))
      /\ Holds(q, j) /\ ~Holds(Tail(q), j)
      /\ \A k \in Job : Holds(Tail(q), k) => Holds(q, k)
    BY <1>1, TailHolds
<1>3. /\ pc[w] = "ready" /\ pc' = [pc EXCEPT ![w] = "popped"]
      /\ queue' = [queue EXCEPT ![l] = Tail(q)]
      /\ task' = [task EXCEPT ![w] = j]
      /\ UNCHANGED <<pushing, submitted, dropped, scopes, cancelVars, verdict, published,
                     answer, childVars, faults>>
    BY DEF Pop, Goto
<1>4. JobLane[j] = l /\ j \in submitted \ pushing /\ Untouched(j)
    BY <1>1, <1>2 DEF IInv, QueueInv
<1>5. \A k \in Job \ {j} : Untouched(k) => Untouched(k)'
    BY <1>2, <1>3 DEF IInv, TypeOK, Untouched, Attended, childVars
<1>6. TypeOK'
    BY <1>1, <1>2, <1>3 DEF IInv, TypeOK, PC, cancelVars, childVars
<1>7. QueueInv'
    <2> SUFFICES ASSUME NEW m \in Lane
                 PROVE  /\ NoDuplicates(queue'[m])
                        /\ \A k \in Job : Holds(queue'[m], k) =>
                              /\ k # j /\ Holds(queue[m], k)
        BY <1>3, <1>5 DEF IInv, QueueInv
    <2>1. CASE m = l
        BY <1>1, <1>2, <1>3, <2>1 DEF IInv, TypeOK
    <2>2. CASE m # l
        BY <1>1, <1>2, <1>3, <1>4, <2>2 DEF IInv, TypeOK, QueueInv
    <2> QED BY <2>1, <2>2
<1>8. PushInv' /\ FreshInv'
    BY <1>3, <1>4, <1>5 DEF IInv, TypeOK, PushInv, FreshInv
<1>9. TaskInv'
    BY <1>2, <1>3, <1>4, PoolAssumption
       DEF IInv, TypeOK, TaskInv, Progress, Untouched, Attended, childVars
<1>10. \A k \in Job : Attended(k) => Attended(k)'
    BY <1>3, PoolAssumption DEF IInv, TypeOK, TaskInv, Attended
<1>11. NoStrayChild' /\ ScopeKnowsItsJobs'
    BY <1>3, <1>10 DEF IInv, TypeOK, NoStrayChild, ScopeKnowsItsJobs, cancelVars, childVars
<1> QED BY <1>6, <1>7, <1>8, <1>9, <1>11 DEF IInv

-----------------------------------------------------------------------------
LEMMA NextInv == IInv /\ [Next]_vars => IInv'
<1> SUFFICES ASSUME IInv, [Next]_vars PROVE IInv'
    OBVIOUS
<1>1. CASE \E j \in Job : Register(j) \/ Drop(j) \/ Cancel(j) \/ JobStep(j) \/ Eof(j)
    BY <1>1, RegisterInv, DropInv, CancelInv, PushKeepsInv, KillInv, DrainInv, ExitInv,
       ExpireInv, EofInv DEF JobStep
<1>2. CASE \E s \in Scope : CancelScope(s)
    BY <1>2, CancelScopeInv
<1>3. CASE \E w \in Worker : WorkerStep(w)
    BY <1>3, PopInv, ParkInv, BeginInv, SpawnInv, PublishInv, CheckCancelledInv, ReapInv,
       DeliverInv DEF WorkerStep
<1>4. CASE \E w \in Worker : SpuriousWakeup(w) \/ SpawnFails(w) \/ TryWaitFails(w)
    BY <1>4, SpuriousWakeupInv, SpawnFailsInv, TryWaitFailsInv
<1>5. CASE UNCHANGED vars
    BY <1>5 DEF vars, callerVars, cancelVars, workerVars, childVars, IInv, TypeOK, QueueInv,
       PushInv, FreshInv, TaskInv, Progress, NoStrayChild, ScopeKnowsItsJobs, Untouched,
       Attended
<1> QED BY <1>1, <1>2, <1>3, <1>4, <1>5 DEF Next

\* The inductive invariant holds in every reachable state.
THEOREM Invariance == Spec => []IInv
BY InitInv, NextInv, PTL DEF Spec

\* Every variable keeps its type: no child, handle or flag of a command that
\* was never submitted.
THEOREM TypeCorrect == Spec => []TypeOK
<1>1. IInv => TypeOK
    BY DEF IInv
<1> QED BY <1>1, Invariance, PTL

\* No path out of spawn_and_collect leaves a process or a zombie, except the
\* two that give up on an error of the operating system.
THEOREM ChildrenAreReaped == Spec => []NoStrayChild
<1>1. IInv => NoStrayChild
    BY DEF IInv
<1> QED BY <1>1, Invariance, PTL

\* A command runs on one worker at most, so the workers of a lane bound the
\* attended children of that lane.
THEOREM WorkersAreExclusive == Spec => []OneWorkerPerJob
<1>1. IInv => OneWorkerPerJob
    <2> SUFFICES ASSUME IInv PROVE OneWorkerPerJob
        OBVIOUS
    <2>1. ASSUME NEW w \in Worker, task[w] # NoJob
          PROVE  ~Queued(task[w]) /\ answer[task[w]] = "none"
        BY <2>1 DEF IInv, TypeOK, TaskInv, QueueInv, Queued, Untouched, Attended
    <2> QED BY <2>1 DEF IInv, TaskInv, OneWorkerPerJob
<1> QED BY <1>1, Invariance, PTL

\* cancel_scope finds every command of the scope that has no answer yet.
THEOREM ScopeIsComplete == Spec => []ScopeKnowsItsJobs
<1>1. IInv => ScopeKnowsItsJobs
    BY DEF IInv
<1> QED BY <1>1, Invariance, PTL

-----------------------------------------------------------------------------
\* What a worker is about to answer is true of its command.
Verdicts ==
    \A w \in Worker :
        /\ pc[w] = "answer" => \/ verdict[w] = "error"
                               \/ verdict[w] = "cancelled" /\ task[w] \in cancelled
        /\ pc[w] = "join" => \/ verdict[w] = "output"
                             \/ verdict[w] \in {"cancelled", "signal"} /\ task[w] \in cancelled
                             \/ verdict[w] = "timedOut" /\ task[w] \in Timed

\* Nothing but a cancel() kills a child behind the back of its worker.
KilledOnRequest == \A j \in Job : child[j] = "killed" => j \in cancelled

VerdictInv == Verdicts /\ KilledOnRequest

\* A step of a caller keeps every flag that is up, so it keeps the verdicts.
LEMMA CallerKeepsVerdicts ==
    ASSUME IInv, VerdictInv, cancelled \subseteq cancelled',
           UNCHANGED <<pc, task, verdict, child>>
    PROVE  VerdictInv'
BY DEF VerdictInv, Verdicts, KilledOnRequest

\* A worker comes to its verdict from the flag, the child or the deadline.
LEMMA VerdictNext == IInv /\ VerdictInv /\ [Next]_vars => VerdictInv'
<1> SUFFICES ASSUME IInv, VerdictInv, [Next]_vars PROVE VerdictInv'
    OBVIOUS
<1> USE DEF cancelVars, workerVars, childVars
<1>1. ASSUME NEW j \in Job, Register(j) \/ Drop(j) \/ Cancel(j) \/ Drain(j) \/ Eof(j) \/ Expire(j)
      PROVE  VerdictInv'
    BY <1>1, CallerKeepsVerdicts DEF Register, Drop, Cancel, Flag, Drain, Eof, Expire
<1>2. ASSUME NEW j \in Job, Push(j)
      PROVE  VerdictInv'
    <2>1. \A w \in Worker : pc'[w] \in {"answer", "join"} => pc'[w] = pc[w]
        BY <1>2 DEF Push, NotifyOne, Parked, IInv, TypeOK
    <2> QED BY <1>2, <2>1 DEF Push, VerdictInv, Verdicts, KilledOnRequest
<1>3. ASSUME NEW j \in Job, Kill(j) \/ Exit(j)
      PROVE  VerdictInv'
    BY <1>3 DEF Kill, Exit, IInv, TypeOK, VerdictInv, Verdicts, KilledOnRequest
<1>4. ASSUME NEW s \in Scope, CancelScope(s)
      PROVE  VerdictInv'
    BY <1>4, CallerKeepsVerdicts DEF CancelScope, Flag
<1>5. ASSUME NEW w \in Worker, Pop(w) \/ Park(w) \/ SpuriousWakeup(w) \/ Publish(w) \/ Deliver(w)
      PROVE  VerdictInv'
    BY <1>5 DEF Pop, Park, SpuriousWakeup, Publish, Deliver, Goto, Conclude, IInv, TypeOK,
       VerdictInv, Verdicts, KilledOnRequest
<1>6. ASSUME NEW w \in Worker, Begin(w) \/ CheckCancelled(w)
      PROVE  VerdictInv'
    BY <1>6 DEF Begin, CheckCancelled, KillAndReap, Goto, Conclude, IInv, TypeOK,
       VerdictInv, Verdicts, KilledOnRequest
<1>7. ASSUME NEW w \in Worker, Spawn(w) \/ SpawnFails(w) \/ TryWaitFails(w)
      PROVE  VerdictInv'
    BY <1>7 DEF Spawn, SpawnFails, TryWaitFails, Fault, Goto, Conclude, IInv, TypeOK,
       VerdictInv, Verdicts, KilledOnRequest
<1>8. ASSUME NEW w \in Worker, Reap(w)
      PROVE  VerdictInv'
    <2>1. task[w] \in Job /\ pc[w] = "reap" /\ child[task[w]] \in {"running", "exited", "killed"}
        BY <1>8 DEF Reap, IInv, TypeOK, TaskInv, Progress
    <2>2. CASE child[task[w]] \in {"exited", "killed"}
        BY <1>8, <2>1, <2>2 DEF Reap, Goto, Conclude, IInv, TypeOK, VerdictInv, Verdicts,
           KilledOnRequest
    <2>3. CASE child[task[w]] = "running" /\ task[w] \in expired
        BY <1>8, <2>1, <2>3 DEF Reap, KillAndReap, Goto, Conclude, IInv, TypeOK, VerdictInv,
           Verdicts, KilledOnRequest
    <2>4. CASE child[task[w]] = "running" /\ task[w] \notin expired
        BY <1>8, <2>1, <2>4 DEF Reap, Goto, IInv, TypeOK, VerdictInv, Verdicts, KilledOnRequest
    <2> QED BY <2>1, <2>2, <2>3, <2>4
<1>9. CASE UNCHANGED vars
    BY <1>9, CallerKeepsVerdicts DEF vars
<1> QED BY <1>1, <1>2, <1>3, <1>4, <1>5, <1>6, <1>7, <1>8, <1>9 DEF Next, JobStep, WorkerStep

\* Every answer about to be given is true.
THEOREM VerdictsAreTrue == Spec => []VerdictInv
<1>1. Init => VerdictInv
    BY DEF Init, VerdictInv, Verdicts, KilledOnRequest
<1> QED BY <1>1, VerdictNext, Invariance, PTL DEF Spec

-----------------------------------------------------------------------------
\* Only Begin lets a command in, and only a command that was let in is spawned.
LEMMA BegunStep ==
    ASSUME IInv, [Next]_vars, NEW j \in cancelled, ~Begun(j)
    PROVE  ~Begun(j)'
<1> USE DEF cancelVars, workerVars, childVars
<1>0. j \in Job /\ child[j] = "none" /\ \A w \in Worker : ~(task[w] = j /\ pc[w] = "start")
    BY DEF IInv, TypeOK, Begun
<1>1. ASSUME NEW i \in Job, Register(i) \/ Drop(i) \/ Cancel(i) \/ Drain(i) \/ Eof(i) \/ Expire(i)
      PROVE  ~Begun(j)'
    BY <1>0, <1>1 DEF Register, Drop, Cancel, Drain, Eof, Expire, Begun
<1>2. ASSUME NEW i \in Job, Push(i)
      PROVE  ~Begun(j)'
    <2>1. \A w \in Worker : pc'[w] = "start" => pc[w] = "start"
        BY <1>2 DEF Push, NotifyOne, Parked, IInv, TypeOK
    <2> QED BY <1>0, <1>2, <2>1 DEF Push, Begun
<1>3. ASSUME NEW i \in Job, Kill(i) \/ Exit(i)
      PROVE  ~Begun(j)'
    BY <1>0, <1>3 DEF Kill, Exit, IInv, TypeOK, Begun
<1>4. ASSUME NEW s \in Scope, CancelScope(s)
      PROVE  ~Begun(j)'
    BY <1>0, <1>4 DEF CancelScope, Begun
<1>5. ASSUME NEW w \in Worker, Pop(w) \/ Park(w) \/ SpuriousWakeup(w) \/ Publish(w) \/ Deliver(w)
      PROVE  ~Begun(j)'
    BY <1>0, <1>5 DEF Pop, Park, SpuriousWakeup, Publish, Deliver, Goto, Conclude, IInv, TypeOK,
       Begun
<1>6. ASSUME NEW w \in Worker, Begin(w)
      PROVE  ~Begun(j)'
    BY <1>0, <1>6 DEF Begin, Goto, Conclude, IInv, TypeOK, Begun
<1>7. ASSUME NEW w \in Worker, Spawn(w) \/ SpawnFails(w) \/ TryWaitFails(w)
      PROVE  ~Begun(j)'
    BY <1>0, <1>7 DEF Spawn, SpawnFails, TryWaitFails, Fault, Goto, Conclude, IInv, TypeOK, Begun
<1>8. ASSUME NEW w \in Worker, CheckCancelled(w) \/ Reap(w)
      PROVE  ~Begun(j)'
    <2>1. task[w] \in Job /\ child[task[w]] \in {"running", "exited", "killed"}
        BY <1>8 DEF CheckCancelled, Reap, IInv, TypeOK, TaskInv, Progress
    <2>2. \A v \in Worker : pc'[v] = "start" => pc[v] = "start"
        BY <1>8, <2>1 DEF CheckCancelled, Reap, Goto, Conclude, KillAndReap, IInv, TypeOK
    <2>3. child'[j] = child[j] /\ task' = task
        BY <1>0, <1>8, <2>1 DEF CheckCancelled, Reap, Goto, Conclude, KillAndReap, IInv, TypeOK
    <2> QED BY <1>0, <2>2, <2>3 DEF Begun
<1>9. CASE UNCHANGED vars
    BY <1>0, <1>9 DEF vars, Begun
<1> QED BY <1>1, <1>2, <1>3, <1>4, <1>5, <1>6, <1>7, <1>8, <1>9 DEF Next, JobStep, WorkerStep

\* A command cancelled before a worker began with it, queued, popped or not
\* even pushed, never gets a process, whatever the workers do afterwards.
THEOREM CancelledIsNotStarted == Spec => CancelledFirstNeverRuns
<1>1. IInv /\ [Next]_vars => [\A j \in cancelled : ~Begun(j) => ~Begun(j)']_vars
    BY BegunStep
<1> QED BY <1>1, Invariance, PTL DEF Spec, CancelledFirstNeverRuns

-----------------------------------------------------------------------------
(* The bus implements OneShotCommands.                                     *)

\* A step that leaves the callers' view alone and no command lets in or out.
LEMMA Hidden ==
    ASSUME UNCHANGED <<submitted, cancelled, task, answer>>,
           StartedWorkers' = StartedWorkers
    PROVE  UNCHANGED Promise!cmdVars
BY DEF Promise!cmdVars

\* The head of the queue is a command of the worker's lane that waits.
LEMMA PopImplements ==
    ASSUME IInv, NEW w \in Worker, Pop(w)
    PROVE  Promise!CmdNext
<1> DEFINE j == Head(queue[WorkerLane[w]])
<1>1. /\ WorkerLane[w] \in Lane /\ queue[WorkerLane[w]] \in Seq(Job)
      /\ queue[WorkerLane[w]] # <<>> /\ NoDuplicates(queue[WorkerLane[w]])
    BY PoolAssumption DEF IInv, TypeOK, QueueInv, Pop
<1>2. j \in Job /\ Holds(queue[WorkerLane[w]], j)
    BY <1>1, TailHolds
<1>3. JobLane[j] = WorkerLane[w] /\ j \in submitted /\ Untouched(j)
    BY <1>1, <1>2 DEF IInv, QueueInv
<1>4. StartedWorkers' = StartedWorkers
    BY DEF Pop, Goto, StartedWorkers, IInv, TypeOK
<1>5. task[w] = NoJob
    BY DEF Pop, IInv, TaskInv
<1>6. Promise!Admit(w, j)
    BY <1>3, <1>4, <1>5 DEF Pop, cancelVars, Untouched, Attended, Promise!Admit, Promise!Waiting
<1> QED BY <1>2, <1>6 DEF Promise!CmdNext

\* Begin lets the command in, or leaves it refused.
LEMMA BeginImplements ==
    ASSUME IInv, NEW w \in Worker, Begin(w)
    PROVE  Promise!CmdNext \/ UNCHANGED Promise!cmdVars
<1> USE DEF callerVars, cancelVars
<1>1. pc[w] = "popped" /\ task[w] \in Job /\ task[w] # NoJob /\ w \notin StartedWorkers
    BY PoolAssumption DEF Begin, IInv, TypeOK, TaskInv, StartedWorkers
<1>2. CASE task[w] \in cancelled
    <2>1. StartedWorkers' = StartedWorkers
        BY <1>1, <1>2 DEF Begin, Conclude, Goto, StartedWorkers, IInv, TypeOK
    <2> QED BY <2>1, Hidden DEF Begin
<1>3. CASE task[w] \notin cancelled
    <2>1. StartedWorkers' = StartedWorkers \cup {w}
        BY <1>1, <1>3 DEF Begin, Goto, StartedWorkers, IInv, TypeOK
    <2>2. Promise!Begins(w)
        BY <1>1, <1>3, <2>1 DEF Begin, Promise!Begins
    <2> QED BY <2>2 DEF Promise!CmdNext
<1> QED BY <1>2, <1>3

\* The answer that goes out is a true one, and it is the only one.
LEMMA DeliverImplements ==
    ASSUME IInv, VerdictInv, NEW w \in Worker, Deliver(w)
    PROVE  Promise!CmdNext
<1>1. /\ pc[w] \in {"answer", "join"} /\ task[w] \in Job /\ task[w] # NoJob
      /\ answer[task[w]] = "none"
    BY PoolAssumption DEF Deliver, IInv, TypeOK, TaskInv
<1>2. StartedWorkers' = StartedWorkers \ {w}
    BY <1>1 DEF Deliver, Conclude, Goto, StartedWorkers, IInv, TypeOK
<1>3. w \in StartedWorkers <=> pc[w] = "join" \/ verdict[w] = "error"
    BY <1>1 DEF StartedWorkers
<1>4. /\ verdict[w] \in {"output", "signal", "cancelled", "timedOut", "error"}
      /\ Promise!Truthful(w, verdict[w])
    BY <1>1, <1>3 DEF VerdictInv, Verdicts, Promise!Truthful
<1>5. Promise!Respond(w, verdict[w])
    BY <1>1, <1>2, <1>4 DEF Deliver, callerVars, cancelVars, Promise!Respond
<1> QED BY <1>4, <1>5 DEF Promise!CmdNext

\* What the callers do not see: queueing, parking, the child and its pipes.
LEMMA WorkIsHidden ==
    ASSUME IInv, NEW w \in Worker,
           \/ Park(w) \/ SpuriousWakeup(w) \/ Spawn(w) \/ Publish(w) \/ CheckCancelled(w)
           \/ Reap(w) \/ SpawnFails(w) \/ TryWaitFails(w)
    PROVE  UNCHANGED Promise!cmdVars
<1> USE DEF callerVars, cancelVars
<1>1. StartedWorkers' = StartedWorkers
    <2>1. CASE Reap(w)
        <3>1. task[w] \in Job /\ pc[w] = "reap" /\ child[task[w]] \in {"running", "exited", "killed"}
            BY <2>1 DEF Reap, IInv, TypeOK, TaskInv, Progress
        <3>2. \/ pc' = [pc EXCEPT ![w] = "join"] /\ \E v : verdict' = [verdict EXCEPT ![w] = v]
              \/ pc' = [pc EXCEPT ![w] = "check"] /\ verdict' = verdict
            BY <2>1, <3>1 DEF Reap, Conclude, Goto
        <3> QED BY <3>1, <3>2 DEF StartedWorkers, IInv, TypeOK
    <2>2. CASE CheckCancelled(w)
        BY <2>2 DEF CheckCancelled, Conclude, Goto, StartedWorkers, IInv, TypeOK
    <2>3. CASE Park(w) \/ SpuriousWakeup(w) \/ Spawn(w) \/ Publish(w)
        BY <2>3 DEF Park, SpuriousWakeup, Spawn, Publish, Goto, StartedWorkers, IInv, TypeOK
    <2>4. CASE SpawnFails(w) \/ TryWaitFails(w)
        BY <2>4 DEF SpawnFails, TryWaitFails, Conclude, Goto, StartedWorkers, IInv, TypeOK
    <2> QED BY <2>1, <2>2, <2>3, <2>4
<1>2. UNCHANGED <<submitted, cancelled, task, answer>>
    BY DEF Park, SpuriousWakeup, Spawn, Publish, CheckCancelled, Reap, SpawnFails, TryWaitFails
<1> QED BY <1>1, <1>2, Hidden

\* So are the steps of a command outside its worker.
LEMMA JobIsHidden ==
    ASSUME IInv, NEW j \in Job,
           Push(j) \/ Drop(j) \/ Kill(j) \/ Drain(j) \/ Exit(j) \/ Eof(j) \/ Expire(j)
    PROVE  UNCHANGED Promise!cmdVars
<1> USE DEF callerVars, cancelVars, workerVars
<1>1. StartedWorkers' = StartedWorkers
    <2>1. CASE Push(j)
        <3>1. /\ verdict' = verdict
              /\ \/ pc' = pc
                 \/ \E w \in Worker : pc[w] = "parked" /\ pc' = [pc EXCEPT ![w] = "ready"]
            BY <2>1 DEF Push, NotifyOne, Parked
        <3> QED BY <3>1 DEF StartedWorkers, IInv, TypeOK
    <2>2. CASE Drop(j) \/ Kill(j) \/ Drain(j) \/ Exit(j) \/ Eof(j) \/ Expire(j)
        BY <2>2 DEF Drop, Kill, Drain, Exit, Eof, Expire, StartedWorkers
    <2> QED BY <2>1, <2>2
<1>2. UNCHANGED <<submitted, cancelled, task, answer>>
    BY DEF Push, Drop, Kill, Drain, Exit, Eof, Expire
<1> QED BY <1>1, <1>2, Hidden

\* Every step of the bus is a step of the promise, or hidden from it.
LEMMA StepImplements ==
    ASSUME IInv, VerdictInv, [Next]_vars
    PROVE  [Promise!CmdNext]_(Promise!cmdVars)
<1>1. ASSUME NEW j \in Job, Register(j) \/ Cancel(j)
      PROVE  Promise!CmdNext
    <2> USE DEF cancelVars, workerVars
    <2>1. StartedWorkers' = StartedWorkers
        BY <1>1 DEF Register, Cancel, StartedWorkers
    <2>2. CASE Register(j)
        BY <2>1, <2>2 DEF Register, Promise!Submit, Promise!CmdNext
    <2>3. CASE Cancel(j)
        <3>1. {j} \in SUBSET submitted /\ Promise!CancelAll({j})
            BY <2>1, <2>3 DEF Cancel, Flag, callerVars, Promise!CancelAll
        <3> QED BY <3>1 DEF Promise!CmdNext
    <2> QED BY <1>1, <2>2, <2>3
<1>2. ASSUME NEW s \in Scope, CancelScope(s)
      PROVE  Promise!CmdNext
    <2>1. StartedWorkers' = StartedWorkers
        BY <1>2 DEF CancelScope, workerVars, StartedWorkers
    <2>2. Pruned(s) \in SUBSET submitted /\ Promise!CancelAll(Pruned(s))
        BY <1>2, <2>1 DEF CancelScope, Flag, Pruned, Alive, workerVars, Promise!CancelAll
    <2> QED BY <2>2 DEF Promise!CmdNext
<1>3. ASSUME NEW w \in Worker, WorkerStep(w) \/ SpuriousWakeup(w) \/ SpawnFails(w) \/ TryWaitFails(w)
      PROVE  [Promise!CmdNext]_(Promise!cmdVars)
    BY <1>3, PopImplements, BeginImplements, DeliverImplements, WorkIsHidden DEF WorkerStep
<1>4. ASSUME NEW j \in Job, Drop(j) \/ JobStep(j) \/ Eof(j)
      PROVE  UNCHANGED Promise!cmdVars
    BY <1>4, JobIsHidden DEF JobStep
<1>5. CASE UNCHANGED vars
    <2>1. StartedWorkers' = StartedWorkers
        BY <1>5 DEF vars, workerVars, StartedWorkers
    <2> QED BY <1>5, <2>1, Hidden DEF vars, callerVars, cancelVars, workerVars
<1> QED BY <1>1, <1>2, <1>3, <1>4, <1>5 DEF Next

\* The bus keeps its promise: one run at most, by a worker of the lane and
\* not after a cancel(), and one answer, which is true.
THEOREM BusKeepsPromise == Spec => OneRunOneAnswer
<1>1. Init => Promise!CmdInit
    <2>1. Init => StartedWorkers = {}
        BY DEF Init, StartedWorkers
    <2> QED BY <2>1 DEF Init, Promise!CmdInit
<1>2. IInv /\ VerdictInv /\ [Next]_vars => [Promise!CmdNext]_(Promise!cmdVars)
    BY StepImplements
<1> QED BY <1>1, <1>2, Invariance, VerdictsAreTrue, PTL
        DEF Spec, OneRunOneAnswer, Promise!CommandsSpec

=============================================================================
