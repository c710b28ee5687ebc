----------------------------- MODULE CommandBus -----------------------------
(***************************************************************************)
(* The process-global bus for one-shot external commands:                  *)
(* velowork-core/src/process/bus.rs.                                       *)
(*                                                                         *)
(* A Job is one call of submit with its CommandSpec and its JobControl.    *)
(* Callers, workers, pipe readers and children are threads and processes   *)
(* of their own; a step is what one of them does between two accesses of   *)
(* shared state, or under one lock.                                        *)
(*                                                                         *)
(* External, modelled by what the bus sees of them: a child that runs,     *)
(* exits or is killed and then waits to be reaped; its output pipe, which  *)
(* is full, open, or at its end once nobody holds the other side.          *)
(***************************************************************************)
EXTENDS Naturals, Sequences, FiniteSets

CONSTANTS Job,        \* the commands submitted
          Lane,       \* independent pools of workers
          Worker,     \* the worker threads that could be started
          Scope,      \* cancellation groups
          NoJob, NoScope,
          WorkerLane, JobLane, JobScope,
          Timed,      \* jobs with a timeout
          Hangs,      \* jobs whose child never exits by itself
          Chatty,     \* jobs whose child writes more than a pipe holds
          Daemon,     \* jobs whose child leaves a descendant with its pipes
          MaxFaults   \* bound: calls of the operating system that fail

ASSUME PoolAssumption ==
    /\ WorkerLane \in [Worker -> Lane]
    /\ JobLane \in [Job -> Lane]
    /\ JobScope \in [Job -> Scope \cup {NoScope}]
    /\ NoJob \notin Job /\ NoScope \notin Scope
ASSUME CommandAssumption ==
    Timed \subseteq Job /\ Hangs \subseteq Job /\ Chatty \subseteq Job /\ Daemon \subseteq Job
ASSUME FaultAssumption == MaxFaults \in Nat

VARIABLES
    pushing,    \* registered by a caller that has not yet queued them
    submitted,  \* the jobs whose submit has begun
    dropped,    \* the jobs whose CommandHandle is gone
    queue,      \* the LaneQueue of each lane
    scopes,     \* CommandBus.scopes: the controls registered for each scope
    cancelled,  \* JobControl.cancelled
    cancelling, \* cancel() calls between the flag and the kill handle
    published,  \* JobControl.kill is set
    pc, task,   \* where each worker is, and with which job
    verdict,    \* the result a worker is about to send
    child, pipe, expired,
    answer,     \* what the caller gets from wait()
    faults

callerVars == <<pushing, submitted, dropped, queue, scopes>>
cancelVars == <<cancelled, cancelling>>
workerVars == <<pc, task, verdict, published, answer>>
childVars == <<child, pipe, expired>>
vars == <<callerVars, cancelVars, workerVars, childVars, faults>>

PC == {"ready", "parked", "popped", "start", "spawned", "published", "check",
       "reap", "join", "answer"}
Answer == {"none", "output", "signal", "cancelled", "timedOut", "error"}
Child == {"none", "running", "exited", "killed", "reaped"}
Pipe == {"none", "full", "open", "eof"}

TypeOK ==
    /\ submitted \subseteq Job /\ pushing \subseteq submitted /\ dropped \subseteq submitted
    /\ queue \in [Lane -> Seq(Job)]
    /\ scopes \in [Scope -> SUBSET Job]
    /\ cancelled \subseteq submitted /\ cancelling \subseteq cancelled
    /\ published \subseteq submitted
    /\ pc \in [Worker -> PC]
    /\ task \in [Worker -> Job \cup {NoJob}]
    /\ verdict \in [Worker -> Answer]
    /\ child \in [Job -> Child] /\ pipe \in [Job -> Pipe]
    /\ expired \subseteq Timed
    /\ answer \in [Job -> Answer]
    /\ faults \in Nat

Init ==
    /\ submitted = {} /\ pushing = {} /\ dropped = {}
    /\ queue = [l \in Lane |-> <<>>]
    /\ scopes = [s \in Scope |-> {}]
    /\ cancelled = {} /\ cancelling = {} /\ published = {}
    /\ pc = [w \in Worker |-> "ready"]
    /\ task = [w \in Worker |-> NoJob]
    /\ verdict = [w \in Worker |-> "none"]
    /\ child = [j \in Job |-> "none"]
    /\ pipe = [j \in Job |-> "none"]
    /\ expired = {}
    /\ answer = [j \in Job |-> "none"]
    /\ faults = 0

-----------------------------------------------------------------------------
(* The callers.                                                            *)

\* strong_count() > 0: a handle or the bus itself still owns the control.
Alive(j) == j \in submitted /\ (j \notin dropped \/ answer[j] = "none")

\* The mutated form prunes the controls of the jobs not yet started.
PrunedToPublished(s) == {j \in scopes[s] : j \in published}

Pruned(s) == {j \in scopes[s] : Alive(j)}

\* submit, up to the push: the control joins its scope.
Register(j) ==
    /\ j \notin submitted
    /\ submitted' = submitted \cup {j}
    /\ pushing' = pushing \cup {j}
    /\ scopes' = [s \in Scope |-> IF s = JobScope[j] THEN Pruned(s) \cup {j}
                                                     ELSE scopes[s]]
    /\ UNCHANGED <<dropped, queue, cancelVars, workerVars, childVars, faults>>

Parked(l) == {w \in Worker : WorkerLane[w] = l /\ pc[w] = "parked"}

\* The mutated form wakes nobody.
NotifyNobody(l) == UNCHANGED pc

\* Condvar::notify_one.
NotifyOne(l) ==
    IF Parked(l) = {} THEN UNCHANGED pc
    ELSE \E w \in Parked(l) : pc' = [pc EXCEPT ![w] = "ready"]

Push(j) ==
    /\ j \in pushing
    /\ pushing' = pushing \ {j}
    /\ queue' = [queue EXCEPT ![JobLane[j]] = Append(@, j)]
    /\ NotifyOne(JobLane[j])
    /\ UNCHANGED <<submitted, dropped, scopes, cancelVars, task, verdict,
                   published, answer, childVars, faults>>

\* wait() consumes the handle once there is an answer; a caller may also just
\* let go of it.
Drop(j) ==
    /\ j \in submitted \ (pushing \cup dropped)
    /\ dropped' = dropped \cup {j}
    /\ UNCHANGED <<pushing, submitted, queue, scopes, cancelVars, workerVars,
                   childVars, faults>>

\* JobControl::cancel stores the flag first and looks at the handle after.
\* The mutated form only kills.
KillOnly(js) == cancelling' = cancelling \cup js /\ UNCHANGED cancelled

Flag(js) == cancelled' = cancelled \cup js /\ cancelling' = cancelling \cup js

Cancel(j) ==
    /\ j \in submitted \ (pushing \cup dropped)
    /\ Flag({j})
    /\ UNCHANGED <<callerVars, workerVars, childVars, faults>>

\* The scopes lock is held over the whole loop, so no job joins in between.
CancelScope(s) ==
    /\ scopes[s] # {}
    /\ Flag(Pruned(s))
    /\ scopes' = [scopes EXCEPT ![s] = {}]
    /\ UNCHANGED <<pushing, submitted, dropped, queue, workerVars, childVars, faults>>

\* Child::kill: nothing happens to a child that has exited or was reaped.
Kill(j) ==
    /\ j \in cancelling
    /\ cancelling' = cancelling \ {j}
    /\ child' = IF j \in published /\ child[j] = "running"
                THEN [child EXCEPT ![j] = "killed"] ELSE child
    /\ UNCHANGED <<callerVars, cancelled, workerVars, pipe, expired, faults>>

-----------------------------------------------------------------------------
(* A worker.                                                               *)

Goto(w, l) == pc' = [pc EXCEPT ![w] = l]

\* LaneQueue::pop: the first job of the lane, or the condition variable.
Pop(w) ==
    LET q == queue[WorkerLane[w]] IN
    /\ pc[w] = "ready"
    /\ q # <<>>
    /\ queue' = [queue EXCEPT ![WorkerLane[w]] = Tail(q)]
    /\ task' = [task EXCEPT ![w] = Head(q)]
    /\ Goto(w, "popped")
    /\ UNCHANGED <<pushing, submitted, dropped, scopes, cancelVars, verdict,
                   published, answer, childVars, faults>>

Park(w) ==
    /\ pc[w] = "ready"
    /\ queue[WorkerLane[w]] = <<>>
    /\ Goto(w, "parked")
    /\ UNCHANGED <<callerVars, cancelVars, task, verdict, published, answer,
                   childVars, faults>>

\* A condition variable may wake up for no reason.
SpuriousWakeup(w) ==
    /\ pc[w] = "parked"
    /\ Goto(w, "ready")
    /\ UNCHANGED <<callerVars, cancelVars, task, verdict, published, answer,
                   childVars, faults>>

Conclude(w, v, l) == verdict' = [verdict EXCEPT ![w] = v] /\ Goto(w, l)

\* The mutated form starts without looking at the flag.
BeginUnchecked(w) ==
    /\ pc[w] = "popped"
    /\ Goto(w, "start")
    /\ UNCHANGED <<callerVars, cancelVars, task, verdict, published, answer,
                   childVars, faults>>

\* run_job: cancelled before it even started.
Begin(w) ==
    /\ pc[w] = "popped"
    /\ IF task[w] \in cancelled THEN Conclude(w, "cancelled", "answer")
       ELSE Goto(w, "start") /\ UNCHANGED verdict
    /\ UNCHANGED <<callerVars, cancelVars, task, published, answer, childVars, faults>>

\* The child runs and both its pipes have a reader.
Spawn(w) ==
    /\ pc[w] = "start"
    /\ child' = [child EXCEPT ![task[w]] = "running"]
    /\ pipe' = [pipe EXCEPT ![task[w]] = IF task[w] \in Chatty THEN "full" ELSE "open"]
    /\ Goto(w, "spawned")
    /\ UNCHANGED <<callerVars, cancelVars, task, verdict, published, answer, expired, faults>>

Fault == faults < MaxFaults /\ faults' = faults + 1

\* spawn()? returns the error, or the start of a pipe reader panics and
\* run_job turns the panic into an error; then the child runs on alone.
SpawnFails(w) ==
    /\ pc[w] = "start"
    /\ Fault
    /\ \/ UNCHANGED child
       \/ child' = [child EXCEPT ![task[w]] = "running"]
    /\ Conclude(w, "error", "answer")
    /\ UNCHANGED <<callerVars, cancelVars, task, published, answer, pipe, expired>>

Publish(w) ==
    /\ pc[w] = "spawned"
    /\ published' = published \cup {task[w]}
    /\ Goto(w, "published")
    /\ UNCHANGED <<callerVars, cancelVars, task, verdict, answer, childVars, faults>>

\* The mutated form forgets wait(), and with it the zombie.
KillOnlyChild(j) == child' = [child EXCEPT ![j] = "killed"]

KillAndReap(j) == child' = [child EXCEPT ![j] = "reaped"]

\* The mutated form relies on cancel() to kill the child.
CheckNothing(w) ==
    /\ pc[w] \in {"published", "check"}
    /\ Goto(w, IF pc[w] = "published" THEN "check" ELSE "reap")
    /\ UNCHANGED <<callerVars, cancelVars, task, verdict, published, answer,
                   childVars, faults>>

\* is_cancelled once right after the handle was published, then at the top of
\* every round of the loop.
CheckCancelled(w) ==
    /\ pc[w] \in {"published", "check"}
    /\ IF task[w] \in cancelled
       THEN KillAndReap(task[w]) /\ Conclude(w, "cancelled", "join")
       ELSE /\ Goto(w, IF pc[w] = "published" THEN "check" ELSE "reap")
            /\ UNCHANGED <<child, verdict>>
    /\ UNCHANGED <<callerVars, cancelVars, task, published, answer, pipe, expired, faults>>

\* try_wait, then the deadline.
Reap(w) ==
    LET j == task[w] IN
    /\ pc[w] = "reap"
    /\ CASE child[j] \in {"exited", "killed"} ->
              /\ child' = [child EXCEPT ![j] = "reaped"]
              /\ Conclude(w, IF child[j] = "killed" THEN "signal" ELSE "output", "join")
         [] child[j] = "running" /\ j \in expired ->
              KillAndReap(j) /\ Conclude(w, "timedOut", "join")
         [] child[j] = "running" /\ j \notin expired ->
              Goto(w, "check") /\ UNCHANGED <<child, verdict>>
    /\ UNCHANGED <<callerVars, cancelVars, task, published, answer, pipe, expired, faults>>

\* try_wait()? returns the error at once: the child is neither killed nor
\* reaped, and nobody joins the readers.
TryWaitFails(w) ==
    /\ pc[w] = "reap"
    /\ Fault
    /\ Conclude(w, "error", "answer")
    /\ UNCHANGED <<callerVars, cancelVars, task, published, answer, childVars>>

\* The readers reach the end of the pipes, the result goes out, next job.
Deliver(w) ==
    /\ pc[w] = "answer" \/ (pc[w] = "join" /\ pipe[task[w]] = "eof")
    /\ answer' = [answer EXCEPT ![task[w]] = verdict[w]]
    /\ task' = [task EXCEPT ![w] = NoJob]
    /\ Conclude(w, "none", "ready")
    /\ UNCHANGED <<callerVars, cancelVars, published, childVars, faults>>

WorkerStep(w) ==
    \/ Pop(w) \/ Park(w) \/ Begin(w) \/ Spawn(w) \/ Publish(w)
    \/ CheckCancelled(w) \/ Reap(w) \/ Deliver(w)

-----------------------------------------------------------------------------
(* The children, their pipes, and time.                                    *)

\* spawn_pipe_reader: the pipe is emptied while the child runs.
Drain(j) ==
    /\ pipe[j] = "full"
    /\ pipe' = [pipe EXCEPT ![j] = "open"]
    /\ UNCHANGED <<callerVars, cancelVars, workerVars, child, expired, faults>>

\* A child blocked in a write does not exit.
Exit(j) ==
    /\ child[j] = "running"
    /\ j \notin Hangs
    /\ pipe[j] # "full"
    /\ child' = [child EXCEPT ![j] = "exited"]
    /\ UNCHANGED <<callerVars, cancelVars, workerVars, pipe, expired, faults>>

\* End of file, once the child and its descendants have closed the pipe.
Eof(j) ==
    /\ pipe[j] \in {"full", "open"}
    /\ child[j] \in {"exited", "killed", "reaped"}
    /\ pipe' = [pipe EXCEPT ![j] = "eof"]
    /\ UNCHANGED <<callerVars, cancelVars, workerVars, child, expired, faults>>

\* The deadline runs from the moment the handle is published.
Expire(j) ==
    /\ j \in (Timed \cap published) \ expired
    /\ child[j] = "running"
    /\ expired' = expired \cup {j}
    /\ UNCHANGED <<callerVars, cancelVars, workerVars, child, pipe, faults>>

-----------------------------------------------------------------------------
JobStep(j) == Push(j) \/ Kill(j) \/ Drain(j) \/ Exit(j) \/ Expire(j)

Next ==
    \/ \E j \in Job : \/ Register(j) \/ Drop(j) \/ Cancel(j)
                      \/ JobStep(j) \/ Eof(j)
    \/ \E s \in Scope : CancelScope(s)
    \/ \E w \in Worker : \/ WorkerStep(w) \/ SpuriousWakeup(w)
                         \/ SpawnFails(w) \/ TryWaitFails(w)

Spec == Init /\ [][Next]_vars

\* Threads are scheduled, time passes, and a child that can exit does.  Nobody
\* has to cancel, and a descendant may keep a pipe open for ever.
Fairness ==
    /\ \A w \in Worker : WF_vars(WorkerStep(w))
    /\ \A j \in Job : /\ WF_vars(Push(j)) /\ WF_vars(Kill(j)) /\ WF_vars(Drain(j))
                      /\ WF_vars(Exit(j)) /\ WF_vars(Expire(j))
    /\ \A j \in Job \ Daemon : WF_vars(Eof(j))

FairSpec == Spec /\ Fairness

-----------------------------------------------------------------------------
(* Safety.                                                                 *)

Holds(q, j) == \E i \in 1 .. Len(q) : q[i] = j
Queued(j) == \E l \in Lane : Holds(queue[l], j)

Attended(j) == \E w \in Worker : task[w] = j

\* A child that was not reaped still has its worker, unless the operating
\* system refused a call and the command was answered with that error: no
\* path through cancellation, timeout or exit leaves a process or a zombie.
NoStrayChild ==
    \A j \in Job :
        child[j] \in {"running", "exited", "killed"} => Attended(j) \/ answer[j] = "error"

\* A worker has one job and a job one worker, so a lane never runs more
\* children than it has workers, whatever is cancelled or times out.
OneWorkerPerJob ==
    /\ \A v, w \in Worker : task[v] = task[w] /\ task[v] # NoJob => v = w
    /\ \A w \in Worker : task[w] # NoJob => ~Queued(task[w]) /\ answer[task[w]] = "none"

\* cancel_scope reaches every command of its scope that is still queued or
\* running: registration, pruning and an earlier cancel_scope lose none.
ScopeKnowsItsJobs ==
    \A j \in submitted :
        JobScope[j] # NoScope /\ answer[j] = "none"
            => j \in scopes[JobScope[j]] \/ j \in cancelled

Begun(j) == child[j] # "none" \/ \E w \in Worker : task[w] = j /\ pc[w] = "start"

\* A command cancelled before a worker began with it, wherever it was then,
\* never gets a process.
CancelledFirstNeverRuns ==
    [][\A j \in cancelled : ~Begun(j) => ~Begun(j)']_vars

-----------------------------------------------------------------------------
(* What the bus promises: OneShotCommands, with the workers as permits.    *)

\* The workers whose command was not refused, up to the answer.
StartedWorkers ==
    {w \in Worker : \/ pc[w] \in {"start", "spawned", "published", "check", "reap", "join"}
                    \/ pc[w] = "answer" /\ verdict[w] = "error"}

Promise == INSTANCE OneShotCommands WITH
    Permit <- Worker, PermitLane <- WorkerLane, permit <- task, started <- StartedWorkers

\* Every command is run once at most, by a worker of its own lane and not
\* after a cancel(), and answered once, with what really became of it:
\* "cancelled" and "signal" only after a cancel(), "timedOut" only with a
\* timeout, and a command that was let in is never reported as refused.
OneRunOneAnswer == Promise!CommandsSpec

-----------------------------------------------------------------------------
(* Liveness, under FairSpec.                                               *)

Ends(j) == j \notin Daemon /\ (j \notin Hangs \/ j \in Timed)

\* Owed an answer: a command of a lane in which every command ends or has a
\* timeout, and one that is cancelled when its child is there or about to be;
\* unless a descendant of the child holds on to the pipes.
Owed(j) ==
    /\ answer[j] = "none"
    /\ j \notin Daemon
    /\ \/ j \in submitted /\ \A i \in Job : JobLane[i] = JobLane[j] => Ends(i)
       \/ j \in cancelled /\ Attended(j)

\* Work in one lane never consumes the permits of another, however much the
\* commands write and whatever hangs elsewhere, and a cancelled command is
\* stopped even if its child would have run for ever.  (With finitely many
\* jobs, none of them may be owed for ever.)
CallsAreAnswered ==
    []<>(\A j \in Job : ~Owed(j))

=============================================================================
