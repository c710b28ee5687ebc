-------------------------- MODULE OneShotCommands --------------------------
(***************************************************************************)
(* What the command bus promises its callers, without queues, threads,     *)
(* pipes and locks: a command waits until it gets a permit of its lane, it *)
(* runs once at most, and it is answered once, truthfully.                 *)
(***************************************************************************)
CONSTANTS Job, Lane, JobLane,
          Permit, PermitLane,  \* the concurrency of the lanes
          Timed,               \* commands with a timeout
          NoJob

VARIABLES
    submitted, cancelled,
    permit,    \* the command that holds each permit, NoJob if it is free
    started,   \* the permits whose command was not refused
    answer     \* of each command, "none" while it has none

cmdVars == <<submitted, cancelled, permit, started, answer>>

CmdInit ==
    /\ submitted = {} /\ cancelled = {} /\ started = {}
    /\ permit = [p \in Permit |-> NoJob]
    /\ answer = [j \in Job |-> "none"]

Submit(j) ==
    /\ j \notin submitted
    /\ submitted' = submitted \cup {j}
    /\ UNCHANGED <<cancelled, permit, started, answer>>

\* A command, or the commands of a scope.
CancelAll(js) ==
    /\ cancelled' = cancelled \cup js
    /\ UNCHANGED <<submitted, permit, started, answer>>

Waiting(j) ==
    /\ j \in submitted /\ answer[j] = "none"
    /\ \A p \in Permit : permit[p] # j

Admit(p, j) ==
    /\ permit[p] = NoJob /\ PermitLane[p] = JobLane[j]
    /\ Waiting(j)
    /\ permit' = [permit EXCEPT ![p] = j]
    /\ UNCHANGED <<submitted, cancelled, started, answer>>

\* From here on the command may have a process.
Begins(p) ==
    /\ permit[p] # NoJob /\ permit[p] \notin cancelled
    /\ p \notin started
    /\ started' = started \cup {p}
    /\ UNCHANGED <<submitted, cancelled, permit, answer>>

\* What may be said of a command: it was refused or stopped because of a
\* cancel(), it ran into its own timeout, or it ended by itself.
Truthful(p, a) ==
    LET j == permit[p] IN
    IF p \notin started THEN a = "cancelled" /\ j \in cancelled
    ELSE \/ a \in {"output", "error"}
         \/ a \in {"cancelled", "signal"} /\ j \in cancelled
         \/ a = "timedOut" /\ j \in Timed

\* The one answer of the command; its permit is free again.
Respond(p, a) ==
    /\ permit[p] # NoJob /\ answer[permit[p]] = "none"
    /\ Truthful(p, a)
    /\ answer' = [answer EXCEPT ![permit[p]] = a]
    /\ permit' = [permit EXCEPT ![p] = NoJob]
    /\ started' = started \ {p}
    /\ UNCHANGED <<submitted, cancelled>>

CmdNext ==
    \/ \E j \in Job : Submit(j) \/ \E p \in Permit : Admit(p, j)
    \/ \E js \in SUBSET submitted : CancelAll(js)
    \/ \E p \in Permit : Begins(p)
    \/ \E p \in Permit, a \in {"output", "signal", "cancelled", "timedOut", "error"} :
          Respond(p, a)

CommandsSpec == CmdInit /\ [][CmdNext]_cmdVars

=============================================================================
