------------------------------ MODULE Tunnels ------------------------------
(***************************************************************************)
(* Port forwarding over shared SSH connections:                            *)
(* velowork-terminal/src/tunnel_engine.rs and transport_pool.rs, started   *)
(* and stopped from tunnel_panel.rs.                                       *)
(*                                                                         *)
(* A Task is a future on the runtime: the loop of one start of a tunnel,   *)
(* or one connection that such a loop accepted.  A remote tunnel's loop    *)
(* and every connection get a transport, open a channel on it, register    *)
(* it and use it.  A step is what a task does between two awaits.          *)
(*                                                                         *)
(* External: the network, which may drop a transport, and the server,      *)
(* which forwards a port for as long as the transport that asked for it    *)
(* is open, and forwards it once.                                          *)
(***************************************************************************)
EXTENDS Naturals, FiniteSets

CONSTANTS Tunnel,
          Remote,         \* the tunnels that are TunnelKind::Remote
          Session, SessionOf,
          PortOf,         \* the local_bind of a tunnel that is not remote
          MaxTasks,       \* bound: starts and accepted connections
          MaxTransports,  \* bound: connections made to the servers
          MaxDrops        \* bound: connections that the network closes

ASSUME TunnelAssumption ==
    Tunnel # {} /\ Remote \subseteq Tunnel /\ SessionOf \in [Tunnel -> Session]
ASSUME BoundAssumption == MaxTasks \in Nat /\ MaxTransports \in Nat /\ MaxDrops \in Nat

Task == 1 .. MaxTasks
Transport == 1 .. MaxTransports
None == 0

VARIABLES
    handle,    \* TunnelEngine.handles: the loop of each tunnel
    status,    \* what a loop last sent to its TunnelHandle
    stopped,   \* the loops whose stop_tx has sent true
    loops,     \* the tasks that are loops
    tun, pc, via,   \* of each task: its tunnel, place and transport
    pool,      \* ConnectionManager.transports
    made,      \* the number of transports made so far
    open,      \* the transports that are not closed
    session,   \* SharedTransport.session_id
    channels,  \* SharedTransport.active_channels, counted by tunnel
    old,       \* the transports whose last_used is over the timeout
    doomed,    \* what the idle cleaner is about to remove
    forwards,  \* what each server connection forwards; external
    dropped,   \* history: closed by the network
    exposed    \* history: tasks whose registration does not protect them

engineVars == <<handle, status, stopped>>
taskVars == <<loops, tun, pc, via>>
poolVars == <<pool, made, open, session, channels, old, doomed>>
vars == <<engineVars, taskVars, poolVars, forwards, dropped, exposed>>

PC == {"none", "queued", "begun", "serving", "waiting", "connecting", "got",
       "opened", "using", "ended"}

TypeOK ==
    /\ handle \in [Tunnel -> Task \cup {None}]
    /\ status \in [Task -> {"Running", "Error", "Stopped"}]
    /\ stopped \subseteq loops /\ loops \subseteq Task
    /\ tun \in [Task -> Tunnel] /\ pc \in [Task -> PC]
    /\ via \in [Task -> Transport \cup {None}]
    /\ pool \in [Session -> Transport \cup {None}]
    /\ made \in 0 .. MaxTransports /\ open \subseteq 1 .. made
    /\ session \in [Transport -> Session]
    /\ channels \in [Transport -> [Tunnel -> Nat]]
    /\ old \subseteq Transport /\ doomed \subseteq Transport
    /\ forwards \in [Transport -> SUBSET Tunnel]
    /\ dropped \subseteq Transport /\ exposed \subseteq Task

Init ==
    /\ handle = [t \in Tunnel |-> None]
    /\ status = [k \in Task |-> "Running"]
    /\ stopped = {} /\ loops = {}
    /\ tun = [k \in Task |-> CHOOSE t \in Tunnel : TRUE]
    /\ pc = [k \in Task |-> "none"]
    /\ via = [k \in Task |-> None]
    /\ pool = [s \in Session |-> None]
    /\ made = 0 /\ open = {}
    /\ session = [x \in Transport |-> CHOOSE s \in Session : TRUE]
    /\ channels = [x \in Transport |-> [t \in Tunnel |-> 0]]
    /\ old = {} /\ doomed = {}
    /\ forwards = [x \in Transport |-> {}]
    /\ dropped = {} /\ exposed = {}

-----------------------------------------------------------------------------
Goto(k, l) == pc' = [pc EXCEPT ![k] = l]

\* A task's variables go with it.
Ends(k) ==
    /\ Goto(k, "ended")
    /\ via' = [via EXCEPT ![k] = None]

\* A task that was not there before.
Spawned(k, t, l) ==
    /\ pc[k] = "none" /\ \A j \in Task : j < k => pc[j] # "none"
    /\ tun' = [tun EXCEPT ![k] = t]
    /\ Goto(k, l)

Send(k, s) == status' = [status EXCEPT ![k] = s]

\* A task gives up: a loop says so.
Fail(k) ==
    /\ Ends(k)
    /\ IF k \in loops THEN Send(k, "Error") ELSE UNCHANGED status

-----------------------------------------------------------------------------
(* The panel and the engine.                                               *)

\* toggle_tunnel: the row is not green, so a start is spawned.
ClickStart(t, k) ==
    /\ handle[t] # None => status[handle[t]] # "Running"
    /\ Spawned(k, t, "queued")
    /\ loops' = loops \cup {k}
    /\ UNCHANGED <<engineVars, via, poolVars, forwards, dropped, exposed>>

\* The mutated form leaves the loop before it alone.
Replace(t, k) == handle' = [handle EXCEPT ![t] = k] /\ UNCHANGED stopped

Supersede(t, k) ==
    /\ handle' = [handle EXCEPT ![t] = k]
    /\ stopped' = IF handle[t] = None THEN stopped ELSE stopped \cup {handle[t]}

\* start_tunnel: under the lock the loop before it is told to stop.  A remote
\* tunnel's loop begins by waiting for its transport.
StartTunnel(k) ==
    /\ pc[k] = "queued"
    /\ Supersede(tun[k], k)
    /\ Goto(k, IF tun[k] \in Remote THEN "waiting" ELSE "begun")
    /\ UNCHANGED <<status, loops, tun, via, poolVars, forwards, dropped, exposed>>

\* stop_tunnel: the row is green, or the tunnel is deleted.
StopTunnel(t) ==
    /\ handle[t] # None
    /\ handle' = [handle EXCEPT ![t] = None]
    /\ stopped' = stopped \cup {handle[t]}
    /\ UNCHANGED <<status, taskVars, poolVars, forwards, dropped, exposed>>

-----------------------------------------------------------------------------
(* run_tunnel_loop.                                                        *)

PortTaken(t) ==
    \E j \in loops : pc[j] = "serving" /\ PortOf[tun[j]] = PortOf[t]

\* A local or dynamic tunnel binds its port, which another loop or another
\* program may hold; a target that cannot be parsed ends it as well.
Bind(k) ==
    /\ pc[k] = "begun"
    /\ \/ /\ ~PortTaken(tun[k])
          /\ Send(k, "Running") /\ Goto(k, "serving")
          /\ UNCHANGED via
       \/ Fail(k)
    /\ UNCHANGED <<handle, stopped, loops, tun, poolVars, forwards, dropped, exposed>>

\* A dynamic tunnel's connection first reads the handshake; if that fails, it
\* has touched nothing.
Accept(k, c) ==
    /\ pc[k] = "serving"
    /\ Spawned(c, tun[k], "waiting")
    /\ UNCHANGED <<engineVars, loops, via, poolVars, forwards, dropped, exposed>>

\* The loop of a local or dynamic tunnel ends, and its listener with it; the
\* connections it accepted go on.
StopServing(k) ==
    /\ pc[k] = "serving" /\ k \in stopped
    /\ Send(k, "Stopped") /\ Ends(k)
    /\ UNCHANGED <<handle, stopped, loops, tun, poolVars, forwards, dropped, exposed>>

-----------------------------------------------------------------------------
(* get_or_connect and its retries.  The lock of the pool is held by a task *)
(* that connects and by the cleaner while it removes.                      *)

\* The mutated form connects without the lock.
LockFreeSoon == doomed = {}

LockFree == doomed = {} /\ \A k \in Task : pc[k] # "connecting"

Acquire(k) ==
    LET x == pool[SessionOf[tun[k]]] IN
    /\ pc[k] = "waiting"
    /\ LockFree
    /\ IF x \in open THEN via' = [via EXCEPT ![k] = x] /\ Goto(k, "got")
                     ELSE Goto(k, "connecting") /\ UNCHANGED via
    /\ UNCHANGED <<engineVars, loops, tun, poolVars, forwards, dropped, exposed>>

Connected(k) ==
    LET x == made + 1
        s == SessionOf[tun[k]]
    IN
    /\ pc[k] = "connecting"
    /\ made < MaxTransports
    /\ made' = x
    /\ open' = open \cup {x}
    /\ session' = [session EXCEPT ![x] = s]
    /\ pool' = [pool EXCEPT ![s] = x]
    /\ via' = [via EXCEPT ![k] = x]
    /\ Goto(k, "got")
    /\ UNCHANGED <<engineVars, loops, tun, channels, old, doomed, forwards,
                   dropped, exposed>>

\* An attempt fails: the task sleeps and tries again, or this was its third.
Retry(k) ==
    /\ pc[k] = "connecting"
    /\ Goto(k, "waiting")
    /\ UNCHANGED <<engineVars, loops, tun, via, poolVars, forwards, dropped, exposed>>

GiveUp(k) ==
    /\ pc[k] = "connecting"
    /\ Fail(k)
    /\ UNCHANGED <<handle, stopped, loops, tun, poolVars, forwards, dropped, exposed>>

-----------------------------------------------------------------------------
(* A channel.                                                              *)

\* channel_open_direct_tcpip; for a loop, tcpip_forward.
Open(k) ==
    /\ pc[k] = "got"
    /\ \/ /\ via[k] \in open
          /\ k \in loops => tun[k] \notin forwards[via[k]]
          /\ forwards' = IF k \in loops THEN [forwards EXCEPT ![via[k]] = @ \cup {tun[k]}]
                                        ELSE forwards
          /\ Goto(k, "opened")
          /\ IF k \in loops THEN Send(k, "Running") ELSE UNCHANGED status
          /\ UNCHANGED via
       \/ Fail(k) /\ UNCHANGED forwards
    /\ UNCHANGED <<handle, stopped, loops, tun, poolVars, dropped, exposed>>

\* The mutated form only notes the time.
RegisterTime(k) ==
    LET x == via[k] IN
    /\ pc[k] = "opened"
    /\ old' = old \ {x}
    /\ Goto(k, "using")
    /\ exposed' = IF x \in open \ doomed THEN exposed ELSE exposed \cup {k}
    /\ UNCHANGED <<engineVars, loops, tun, via, pool, made, open, session, channels, doomed,
                   forwards, dropped>>

\* register_channel, which knows neither whether the transport is still open
\* nor whether the cleaner has counted already.
Register(k) ==
    LET x == via[k] IN
    /\ pc[k] = "opened"
    /\ channels' = [channels EXCEPT ![x][tun[k]] = @ + 1]
    /\ old' = old \ {x}
    /\ Goto(k, "using")
    /\ exposed' = IF x \in open \ doomed THEN exposed ELSE exposed \cup {k}
    /\ UNCHANGED <<engineVars, loops, tun, via, pool, made, open, session, doomed,
                   forwards, dropped>>

\* The reply of the SOCKS handshake cannot be written.
ReplyFails(k) ==
    /\ pc[k] = "opened" /\ k \notin loops
    /\ Ends(k)
    /\ UNCHANGED <<engineVars, loops, tun, poolVars, forwards, dropped, exposed>>

Users(x, t) == {k \in Task : pc[k] = "using" /\ via[k] = x /\ tun[k] = t}

\* unregister_channel removes every entry of the tunnel, whoever made it.
Unregister(k) ==
    LET x == via[k] IN
    /\ channels' = [channels EXCEPT ![x][tun[k]] = 0]
    /\ old' = old \ {x}
    /\ exposed' = (exposed \cup Users(x, tun[k])) \ {k}

\* Either end closes the connection, or the transport is gone.
Hangup(k) ==
    /\ pc[k] = "using" /\ k \notin loops
    /\ Unregister(k)
    /\ Ends(k)
    /\ UNCHANGED <<engineVars, loops, tun, pool, made, open, session, doomed,
                   forwards, dropped>>

\* The mutated form waits for the user only.
Over(k) == k \in stopped

\* The loop of a remote tunnel is told to stop, or finds within a second that
\* its transport is closed; then Stopped follows the error it sends.  The
\* server is not told.
EndsRemote(k) == k \in stopped \/ via[k] \notin open

StopRemote(k) ==
    /\ pc[k] = "using" /\ k \in loops
    /\ EndsRemote(k)
    /\ Unregister(k)
    /\ Send(k, "Stopped") /\ Ends(k)
    /\ UNCHANGED <<handle, stopped, loops, tun, pool, made, open, session, doomed,
                   forwards, dropped>>

-----------------------------------------------------------------------------
(* The idle cleaner, and the network.                                      *)

Empty(x) == \A t \in Tunnel : channels[x][t] = 0

\* Time that passes while a channel is registered does not count: taking it
\* off the list sets last_used again.
Age(x) ==
    /\ x \in open \ old
    /\ Empty(x)
    /\ old' = old \cup {x}
    /\ UNCHANGED <<engineVars, taskVars, pool, made, open, session, channels, doomed,
                   forwards, dropped, exposed>>

Idle == {x \in old : pool[session[x]] = x /\ Empty(x)}

\* spawn_idle_cleaner: first the list, then, still under the lock of the pool,
\* the removal.
Scan ==
    /\ LockFree
    /\ Idle # {}
    /\ doomed' = Idle
    /\ UNCHANGED <<engineVars, taskVars, pool, made, open, session, channels, old,
                   forwards, dropped, exposed>>

Sweep ==
    /\ doomed # {}
    /\ pool' = [s \in Session |-> IF pool[s] \in doomed THEN None ELSE pool[s]]
    /\ open' = open \ doomed
    /\ forwards' = [x \in Transport |-> IF x \in doomed THEN {} ELSE forwards[x]]
    /\ doomed' = {}
    /\ old' = old \ doomed
    /\ UNCHANGED <<engineVars, taskVars, made, session, channels, dropped, exposed>>

Drop(x) ==
    /\ x \in open /\ Cardinality(dropped) < MaxDrops
    /\ open' = open \ {x}
    /\ dropped' = dropped \cup {x}
    /\ forwards' = [forwards EXCEPT ![x] = {}]
    /\ UNCHANGED <<engineVars, taskVars, pool, made, session, channels, old, doomed, exposed>>

-----------------------------------------------------------------------------
TaskStep(k) ==
    \/ StartTunnel(k) \/ Bind(k) \/ StopServing(k) \/ Acquire(k) \/ Retry(k)
    \/ Connected(k) \/ GiveUp(k) \/ Open(k) \/ Register(k) \/ StopRemote(k)

Next ==
    \/ \E t \in Tunnel : StopTunnel(t) \/ \E k \in Task : ClickStart(t, k)
    \/ \E k \in Task : \/ TaskStep(k) \/ ReplyFails(k) \/ Hangup(k)
                       \/ \E c \in Task : Accept(k, c)
    \/ \E x \in Transport : Age(x) \/ Drop(x)
    \/ Scan \/ Sweep

Spec == Init /\ [][Next]_vars

\* The runtime polls what is ready, and time passes.  No user, peer or network
\* has to do anything, but an attempt to connect ends, and the third is the
\* last.
Fairness ==
    /\ \A k \in Task : WF_vars(TaskStep(k)) /\ SF_vars(Connected(k) \/ GiveUp(k))
    /\ \A x \in Transport : WF_vars(Age(x))
    /\ WF_vars(Scan) /\ WF_vars(Sweep)

FairSpec == Spec /\ Fairness

-----------------------------------------------------------------------------
(* Safety.                                                                 *)

Live(k) == pc[k] \notin {"none", "queued", "ended"}

\* A loop that was not told to stop is the one its tunnel's handle reaches, so
\* no start, stop or failure in whatever order leaves a listener that nobody
\* can stop; and a row that is green has a loop that is still there.
HandlesAreTrue ==
    /\ \A k \in loops \ stopped : Live(k) => handle[tun[k]] = k
    /\ \A t \in Tunnel : handle[t] # None /\ status[handle[t]] = "Running" => Live(handle[t])

\* Every open transport is the one the pool holds for its session: of two
\* tasks that find none, one connects and the other shares.
NoTransportLeaks ==
    \A x \in open : pool[session[x]] = x

\* A registered channel keeps its transport open until it is taken off the
\* list, unless the network closes it.  Exposed, and no more, are the tasks
\* that register on a transport the cleaner has already chosen, and those of
\* a tunnel of which another task has ended since.
InUseStaysOpen ==
    \A k \in Task \ exposed : pc[k] = "using" => via[k] \in open \cup dropped

ConnectionOf(s) == IF pool[s] \in open THEN pool[s] ELSE None

\* The transports that tunnel t may rely on: the cleaner has to spare them.
Relied(t) == {via[k] : k \in {j \in Task \ exposed : pc[j] = "using" /\ tun[j] = t}}

Lending == INSTANCE ConnectionLending WITH
    Connection <- Transport,
    conn <- [s \in Session |-> ConnectionOf(s)],
    loans <- [t \in Tunnel |-> Relied(t)],
    lost <- dropped

\* The pool lends the connections as ConnectionLending says: no race of tasks
\* that connect makes a second one for a session, no tunnel gets that of
\* another session or one that is closed, and the cleaner closes none that a
\* tunnel relies on.
PoolLends == Lending!LendingSpec

(* Liveness, under FairSpec.                                               *)

Overdue(k) ==
    Live(k) /\ (k \in stopped \/ (k \in loops /\ pc[k] = "using" /\ via[k] \notin open))

Unused(x) ==
    x \in open /\ \A k \in Task : via[k] = x => pc[k] \notin {"got", "opened", "using"}

\* Once the user and the peers leave them alone, everything comes to rest: a
\* loop that was told to stop ends and lets go of its port, whatever it was
\* waiting for, a remote tunnel's loop notices that its transport is gone, and
\* a transport that nobody uses is closed.  (With finitely many tasks and
\* transports, none of them may stay overdue or unused for ever.)
ComesToRest ==
    []<>((\A k \in Task : ~Overdue(k)) /\ \A x \in Transport : ~Unused(x))

=============================================================================
