--------------------------- MODULE Tunnels_proofs ---------------------------
(***************************************************************************)
(* Type correctness and the safety invariants of Tunnels, for any tunnels, *)
(* sessions, tasks and transports.                                         *)
(***************************************************************************)
EXTENDS Tunnels, TLAPS

\* A handle is that of a loop of its tunnel, and a loop that has ended has
\* said so.
HandlesAreLoops ==
    /\ \A t \in Tunnel : handle[t] # None =>
          /\ handle[t] \in loops /\ tun[handle[t]] = t
          /\ pc[handle[t]] \notin {"none", "queued"}
    /\ \A k \in loops : pc[k] # "none" /\ (pc[k] = "ended" => status[k] # "Running")
    /\ \A k \in Task : pc[k] \in {"queued", "begun", "serving"} => k \in loops

\* Whoever connects holds the lock of the pool, and its session has no open
\* transport.
LockIsHeld ==
    /\ \A k \in Task : pc[k] = "connecting" =>
          doomed = {} /\ pool[SessionOf[tun[k]]] \notin open
    /\ \A j, k \in Task : pc[j] = "connecting" /\ pc[k] = "connecting" => j = k

ViaIsKnown ==
    \A k \in Task : pc[k] \in {"got", "opened", "using"} => via[k] \in Transport

\* What protects a task that is not exposed: its entry in the list, which the
\* cleaner has not found empty.
Protected ==
    \A k \in Task \ exposed : pc[k] = "using" =>
        /\ via[k] \in (open \cup dropped) \ doomed
        /\ channels[via[k]][tun[k]] # 0

IInv ==
    /\ TypeOK /\ HandlesAreTrue /\ NoTransportLeaks
    /\ HandlesAreLoops /\ LockIsHeld /\ ViaIsKnown /\ Protected

(* One more element keeps a subset a subset. *)
LEMMA AddToSubset ==
    ASSUME NEW S, NEW A \in SUBSET S, NEW e \in S
    PROVE  A \cup {e} \in SUBSET S
  OBVIOUS

LEMMA NextTypeOK ==
  ASSUME IInv, [Next]_vars
  PROVE  TypeOK'
<1> USE TunnelAssumption, BoundAssumption DEF IInv, TypeOK, PC, ViaIsKnown, HandlesAreLoops,
      Goto, Ends, Send, Fail, engineVars, taskVars, poolVars, Task, Transport, None
<1>1. ASSUME NEW t \in Tunnel, StopTunnel(t) PROVE TypeOK'
  BY <1>1 DEF StopTunnel
<1>2. ASSUME NEW t \in Tunnel, NEW k \in Task, ClickStart(t, k) PROVE TypeOK'
  BY <1>2 DEF ClickStart, Spawned
<1>3. ASSUME NEW k \in Task, StartTunnel(k) PROVE TypeOK'
  <2>1. handle' \in [Tunnel -> Task \cup {None}] /\ pc' \in [Task -> PC]
    BY <1>3 DEF StartTunnel, Supersede
  <2>2. stopped' \subseteq loops
    BY <1>3 DEF StartTunnel, Supersede
  <2> QED BY <1>3, <2>1, <2>2 DEF StartTunnel
<1>4. ASSUME NEW k \in Task, Bind(k) PROVE TypeOK'
  <2>1. CASE Send(k, "Running") /\ Goto(k, "serving") /\ UNCHANGED via
    BY <1>4, <2>1 DEF Bind
  <2>2. CASE Fail(k)
    BY <1>4, <2>2 DEF Bind
  <2> QED BY <1>4, <2>1, <2>2 DEF Bind
<1>5. ASSUME NEW k \in Task, NEW c \in Task, Accept(k, c) PROVE TypeOK'
  BY <1>5 DEF Accept, Spawned
<1>6. ASSUME NEW k \in Task, StopServing(k) PROVE TypeOK'
  BY <1>6 DEF StopServing
<1>7. ASSUME NEW k \in Task, Acquire(k) PROVE TypeOK'
  <2>1. CASE pool[SessionOf[tun[k]]] \in open
    <3>1. pool[SessionOf[tun[k]]] \in Transport
      BY <2>1
    <3> QED BY <1>7, <2>1, <3>1 DEF Acquire
  <2>2. CASE pool[SessionOf[tun[k]]] \notin open
    BY <1>7, <2>2 DEF Acquire
  <2> QED BY <2>1, <2>2
<1>8. ASSUME NEW k \in Task, Connected(k) PROVE TypeOK'
  <2> DEFINE x == made + 1
  <2>1. /\ x \in Transport /\ x \in 1 .. made' /\ made' \in 0 .. MaxTransports
        /\ SessionOf[tun[k]] \in Session /\ made' = x
    BY <1>8 DEF Connected
  <2>2. /\ session' = [session EXCEPT ![x] = SessionOf[tun[k]]]
        /\ pool' = [pool EXCEPT ![SessionOf[tun[k]]] = x]
        /\ via' = [via EXCEPT ![k] = x] /\ pc' = [pc EXCEPT ![k] = "got"]
        /\ open' = open \cup {x}
        /\ UNCHANGED <<handle, status, stopped, loops, tun, channels, old, doomed, forwards,
                       dropped, exposed>>
    BY <1>8 DEF Connected
  <2>3. open' \subseteq 1 .. made'
    BY <2>1, <2>2
  <2> HIDE DEF x
  <2> QED BY <2>1, <2>2, <2>3
<1>9. ASSUME NEW k \in Task, Retry(k) PROVE TypeOK'
  BY <1>9 DEF Retry
<1>10. ASSUME NEW k \in Task, GiveUp(k) PROVE TypeOK'
  BY <1>10 DEF GiveUp
<1>11. ASSUME NEW k \in Task, Open(k) PROVE TypeOK'
  <2>0. via[k] \in Transport /\ tun[k] \in Tunnel /\ forwards \in [Transport -> SUBSET Tunnel]
    BY <1>11 DEF Open
  <2>1. forwards' \in [Transport -> SUBSET Tunnel]
    <3> DEFINE more == forwards[via[k]] \cup {tun[k]}
    <3>1. forwards' = forwards \/ forwards' = [forwards EXCEPT ![via[k]] = more]
      BY <1>11 DEF Open
    <3>2. more \in SUBSET Tunnel
      <4>1. forwards[via[k]] \in SUBSET Tunnel
        BY <2>0
      <4> QED BY <2>0, <4>1, AddToSubset
    <3> HIDE DEF IInv, TypeOK, more
    <3> QED BY <2>0, <3>1, <3>2
  <2>2. CASE Fail(k)
    BY <1>11, <2>1, <2>2 DEF Open
  <2>3. CASE /\ Goto(k, "opened") /\ UNCHANGED via
             /\ IF k \in loops THEN Send(k, "Running") ELSE UNCHANGED status
    BY <1>11, <2>1, <2>3 DEF Open
  <2> QED BY <1>11, <2>2, <2>3 DEF Open
<1>12. ASSUME NEW k \in Task, Register(k) PROVE TypeOK'
  <2>1. via[k] \in Transport
    BY <1>12 DEF Register
  <2>2. channels' \in [Transport -> [Tunnel -> Nat]]
    BY <1>12, <2>1 DEF Register
  <2>3. old' \subseteq Transport /\ exposed' \subseteq Task
    BY <1>12 DEF Register
  <2>4. pc' \in [Task -> PC]
    BY <1>12 DEF Register
  <2> QED BY <1>12, <2>2, <2>3, <2>4 DEF Register
<1>13. ASSUME NEW k \in Task, ReplyFails(k) PROVE TypeOK'
  BY <1>13 DEF ReplyFails
<1>14. ASSUME NEW k \in Task, Hangup(k) PROVE TypeOK'
  BY <1>14 DEF Hangup, Unregister, Users
<1>15. ASSUME NEW k \in Task, StopRemote(k) PROVE TypeOK'
  BY <1>15 DEF StopRemote, Unregister, EndsRemote, Users
<1>16. ASSUME NEW x \in Transport, Age(x) PROVE TypeOK'
  BY <1>16 DEF Age
<1>17. ASSUME NEW x \in Transport, Drop(x) PROVE TypeOK'
  BY <1>17 DEF Drop
<1>18. CASE Scan
  BY <1>18 DEF Scan, LockFree, Idle, Empty
<1>19. CASE Sweep
  BY <1>19 DEF Sweep
<1>20. CASE UNCHANGED vars
  BY <1>20 DEF vars
<1> QED
  BY <1>1, <1>2, <1>3, <1>4, <1>5, <1>6, <1>7, <1>8, <1>9, <1>10, <1>11, <1>12, <1>13,
     <1>14, <1>15, <1>16, <1>17, <1>18, <1>19, <1>20 DEF Next, TaskStep

LEMMA NextViaIsKnown ==
  ASSUME IInv, [Next]_vars
  PROVE  ViaIsKnown'
<1> USE TunnelAssumption, BoundAssumption DEF IInv, TypeOK, ViaIsKnown,
      Goto, Ends, Send, Fail, engineVars, taskVars, poolVars, Task, Transport, None
<1>1. ASSUME NEW t \in Tunnel, StopTunnel(t) PROVE ViaIsKnown'
  BY <1>1 DEF StopTunnel
<1>2. ASSUME NEW t \in Tunnel, NEW k \in Task, ClickStart(t, k) PROVE ViaIsKnown'
  BY <1>2 DEF ClickStart, Spawned
<1>3. ASSUME NEW k \in Task, StartTunnel(k) PROVE ViaIsKnown'
  BY <1>3 DEF StartTunnel, Supersede
<1>4. ASSUME NEW k \in Task, Bind(k) PROVE ViaIsKnown'
  BY <1>4 DEF Bind
<1>5. ASSUME NEW k \in Task, NEW c \in Task, Accept(k, c) PROVE ViaIsKnown'
  BY <1>5 DEF Accept, Spawned
<1>6. ASSUME NEW k \in Task, StopServing(k) PROVE ViaIsKnown'
  BY <1>6 DEF StopServing
<1>7. ASSUME NEW k \in Task, Acquire(k) PROVE ViaIsKnown'
  <2>1. CASE pool[SessionOf[tun[k]]] \in open
    <3>1. pool[SessionOf[tun[k]]] \in Transport
      BY <2>1
    <3> QED BY <1>7, <2>1, <3>1 DEF Acquire
  <2>2. CASE pool[SessionOf[tun[k]]] \notin open
    BY <1>7, <2>2 DEF Acquire
  <2> QED BY <2>1, <2>2
<1>8. ASSUME NEW k \in Task, Connected(k) PROVE ViaIsKnown'
  BY <1>8 DEF Connected
<1>9. ASSUME NEW k \in Task, Retry(k) PROVE ViaIsKnown'
  BY <1>9 DEF Retry
<1>10. ASSUME NEW k \in Task, GiveUp(k) PROVE ViaIsKnown'
  BY <1>10 DEF GiveUp
<1>11. ASSUME NEW k \in Task, Open(k) PROVE ViaIsKnown'
  BY <1>11 DEF Open
<1>12. ASSUME NEW k \in Task, Register(k) PROVE ViaIsKnown'
  BY <1>12 DEF Register
<1>13. ASSUME NEW k \in Task, ReplyFails(k) PROVE ViaIsKnown'
  BY <1>13 DEF ReplyFails
<1>14. ASSUME NEW k \in Task, Hangup(k) PROVE ViaIsKnown'
  BY <1>14 DEF Hangup, Unregister, Users
<1>15. ASSUME NEW k \in Task, StopRemote(k) PROVE ViaIsKnown'
  BY <1>15 DEF StopRemote, Unregister, EndsRemote, Users
<1>16. ASSUME NEW x \in Transport, Age(x) PROVE ViaIsKnown'
  BY <1>16 DEF Age
<1>17. ASSUME NEW x \in Transport, Drop(x) PROVE ViaIsKnown'
  BY <1>17 DEF Drop
<1>18. CASE Scan
  BY <1>18 DEF Scan, LockFree, Idle, Empty
<1>19. CASE Sweep
  BY <1>19 DEF Sweep
<1>20. CASE UNCHANGED vars
  BY <1>20 DEF vars
<1> QED
  BY <1>1, <1>2, <1>3, <1>4, <1>5, <1>6, <1>7, <1>8, <1>9, <1>10, <1>11, <1>12, <1>13,
     <1>14, <1>15, <1>16, <1>17, <1>18, <1>19, <1>20 DEF Next, TaskStep

LEMMA NextHandles ==
  ASSUME IInv, [Next]_vars
  PROVE  HandlesAreTrue' /\ HandlesAreLoops'
<1> USE TunnelAssumption, BoundAssumption DEF IInv, TypeOK, HandlesAreTrue, HandlesAreLoops, Live,
      Goto, Ends, Send, Fail, engineVars, taskVars, poolVars, Task, Transport, None
<1>1. ASSUME NEW t \in Tunnel, StopTunnel(t) PROVE HandlesAreTrue' /\ HandlesAreLoops'
  BY <1>1 DEF StopTunnel
<1>2. ASSUME NEW t \in Tunnel, NEW k \in Task, ClickStart(t, k) PROVE HandlesAreTrue' /\ HandlesAreLoops'
  BY <1>2 DEF ClickStart, Spawned
<1>3. ASSUME NEW k \in Task, StartTunnel(k) PROVE HandlesAreTrue' /\ HandlesAreLoops'
  <2>1. /\ handle' = [handle EXCEPT ![tun[k]] = k] /\ pc[k] = "queued" /\ k \in loops
        /\ stopped' = IF handle[tun[k]] = None THEN stopped ELSE stopped \cup {handle[tun[k]]}
        /\ pc' = [pc EXCEPT ![k] = IF tun[k] \in Remote THEN "waiting" ELSE "begun"]
        /\ UNCHANGED <<status, loops, tun>>
    BY <1>3 DEF StartTunnel, Supersede
  <2>2. HandlesAreLoops'
    BY <2>1
  <2>3. ASSUME NEW j \in loops \ stopped', Live(j)' PROVE handle'[tun[j]] = j
    <3>1. CASE j = k
      BY <2>1, <3>1
    <3>2. CASE j # k
      <4>1. Live(j) /\ j \notin stopped
        BY <2>1, <2>3, <3>2
      <4>2. handle[tun[j]] = j /\ j # None
        BY <4>1, <2>3
      <4>3. tun[j] # tun[k]
        BY <2>1, <2>3, <4>2
      <4> QED BY <2>1, <4>2, <4>3
    <3> QED BY <3>1, <3>2
  <2>4. ASSUME NEW t \in Tunnel, handle'[t] # None, status[handle'[t]] = "Running"
        PROVE  pc'[handle'[t]] \notin {"none", "queued", "ended"}
    <3>1. CASE t = tun[k]
      BY <2>1, <3>1
    <3>2. CASE t # tun[k]
      BY <2>1, <2>4, <3>2
    <3> QED BY <3>1, <3>2
  <2> QED BY <2>1, <2>2, <2>3, <2>4
<1>4. ASSUME NEW k \in Task, Bind(k) PROVE HandlesAreTrue' /\ HandlesAreLoops'
  <2>1. k \in loops /\ UNCHANGED <<handle, stopped, loops, tun>>
    BY <1>4 DEF Bind
  <2>2. CASE Send(k, "Running") /\ Goto(k, "serving")
    BY <1>4, <2>1, <2>2 DEF Bind
  <2>3. CASE Fail(k)
    BY <1>4, <2>1, <2>3 DEF Bind
  <2> QED BY <1>4, <2>2, <2>3 DEF Bind
<1>5. ASSUME NEW k \in Task, NEW c \in Task, Accept(k, c) PROVE HandlesAreTrue' /\ HandlesAreLoops'
  BY <1>5 DEF Accept, Spawned
<1>6. ASSUME NEW k \in Task, StopServing(k) PROVE HandlesAreTrue' /\ HandlesAreLoops'
  BY <1>6 DEF StopServing
<1>7. ASSUME NEW k \in Task, Acquire(k) PROVE HandlesAreTrue' /\ HandlesAreLoops'
  <2>1. pc' \in {[pc EXCEPT ![k] = "got"], [pc EXCEPT ![k] = "connecting"]} /\ pc[k] = "waiting"
    BY <1>7 DEF Acquire
  <2>2. UNCHANGED <<handle, status, stopped, loops, tun>>
    BY <1>7 DEF Acquire
  <2> QED BY <2>1, <2>2
<1>8. ASSUME NEW k \in Task, Connected(k) PROVE HandlesAreTrue' /\ HandlesAreLoops'
  BY <1>8 DEF Connected
<1>9. ASSUME NEW k \in Task, Retry(k) PROVE HandlesAreTrue' /\ HandlesAreLoops'
  BY <1>9 DEF Retry
<1>10. ASSUME NEW k \in Task, GiveUp(k) PROVE HandlesAreTrue' /\ HandlesAreLoops'
  BY <1>10 DEF GiveUp
<1>11. ASSUME NEW k \in Task, Open(k) PROVE HandlesAreTrue' /\ HandlesAreLoops'
  <2>1. UNCHANGED <<handle, stopped, loops, tun>> /\ pc[k] = "got"
    BY <1>11 DEF Open
  <2>2. CASE Goto(k, "opened") /\ IF k \in loops THEN Send(k, "Running") ELSE UNCHANGED status
    BY <2>1, <2>2
  <2>3. CASE Fail(k)
    BY <2>1, <2>3
  <2> QED BY <1>11, <2>2, <2>3 DEF Open
<1>12. ASSUME NEW k \in Task, Register(k) PROVE HandlesAreTrue' /\ HandlesAreLoops'
  BY <1>12 DEF Register
<1>13. ASSUME NEW k \in Task, ReplyFails(k) PROVE HandlesAreTrue' /\ HandlesAreLoops'
  BY <1>13 DEF ReplyFails
<1>14. ASSUME NEW k \in Task, Hangup(k) PROVE HandlesAreTrue' /\ HandlesAreLoops'
  BY <1>14 DEF Hangup, Unregister, Users
<1>15. ASSUME NEW k \in Task, StopRemote(k) PROVE HandlesAreTrue' /\ HandlesAreLoops'
  BY <1>15 DEF StopRemote, Unregister, EndsRemote, Users
<1>16. ASSUME NEW x \in Transport, Age(x) PROVE HandlesAreTrue' /\ HandlesAreLoops'
  BY <1>16 DEF Age
<1>17. ASSUME NEW x \in Transport, Drop(x) PROVE HandlesAreTrue' /\ HandlesAreLoops'
  BY <1>17 DEF Drop
<1>18. CASE Scan
  BY <1>18 DEF Scan, LockFree, Idle, Empty
<1>19. CASE Sweep
  BY <1>19 DEF Sweep
<1>20. CASE UNCHANGED vars
  BY <1>20 DEF vars
<1> QED
  BY <1>1, <1>2, <1>3, <1>4, <1>5, <1>6, <1>7, <1>8, <1>9, <1>10, <1>11, <1>12, <1>13,
     <1>14, <1>15, <1>16, <1>17, <1>18, <1>19, <1>20 DEF Next, TaskStep

LEMMA NextPool ==
  ASSUME IInv, [Next]_vars
  PROVE  NoTransportLeaks' /\ LockIsHeld'
<1> USE TunnelAssumption, BoundAssumption DEF IInv, TypeOK, NoTransportLeaks, LockIsHeld,
      Goto, Ends, Send, Fail, engineVars, taskVars, poolVars, Task, Transport, None
<1>1. ASSUME NEW t \in Tunnel, StopTunnel(t) PROVE NoTransportLeaks' /\ LockIsHeld'
  BY <1>1 DEF StopTunnel
<1>2. ASSUME NEW t \in Tunnel, NEW k \in Task, ClickStart(t, k) PROVE NoTransportLeaks' /\ LockIsHeld'
  BY <1>2 DEF ClickStart, Spawned
<1>3. ASSUME NEW k \in Task, StartTunnel(k) PROVE NoTransportLeaks' /\ LockIsHeld'
  BY <1>3 DEF StartTunnel, Supersede
<1>4. ASSUME NEW k \in Task, Bind(k) PROVE NoTransportLeaks' /\ LockIsHeld'
  <2>1. /\ UNCHANGED <<tun, pool, open, session, doomed>>
        /\ \A j \in Task : pc'[j] = "connecting" => pc[j] = "connecting"
    BY <1>4 DEF Bind
  <2> QED BY <2>1
<1>5. ASSUME NEW k \in Task, NEW c \in Task, Accept(k, c) PROVE NoTransportLeaks' /\ LockIsHeld'
  BY <1>5 DEF Accept, Spawned
<1>6. ASSUME NEW k \in Task, StopServing(k) PROVE NoTransportLeaks' /\ LockIsHeld'
  BY <1>6 DEF StopServing
<1>7. ASSUME NEW k \in Task, Acquire(k) PROVE NoTransportLeaks' /\ LockIsHeld'
  BY <1>7 DEF Acquire, LockFree
<1>8. ASSUME NEW k \in Task, Connected(k) PROVE NoTransportLeaks' /\ LockIsHeld'
  <2> DEFINE x == made + 1
  <2>1. x \in Transport /\ x \notin open /\ SessionOf[tun[k]] \in Session
    BY <1>8 DEF Connected
  <2>2. /\ session' = [session EXCEPT ![x] = SessionOf[tun[k]]]
        /\ pool' = [pool EXCEPT ![SessionOf[tun[k]]] = x]
        /\ pc' = [pc EXCEPT ![k] = "got"] /\ open' = open \cup {x}
        /\ pc[k] = "connecting" /\ pool[SessionOf[tun[k]]] \notin open
    BY <1>8 DEF Connected
  <2> HIDE DEF x
  <2>3. \A j \in Task : pc'[j] # "connecting"
    BY <2>2
  <2>4. ASSUME NEW y \in open' PROVE pool'[session'[y]] = y
    <3>1. CASE y = x
      BY <2>1, <2>2, <3>1
    <3>2. CASE y # x
      <4>1. y \in open /\ y \in Transport /\ session'[y] = session[y]
        BY <2>1, <2>2, <3>2
      <4>2. pool[session[y]] = y /\ session[y] \in Session
        BY <4>1
      <4>3. session[y] # SessionOf[tun[k]]
        BY <2>2, <4>1, <4>2
      <4> QED BY <2>1, <2>2, <4>1, <4>2, <4>3
    <3> QED BY <3>1, <3>2
  <2> QED BY <2>3, <2>4
<1>9. ASSUME NEW k \in Task, Retry(k) PROVE NoTransportLeaks' /\ LockIsHeld'
  BY <1>9 DEF Retry
<1>10. ASSUME NEW k \in Task, GiveUp(k) PROVE NoTransportLeaks' /\ LockIsHeld'
  BY <1>10 DEF GiveUp
<1>11. ASSUME NEW k \in Task, Open(k) PROVE NoTransportLeaks' /\ LockIsHeld'
  <2>1. /\ UNCHANGED <<tun, pool, open, session, doomed>>
        /\ \A j \in Task : pc'[j] = "connecting" => pc[j] = "connecting"
    BY <1>11 DEF Open
  <2> QED BY <2>1
<1>12. ASSUME NEW k \in Task, Register(k) PROVE NoTransportLeaks' /\ LockIsHeld'
  BY <1>12 DEF Register
<1>13. ASSUME NEW k \in Task, ReplyFails(k) PROVE NoTransportLeaks' /\ LockIsHeld'
  BY <1>13 DEF ReplyFails
<1>14. ASSUME NEW k \in Task, Hangup(k) PROVE NoTransportLeaks' /\ LockIsHeld'
  BY <1>14 DEF Hangup, Unregister, Users
<1>15. ASSUME NEW k \in Task, StopRemote(k) PROVE NoTransportLeaks' /\ LockIsHeld'
  BY <1>15 DEF StopRemote, Unregister, EndsRemote, Users
<1>16. ASSUME NEW x \in Transport, Age(x) PROVE NoTransportLeaks' /\ LockIsHeld'
  BY <1>16 DEF Age
<1>17. ASSUME NEW x \in Transport, Drop(x) PROVE NoTransportLeaks' /\ LockIsHeld'
  BY <1>17 DEF Drop
<1>18. CASE Scan
  BY <1>18 DEF Scan, LockFree, Idle, Empty
<1>19. CASE Sweep
  BY <1>19 DEF Sweep
<1>20. CASE UNCHANGED vars
  BY <1>20 DEF vars
<1> QED
  BY <1>1, <1>2, <1>3, <1>4, <1>5, <1>6, <1>7, <1>8, <1>9, <1>10, <1>11, <1>12, <1>13,
     <1>14, <1>15, <1>16, <1>17, <1>18, <1>19, <1>20 DEF Next, TaskStep

LEMMA NextProtected ==
  ASSUME IInv, [Next]_vars
  PROVE  Protected'
<1> USE TunnelAssumption, BoundAssumption DEF IInv, TypeOK, Protected, ViaIsKnown,
      Goto, Ends, Send, Fail, engineVars, taskVars, poolVars, Task, Transport, None
<1>1. ASSUME NEW t \in Tunnel, StopTunnel(t) PROVE Protected'
  BY <1>1 DEF StopTunnel
<1>2. ASSUME NEW t \in Tunnel, NEW k \in Task, ClickStart(t, k) PROVE Protected'
  BY <1>2 DEF ClickStart, Spawned
<1>3. ASSUME NEW k \in Task, StartTunnel(k) PROVE Protected'
  BY <1>3 DEF StartTunnel, Supersede
<1>4. ASSUME NEW k \in Task, Bind(k) PROVE Protected'
  BY <1>4 DEF Bind
<1>5. ASSUME NEW k \in Task, NEW c \in Task, Accept(k, c) PROVE Protected'
  BY <1>5 DEF Accept, Spawned
<1>6. ASSUME NEW k \in Task, StopServing(k) PROVE Protected'
  BY <1>6 DEF StopServing
<1>7. ASSUME NEW k \in Task, Acquire(k) PROVE Protected'
  BY <1>7 DEF Acquire, LockFree
<1>8. ASSUME NEW k \in Task, Connected(k) PROVE Protected'
  BY <1>8 DEF Connected
<1>9. ASSUME NEW k \in Task, Retry(k) PROVE Protected'
  BY <1>9 DEF Retry
<1>10. ASSUME NEW k \in Task, GiveUp(k) PROVE Protected'
  BY <1>10 DEF GiveUp
<1>11. ASSUME NEW k \in Task, Open(k) PROVE Protected'
  BY <1>11 DEF Open
<1>12. ASSUME NEW k \in Task, Register(k) PROVE Protected'
  <2> DEFINE x == via[k]
  <2>1. /\ x \in Transport /\ pc' = [pc EXCEPT ![k] = "using"]
        /\ channels' = [channels EXCEPT ![x][tun[k]] = @ + 1]
        /\ exposed' = IF x \in open \ doomed THEN exposed ELSE exposed \cup {k}
        /\ UNCHANGED <<tun, via, open, doomed, dropped>>
    BY <1>12 DEF Register
  <2>2. /\ channels'[x][tun[k]] # 0
        /\ \A y \in Transport, t \in Tunnel : channels[y][t] # 0 => channels'[y][t] # 0
    BY <2>1
  <2>3. ASSUME NEW j \in Task \ exposed', pc'[j] = "using"
        PROVE  via[j] \in (open \cup dropped) \ doomed /\ channels'[via[j]][tun[j]] # 0
    <3>1. CASE j = k
      BY <2>1, <2>2, <2>3, <3>1
    <3>2. CASE j # k
      <4>1. pc[j] = "using" /\ j \notin exposed
        BY <2>1, <2>3, <3>2
      <4> QED BY <2>2, <4>1
    <3> QED BY <3>1, <3>2
  <2> QED BY <2>1, <2>3
<1>13. ASSUME NEW k \in Task, ReplyFails(k) PROVE Protected'
  BY <1>13 DEF ReplyFails
<1>14. ASSUME NEW k \in Task, Hangup(k) PROVE Protected'
  BY <1>14 DEF Hangup, Unregister, Users
<1>15. ASSUME NEW k \in Task, StopRemote(k) PROVE Protected'
  BY <1>15 DEF StopRemote, Unregister, EndsRemote, Users
<1>16. ASSUME NEW x \in Transport, Age(x) PROVE Protected'
  BY <1>16 DEF Age
<1>17. ASSUME NEW x \in Transport, Drop(x) PROVE Protected'
  BY <1>17 DEF Drop
<1>18. CASE Scan
  BY <1>18 DEF Scan, LockFree, Idle, Empty
<1>19. CASE Sweep
  BY <1>19 DEF Sweep
<1>20. CASE UNCHANGED vars
  BY <1>20 DEF vars
<1> QED
  BY <1>1, <1>2, <1>3, <1>4, <1>5, <1>6, <1>7, <1>8, <1>9, <1>10, <1>11, <1>12, <1>13,
     <1>14, <1>15, <1>16, <1>17, <1>18, <1>19, <1>20 DEF Next, TaskStep

-----------------------------------------------------------------------------
LEMMA InitIInv == Init => IInv
<1> SUFFICES ASSUME Init PROVE IInv
  OBVIOUS
<1>1. (CHOOSE t \in Tunnel : TRUE) \in Tunnel /\ (CHOOSE s \in Session : TRUE) \in Session
  BY TunnelAssumption
<1>2. TypeOK
  BY <1>1, BoundAssumption DEF Init, TypeOK, PC, None
<1>3. HandlesAreTrue /\ HandlesAreLoops
  BY DEF Init, HandlesAreTrue, HandlesAreLoops, Live
<1>4. NoTransportLeaks /\ LockIsHeld /\ ViaIsKnown /\ Protected
  BY DEF Init, NoTransportLeaks, LockIsHeld, ViaIsKnown, Protected
<1> QED BY <1>2, <1>3, <1>4 DEF IInv

THEOREM Inductive == Spec => []IInv
<1>1. IInv /\ [Next]_vars => IInv'
  BY NextTypeOK, NextViaIsKnown, NextHandles, NextPool, NextProtected DEF IInv
<1> QED BY <1>1, InitIInv, PTL DEF Spec

\* TypeOK: the cleaner, the tasks and the engine keep to what they know, and
\* only a loop is ever told to stop.
THEOREM TypeCorrect == Spec => []TypeOK
<1>1. IInv => TypeOK
  BY DEF IInv
<1> QED BY <1>1, Inductive, PTL

\* No start, stop or failure leaves a loop behind that its tunnel's handle
\* does not reach, or a green row without a loop.
THEOREM HandlesTrue == Spec => []HandlesAreTrue
<1>1. IInv => HandlesAreTrue
  BY DEF IInv
<1> QED BY <1>1, Inductive, PTL

\* The pool never loses sight of an open transport, however many tasks ask for
\* one at the same time.
THEOREM TransportsAreKept == Spec => []NoTransportLeaks
<1>1. IInv => NoTransportLeaks
  BY DEF IInv
<1> QED BY <1>1, Inductive, PTL

\* Apart from the two races that InUseStaysOpen names, the cleaner closes no
\* transport under a task.
THEOREM CleanerSparesUsers == Spec => []InUseStaysOpen
<1>1. IInv => InUseStaysOpen
  BY DEF IInv, Protected, InUseStaysOpen
<1> QED BY <1>1, Inductive, PTL

-----------------------------------------------------------------------------
(* The pool implements ConnectionLending.                                  *)

\* A transport stays with the session it was made for: the pool keeps it under
\* that session only, and only tasks of that session get it.
SessionsMatch ==
    /\ \A s \in Session : pool[s] # None => pool[s] \in 1 .. made /\ session[pool[s]] = s
    /\ \A k \in Task : pc[k] \in {"got", "opened", "using"} =>
          via[k] \in 1 .. made /\ session[via[k]] = SessionOf[tun[k]]

\* A task that goes on with the transport it has, or has none.
KeepsVia(k) ==
    pc'[k] \in {"got", "opened", "using"} =>
        pc[k] \in {"got", "opened", "using"} /\ via'[k] = via[k] /\ tun'[k] = tun[k]

LEMMA SameTransports ==
  ASSUME SessionsMatch, UNCHANGED <<pool, made, session>>, \A k \in Task : KeepsVia(k)
  PROVE  SessionsMatch'
  BY DEF SessionsMatch, KeepsVia

\* A step of one task that gets no transport, up to the channel.
LEMMA TaskKeepsVia ==
  ASSUME IInv, NEW k \in Task,
         \/ StartTunnel(k) \/ Bind(k) \/ StopServing(k) \/ Retry(k) \/ GiveUp(k) \/ Open(k)
         \/ Register(k) \/ ReplyFails(k) \/ Hangup(k) \/ StopRemote(k)
         \/ \E t \in Tunnel : ClickStart(t, k)
         \/ \E c \in Task : Accept(c, k)
  PROVE  UNCHANGED <<pool, made, session>> /\ \A j \in Task : KeepsVia(j)
<1> USE DEF IInv, TypeOK, KeepsVia, Goto, Ends, Send, Fail, engineVars, taskVars, poolVars
<1>1. CASE StartTunnel(k) \/ Bind(k) \/ StopServing(k)
  BY <1>1 DEF StartTunnel, Bind, StopServing
<1>2. CASE Retry(k) \/ GiveUp(k) \/ Open(k)
  BY <1>2 DEF Retry, GiveUp, Open
<1>3. CASE Register(k) \/ ReplyFails(k)
  BY <1>3 DEF Register, ReplyFails
<1>4. CASE Hangup(k) \/ StopRemote(k)
  BY <1>4 DEF Hangup, StopRemote, Unregister
<1>5. ASSUME NEW t \in Tunnel, NEW c \in Task, ClickStart(t, k) \/ Accept(c, k)
      PROVE  UNCHANGED <<pool, made, session>> /\ \A j \in Task : KeepsVia(j)
  BY <1>5 DEF ClickStart, Accept, Spawned
<1> QED BY <1>1, <1>2, <1>3, <1>4, <1>5

LEMMA NextSessionsMatch ==
  ASSUME IInv, SessionsMatch, [Next]_vars
  PROVE  SessionsMatch'
<1>1. ASSUME NEW k \in Task, Acquire(k)
      PROVE  SessionsMatch'
  <2> DEFINE s == SessionOf[tun[k]]
  <2>1. s \in Session /\ UNCHANGED <<pool, made, session, tun>>
    BY <1>1, TunnelAssumption DEF Acquire, poolVars, IInv, TypeOK
  <2>2. CASE pool[s] \in open
    <3>1. pool[s] # None
      BY <2>2 DEF IInv, TypeOK, None
    <3>2. via'[k] = pool[s] /\ \A j \in Task \ {k} : KeepsVia(j)
      BY <1>1, <2>2 DEF Acquire, Goto, KeepsVia, IInv, TypeOK
    <3> QED BY <2>1, <3>1, <3>2 DEF SessionsMatch, KeepsVia
  <2>3. CASE pool[s] \notin open
    <3>1. \A j \in Task : KeepsVia(j)
      BY <1>1, <2>3 DEF Acquire, Goto, KeepsVia, IInv, TypeOK
    <3> QED BY <2>1, <3>1, SameTransports
  <2> QED BY <2>2, <2>3
<1>2. ASSUME NEW k \in Task, Connected(k)
      PROVE  SessionsMatch'
  <2> DEFINE x == made + 1
             s == SessionOf[tun[k]]
  <2>1. s \in Session /\ x \in Transport /\ x \notin 1 .. made /\ 1 .. made' = (1 .. made) \cup {x}
    BY <1>2, TunnelAssumption, BoundAssumption DEF Connected, IInv, TypeOK, Transport
  <2>2. /\ session' = [session EXCEPT ![x] = s] /\ pool' = [pool EXCEPT ![s] = x]
        /\ via' = [via EXCEPT ![k] = x] /\ pc' = [pc EXCEPT ![k] = "got"] /\ tun' = tun
    BY <1>2 DEF Connected, Goto
  <2> HIDE DEF x, s
  <2>3. session'[x] = s /\ \A y \in 1 .. made : session'[y] = session[y]
    BY <2>1, <2>2, BoundAssumption DEF IInv, TypeOK, Transport
  <2>4. \A r \in Session : pool'[r] = IF r = s THEN x ELSE pool[r]
    BY <2>1, <2>2 DEF IInv, TypeOK
  <2>5. \A j \in Task \ {k} : KeepsVia(j)
    BY <2>2 DEF KeepsVia, IInv, TypeOK
  <2>6. via'[k] = x /\ SessionOf[tun'[k]] = s
    BY <2>2 DEF s, IInv, TypeOK
  <2>7. \A r \in Session : pool'[r] # None => pool'[r] \in 1 .. made' /\ session'[pool'[r]] = r
    BY <2>1, <2>3, <2>4 DEF SessionsMatch
  <2>8. \A j \in Task : pc'[j] \in {"got", "opened", "using"} =>
            via'[j] \in 1 .. made' /\ session'[via'[j]] = SessionOf[tun'[j]]
    BY <2>1, <2>3, <2>5, <2>6 DEF SessionsMatch, KeepsVia
  <2> QED BY <2>7, <2>8 DEF SessionsMatch
<1>3. ASSUME NEW x \in Transport, Age(x) \/ Drop(x)
      PROVE  SessionsMatch'
  BY <1>3 DEF Age, Drop, taskVars, SessionsMatch
<1>4. ASSUME NEW t \in Tunnel, StopTunnel(t)
      PROVE  SessionsMatch'
  BY <1>4 DEF StopTunnel, taskVars, poolVars, SessionsMatch
<1>5. CASE Scan \/ UNCHANGED vars
  BY <1>5 DEF Scan, vars, taskVars, poolVars, SessionsMatch
<1>6. CASE Sweep
  <2>1. \A s \in Session : pool'[s] # None => pool'[s] = pool[s]
    BY <1>6 DEF Sweep
  <2> QED BY <1>6, <2>1 DEF Sweep, taskVars, SessionsMatch
<1>7. ASSUME NEW k \in Task, TaskStep(k) \/ ReplyFails(k) \/ Hangup(k)
      PROVE  SessionsMatch'
  <2>1. CASE Acquire(k) \/ Connected(k)
    BY <1>1, <1>2, <2>1
  <2>2. CASE ~(Acquire(k) \/ Connected(k))
    <3>1. UNCHANGED <<pool, made, session>> /\ \A j \in Task : KeepsVia(j)
      BY <1>7, <2>2, TaskKeepsVia DEF TaskStep
    <3> QED BY <3>1, SameTransports
  <2> QED BY <2>1, <2>2
<1>8. ASSUME NEW k \in Task, \/ \E t \in Tunnel : ClickStart(t, k)
                             \/ \E c \in Task : Accept(c, k)
      PROVE  SessionsMatch'
  <2>1. UNCHANGED <<pool, made, session>> /\ \A j \in Task : KeepsVia(j)
    BY <1>8, TaskKeepsVia
  <2> QED BY <2>1, SameTransports
<1> QED BY <1>3, <1>4, <1>5, <1>6, <1>7, <1>8 DEF Next

-----------------------------------------------------------------------------
\* Task k holds transport x for tunnel t, and may rely on it.
Relies(k, t, x) ==
    k \in Task \ exposed /\ pc[k] = "using" /\ tun[k] = t /\ via[k] = x

LEMMA ReliedIs ==
  ASSUME NEW t \in Tunnel, NEW x
  PROVE  x \in Relied(t) <=> \E k \in Task : Relies(k, t, x)
  BY DEF Relied, Relies

LEMMA ReliedIsNext ==
  ASSUME NEW t \in Tunnel, NEW x
  PROVE  x \in Relied(t)' <=> \E k \in Task : Relies(k, t, x)'
  BY DEF Relied, Relies

\* What a tunnel relies on is a transport that was made, of its own session.
LEMMA ReliedIsMade ==
  ASSUME IInv, SessionsMatch, NEW t \in Tunnel, NEW x \in Relied(t)
  PROVE  /\ x \in 1 .. made /\ x \in Transport /\ session[x] = SessionOf[t]
         /\ x \notin doomed
<1>1. PICK k \in Task : Relies(k, t, x)
  BY ReliedIs
<1>2. x \in 1 .. made /\ session[x] = SessionOf[t] /\ x \notin doomed
  BY <1>1 DEF Relies, SessionsMatch, IInv, Protected
<1> QED BY <1>2, BoundAssumption DEF IInv, TypeOK, Transport

\* The uses of transports that a step leaves as they are.
KeepsUse(k) ==
    /\ pc'[k] = "using" <=> pc[k] = "using"
    /\ pc[k] = "using" => via'[k] = via[k] /\ tun'[k] = tun[k]

LEMMA SameRelied ==
  ASSUME UNCHANGED exposed, \A k \in Task : KeepsUse(k), NEW t \in Tunnel
  PROVE  Relied(t)' = Relied(t)
<1>1. \A k \in Task : \A x : Relies(k, t, x)' <=> Relies(k, t, x)
  BY DEF Relies, KeepsUse
<1>2. \A x : x \in Relied(t)' <=> x \in Relied(t)
  BY <1>1, ReliedIs, ReliedIsNext
<1> QED BY <1>2

\* A step that changes neither the pool nor the uses is hidden.
LEMMA StepHidden ==
  ASSUME UNCHANGED <<pool, open, dropped, exposed>>, \A k \in Task : KeepsUse(k)
  PROVE  UNCHANGED Lending!lendingVars
<1>1. \A t \in Tunnel : Relied(t)' = Relied(t)
  BY SameRelied
<1>2. \A s \in Session : ConnectionOf(s)' = ConnectionOf(s)
  BY DEF ConnectionOf
<1> QED BY <1>1, <1>2 DEF Lending!lendingVars

LEMMA QuietStep ==
  ASSUME IInv, NEW k \in Task,
         \/ StartTunnel(k) \/ Bind(k) \/ StopServing(k) \/ Acquire(k) \/ Retry(k) \/ GiveUp(k)
         \/ Open(k) \/ ReplyFails(k)
         \/ \E t \in Tunnel : ClickStart(t, k)
         \/ \E c \in Task : Accept(c, k)
  PROVE  UNCHANGED Lending!lendingVars
<1> SUFFICES UNCHANGED <<pool, open, dropped, exposed>> /\ \A j \in Task : KeepsUse(j)
  BY StepHidden
<1> USE DEF IInv, TypeOK, KeepsUse, Goto, Ends, Send, Fail, engineVars, taskVars, poolVars
<1>1. CASE StartTunnel(k) \/ Bind(k) \/ StopServing(k)
  BY <1>1 DEF StartTunnel, Bind, StopServing
<1>2. CASE Acquire(k) \/ Retry(k) \/ GiveUp(k)
  BY <1>2 DEF Acquire, Retry, GiveUp
<1>3. CASE Open(k) \/ ReplyFails(k)
  BY <1>3 DEF Open, ReplyFails
<1>4. ASSUME NEW t \in Tunnel, NEW c \in Task, ClickStart(t, k) \/ Accept(c, k)
      PROVE  UNCHANGED <<pool, open, dropped, exposed>> /\ \A j \in Task : KeepsUse(j)
  BY <1>4 DEF ClickStart, Accept, Spawned
<1> QED BY <1>1, <1>2, <1>3, <1>4

\* A task that connects finds its session without a connection, and makes one
\* that no tunnel has.
LEMMA ConnectLends ==
  ASSUME IInv, SessionsMatch, NEW k \in Task, Connected(k)
  PROVE  Lending!LendingNext
<1> DEFINE x == made + 1
           s == SessionOf[tun[k]]
<1>1. s \in Session /\ x \in Transport /\ x \notin 1 .. made /\ x # None
  BY TunnelAssumption, BoundAssumption DEF Connected, IInv, TypeOK, Transport, None
<1>2. /\ pool' = [pool EXCEPT ![s] = x] /\ open' = open \cup {x}
      /\ pc' = [pc EXCEPT ![k] = "got"] /\ via' = [via EXCEPT ![k] = x]
      /\ pc[k] = "connecting" /\ UNCHANGED <<tun, dropped, exposed>>
  BY DEF Connected, Goto
<1> HIDE DEF x
<1>3. pool[s] \notin open
  BY <1>2 DEF IInv, LockIsHeld
<1> HIDE DEF s
<1>4. \A r \in Session : pool[r] # x /\ ConnectionOf(r) # x
  BY <1>1 DEF ConnectionOf, SessionsMatch
<1>5. \A r \in Session : ConnectionOf(r)' = IF r = s THEN x ELSE ConnectionOf(r)
  BY <1>1, <1>2, <1>4 DEF ConnectionOf, IInv, TypeOK
<1>6. \A t \in Tunnel : Relied(t)' = Relied(t) /\ x \notin Relied(t)
  <2>1. \A j \in Task : KeepsUse(j)
    BY <1>2 DEF KeepsUse, IInv, TypeOK
  <2> QED BY <1>1, <1>2, <2>1, SameRelied, ReliedIsMade
<1>7. ConnectionOf(s) = None
  BY <1>3 DEF ConnectionOf
<1>8. Lending!Connect(s, x)
  BY <1>1, <1>2, <1>4, <1>5, <1>6, <1>7 DEF Lending!Connect, Lending!Lent
<1> QED BY <1>1, <1>8 DEF Lending!LendingNext

\* A task that registers on a transport the cleaner has to respect borrows the
\* connection of its session.
LEMMA RegisterLends ==
  ASSUME IInv, SessionsMatch, NEW k \in Task, Register(k)
  PROVE  Lending!LendingNext \/ UNCHANGED Lending!lendingVars
<1>1. /\ tun[k] \in Tunnel /\ via[k] \in 1 .. made
      /\ session[via[k]] = SessionOf[tun[k]] /\ pc[k] = "opened"
  BY DEF Register, SessionsMatch, IInv, TypeOK
<1>2. PICK t \in Tunnel : t = tun[k]
  BY <1>1
<1>3. PICK x \in 1 .. made : x = via[k]
  BY <1>1
<1>4. /\ pc' = [pc EXCEPT ![k] = "using"]
      /\ exposed' = IF x \in open \ doomed THEN exposed ELSE exposed \cup {k}
      /\ UNCHANGED <<pool, open, dropped, via, tun>>
  BY <1>3 DEF Register, Goto
<1>5. \A s \in Session : ConnectionOf(s)' = ConnectionOf(s)
  BY <1>4 DEF ConnectionOf
<1>6. ASSUME NEW u \in Tunnel, NEW y, ~(u = t /\ y = x /\ k \notin exposed')
      PROVE  y \in Relied(u)' <=> y \in Relied(u)
  <2>1. \A j \in Task : Relies(j, u, y)' <=> Relies(j, u, y)
    BY <1>1, <1>2, <1>3, <1>4, <1>6 DEF Relies, IInv, TypeOK
  <2> QED BY <2>1, ReliedIs, ReliedIsNext
<1>7. CASE k \in exposed'
  <2>1. \A u \in Tunnel : Relied(u)' = Relied(u)
    BY <1>6, <1>7
  <2> QED BY <1>4, <1>5, <2>1 DEF Lending!lendingVars
<1>8. CASE k \notin exposed'
  <2>1. x \in open /\ SessionOf[t] \in Session
    BY <1>4, <1>8, TunnelAssumption
  <2>2. ConnectionOf(SessionOf[t]) = x /\ x # None
    BY <1>1, <1>2, <1>3, <2>1 DEF ConnectionOf, IInv, NoTransportLeaks, None, TypeOK
  <2>3. Relies(k, t, x)'
    BY <1>2, <1>3, <1>4, <1>8 DEF Relies, IInv, TypeOK
  <2>4. x \in Relied(t)'
    BY <2>3, ReliedIsNext
  <2>5. \A u \in Tunnel : Relied(u)' = IF u = t THEN Relied(u) \cup {x} ELSE Relied(u)
    BY <1>6, <2>4
  <2>6. Lending!Lend(t)
    BY <1>4, <1>5, <2>1, <2>2, <2>5 DEF Lending!Lend
  <2> QED BY <2>6 DEF Lending!LendingNext
<1> QED BY <1>7, <1>8

\* A task that ends gives back what its tunnel borrowed, for all of its
\* channels on that transport.
LEMMA UnregisterLends ==
  ASSUME IInv, SessionsMatch, NEW k \in Task, Hangup(k) \/ StopRemote(k)
  PROVE  Lending!LendingNext \/ UNCHANGED Lending!lendingVars
<1>1. PICK t \in Tunnel : t = tun[k]
  BY DEF IInv, TypeOK
<1>2. PICK x : x = via[k]
  OBVIOUS
<1>3. /\ pc[k] = "using" /\ pc' = [pc EXCEPT ![k] = "ended"] /\ via' = [via EXCEPT ![k] = None]
      /\ exposed' = (exposed \cup Users(x, t)) \ {k}
      /\ UNCHANGED <<pool, open, dropped, tun>>
  BY <1>1, <1>2 DEF Hangup, StopRemote, Unregister, Ends, Goto
<1>4. \A s \in Session : ConnectionOf(s)' = ConnectionOf(s)
  BY <1>3 DEF ConnectionOf
<1>5. ASSUME NEW u \in Tunnel, NEW y
      PROVE  y \in Relied(u)' <=> y \in Relied(u) /\ ~(u = t /\ y = x)
  <2>1. \A j \in Task : Relies(j, u, y)' <=> Relies(j, u, y) /\ ~(u = t /\ y = x)
    BY <1>1, <1>2, <1>3 DEF Relies, Users, IInv, TypeOK
  <2> QED BY <2>1, ReliedIs, ReliedIsNext
<1>6. CASE x \in Relied(t)
  <2>1. \A u \in Tunnel : Relied(u)' = IF u = t THEN Relied(u) \ {x} ELSE Relied(u)
    BY <1>5
  <2>2. Lending!Return(t, x)
    BY <1>3, <1>4, <1>6, <2>1 DEF Lending!Return
  <2> QED BY <1>6, <2>2 DEF Lending!LendingNext
<1>7. CASE x \notin Relied(t)
  <2>1. \A u \in Tunnel : Relied(u)' = Relied(u)
    BY <1>5, <1>7
  <2> QED BY <1>3, <1>4, <2>1 DEF Lending!lendingVars
<1> QED BY <1>6, <1>7

\* The cleaner closes connections that no tunnel relies on.
LEMMA SweepLends ==
  ASSUME IInv, SessionsMatch, Sweep
  PROVE  Lending!LendingNext
<1> DEFINE ss == {s \in Session : pool[s] \in doomed}
<1>1. /\ pool' = [s \in Session |-> IF pool[s] \in doomed THEN None ELSE pool[s]]
      /\ open' = open \ doomed /\ UNCHANGED <<dropped, exposed, pc, via, tun>>
  BY DEF Sweep, taskVars
<1>2. \A t \in Tunnel : Relied(t)' = Relied(t)
  <2>1. \A k \in Task : KeepsUse(k)
    BY <1>1 DEF KeepsUse
  <2> QED BY <1>1, <2>1, SameRelied
<1>3. \A s \in Session : ConnectionOf(s)' = IF s \in ss THEN None ELSE ConnectionOf(s)
  BY <1>1 DEF ConnectionOf, IInv, TypeOK, None
<1>4. ASSUME NEW s \in ss, NEW t \in Tunnel
      PROVE  ConnectionOf(s) \notin Relied(t)
  <2>1. ConnectionOf(s) \in doomed \cup {None}
    BY DEF ConnectionOf
  <2> QED BY <2>1, ReliedIsMade DEF IInv, TypeOK, None
<1>5. Lending!CloseIdle(ss)
  BY <1>1, <1>2, <1>3, <1>4 DEF Lending!CloseIdle, Lending!Lent
<1> QED BY <1>5 DEF Lending!LendingNext

\* The network takes the connection of one session.
LEMMA DropLends ==
  ASSUME IInv, SessionsMatch, NEW x \in Transport, Drop(x)
  PROVE  Lending!LendingNext
<1>1. /\ x \in open /\ open' = open \ {x} /\ dropped' = dropped \cup {x}
      /\ UNCHANGED <<pool, exposed, pc, via, tun>>
  BY DEF Drop, taskVars
<1>2. PICK s \in Session : s = session[x]
  BY DEF IInv, TypeOK
<1>3. pool[s] = x /\ x # None /\ \A r \in Session : pool[r] = x => r = s
  BY <1>1, <1>2 DEF IInv, TypeOK, NoTransportLeaks, SessionsMatch, Transport, None
<1>4. \A t \in Tunnel : Relied(t)' = Relied(t)
  <2>1. \A k \in Task : KeepsUse(k)
    BY <1>1 DEF KeepsUse
  <2> QED BY <1>1, <2>1, SameRelied
<1>5. /\ ConnectionOf(s) = x
      /\ \A r \in Session : ConnectionOf(r)' = IF r = s THEN None ELSE ConnectionOf(r)
  BY <1>1, <1>3 DEF ConnectionOf
<1>6. Lending!Lose(s)
  BY <1>1, <1>3, <1>4, <1>5 DEF Lending!Lose
<1> QED BY <1>6 DEF Lending!LendingNext

LEMMA StepLends ==
  ASSUME IInv, SessionsMatch, [Next]_vars
  PROVE  [Lending!LendingNext]_(Lending!lendingVars)
<1>1. CASE UNCHANGED vars \/ Scan \/ (\E t \in Tunnel : StopTunnel(t)) \/ \E x \in Transport : Age(x)
  <2>1. UNCHANGED <<pool, open, dropped, exposed, pc, via, tun>>
    BY <1>1 DEF vars, taskVars, poolVars, Scan, StopTunnel, Age
  <2>2. \A k \in Task : KeepsUse(k)
    BY <2>1 DEF KeepsUse
  <2> QED BY <2>1, <2>2, StepHidden
<1>2. ASSUME NEW k \in Task, TaskStep(k) \/ ReplyFails(k) \/ Hangup(k)
      PROVE  [Lending!LendingNext]_(Lending!lendingVars)
  <2>1. CASE Connected(k) \/ Register(k) \/ Hangup(k) \/ StopRemote(k)
    BY <2>1, ConnectLends, RegisterLends, UnregisterLends
  <2>2. CASE ~(Connected(k) \/ Register(k) \/ Hangup(k) \/ StopRemote(k))
    BY <1>2, <2>2, QuietStep DEF TaskStep
  <2> QED BY <2>1, <2>2
<1>3. ASSUME NEW k \in Task, \/ \E t \in Tunnel : ClickStart(t, k)
                             \/ \E c \in Task : Accept(c, k)
      PROVE  UNCHANGED Lending!lendingVars
  BY <1>3, QuietStep
<1> QED BY <1>1, <1>2, <1>3, SweepLends, DropLends DEF Next

\* Before the first click nothing is connected.
LEMMA InitLends ==
  ASSUME Init
  PROVE  SessionsMatch /\ Lending!LendingInit
<1>1. SessionsMatch
  BY DEF Init, SessionsMatch
<1>2. \A s \in Session : ConnectionOf(s) = None
  BY DEF Init, ConnectionOf
<1>3. \A t \in Tunnel : Relied(t) = {}
  BY DEF Init, Relied
<1>4. dropped = {}
  BY DEF Init
<1> QED BY <1>1, <1>2, <1>3, <1>4 DEF Lending!LendingInit

\* Tasks, locks, channel lists and the cleaner together implement the lending
\* of one connection per session.
THEOREM PoolLendsConnections == Spec => PoolLends
<1>1. IInv /\ SessionsMatch /\ [Next]_vars => SessionsMatch'
  BY NextSessionsMatch
<1>2. Init => SessionsMatch /\ Lending!LendingInit
  BY InitLends
<1>3. IInv /\ SessionsMatch /\ [Next]_vars => [Lending!LendingNext]_(Lending!lendingVars)
  BY StepLends
<1> QED BY <1>1, <1>2, <1>3, Inductive, PTL DEF Spec, PoolLends, Lending!LendingSpec

=============================================================================
