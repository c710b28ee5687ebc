------------------------- MODULE ConnectionLending -------------------------
(***************************************************************************)
(* What the transport pool promises the tunnels, without tasks, locks,     *)
(* channels and times: a session has one connection or none, tunnels       *)
(* borrow that of their own session, and only the network takes away one   *)
(* that is lent.                                                           *)
(***************************************************************************)
CONSTANTS Tunnel, Session, SessionOf, Connection, None

VARIABLES
    conn,   \* of each session: its connection, None while it has none
    loans,  \* of each tunnel: the connections it may rely on
    lost    \* the connections that the network closed

lendingVars == <<conn, loans, lost>>

LendingInit ==
    /\ conn = [s \in Session |-> None]
    /\ loans = [t \in Tunnel |-> {}]
    /\ lost = {}

Lent(x) == \E t \in Tunnel : x \in loans[t]

\* A connection that nobody had before.
Connect(s, x) ==
    /\ conn[s] = None
    /\ ~Lent(x) /\ \A r \in Session : conn[r] # x
    /\ conn' = [conn EXCEPT ![s] = x]
    /\ UNCHANGED <<loans, lost>>

Lend(t) ==
    LET x == conn[SessionOf[t]] IN
    /\ x # None
    /\ loans' = [loans EXCEPT ![t] = @ \cup {x}]
    /\ UNCHANGED <<conn, lost>>

Return(t, x) ==
    /\ x \in loans[t]
    /\ loans' = [loans EXCEPT ![t] = @ \ {x}]
    /\ UNCHANGED <<conn, lost>>

CloseIdle(ss) ==
    /\ \A s \in ss : ~Lent(conn[s])
    /\ conn' = [s \in Session |-> IF s \in ss THEN None ELSE conn[s]]
    /\ UNCHANGED <<loans, lost>>

\* The tunnels that borrowed it still have to find out.
Lose(s) ==
    /\ conn[s] # None
    /\ lost' = lost \cup {conn[s]}
    /\ conn' = [conn EXCEPT ![s] = None]
    /\ UNCHANGED loans

LendingNext ==
    \/ \E s \in Session : Lose(s) \/ \E x \in Connection : Connect(s, x)
    \/ \E t \in Tunnel : Lend(t) \/ \E x \in loans[t] : Return(t, x)
    \/ \E ss \in SUBSET Session : CloseIdle(ss)

LendingSpec == LendingInit /\ [][LendingNext]_lendingVars

=============================================================================
