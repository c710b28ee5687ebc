----------------------------- MODULE MCTunnels -----------------------------
(* Instances of Tunnels for TLC.                                           *)
EXTENDS Tunnels

CONSTANTS l, m, r, s1, s2, p1

\* A local and a remote tunnel over one session, and a local one over another
\* session that wants the same port.
Three == {l, m, r}
JustR == {r}
TwoSessions == {s1, s2}
MApart == [t \in Three |-> IF t = m THEN s2 ELSE s1]
OnePort == [t \in {l, m} |-> p1]
=============================================================================
