--------------------------- MODULE SoftCloseClaims ---------------------------
(* What the comments of the soft close say and the code does not do.       *)
EXTENDS SoftClose

\* soft_close.rs:3-5, "keeps its PTY alive for a grace period so the user can
\* undo an accidental close": the timer that ends a close is that close's own.
GraceIsKept ==
    [][\A m \in timers :
         m \notin timers' /\ HasPending(m.tid) /\ ~HasPending(m.tid)' => m.close = latest[m.tid]]_vars

=============================================================================
