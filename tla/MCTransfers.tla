---------------------------- MODULE MCTransfers ----------------------------
(* An instance of Transfers for TLC.                                       *)
EXTENDS Transfers

CONSTANTS r, t, s1

\* A remote file, and the copy of one that is opened.  A download does less
\* than an upload: what it leaves behind is always removed.
Places == {r, t}
Kinds == [d \in Places |-> IF d = r THEN "upload" ELSE "open"]
OneSession == {s1}
=============================================================================
