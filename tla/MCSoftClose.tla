----------------------------- MODULE MCSoftClose -----------------------------
(* Instances of SoftClose for TLC.                                         *)
EXTENDS SoftCloseClaims

CONSTANTS p1, p2, t1, t2

TwoProjects == {p1, p2}
TwoTerminals == {t1, t2}
TwoLooks == {0, 1}
=============================================================================
