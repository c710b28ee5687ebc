------------------------------ MODULE MCMerge ------------------------------
(* BundleMerge over small components, for TLC.                             *)
EXTENDS BundleMerge

CONSTANTS x, y

TwoDevices == {1, 2}
OneKey == {"k"}
Values == {x, y, Null}
Names == {x, y}
=============================================================================
