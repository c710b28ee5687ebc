----------------------------- MODULE MCUpdater -----------------------------
(* Instances of Updater for TLC.                                           *)
EXTENDS Updater

CONSTANTS i1, i2

OneInstall == {i1}
TwoInstalls == {i1, i2}
=============================================================================
