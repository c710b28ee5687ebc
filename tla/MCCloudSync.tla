---------------------------- MODULE MCCloudSync ----------------------------
(* Instances of CloudSync for TLC.                                         *)
EXTENDS CloudSyncClaims

CONSTANTS k1, e1, e2, p1

\* Two devices, each with the task of the engine.
TwoDevices == {1, 2}
TwoEngines == {e1, e2}
TwoHomes == [a \in TwoEngines |-> IF a = e1 THEN 1 ELSE 2]

\* The first device synchronises through its settings panel, the second with
\* its timer and with the button of its status bar.
PanelAndEngines == {p1, e1, e2}
PanelHomes == [a \in PanelAndEngines |-> IF a = p1 THEN 1 ELSE 2]

OneKey == {k1}
=============================================================================
