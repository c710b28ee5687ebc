------------------------ MODULE MCSettingsPersister ------------------------
(* Instances of SettingsPersister for TLC: contents that can come back.    *)
EXTENDS SettingsPersisterClaims

CONSTANTS v0, v1

Contents == {v0, v1}
=============================================================================
