---------------------- MODULE SettingsPersisterClaims ----------------------
(***************************************************************************)
(* What the header of settings_persister.rs promises and the code does not *)
(* keep.                                                                   *)
(***************************************************************************)
EXTENDS SettingsPersister

\* settings_persister.rs:5, "deterministic synchronous flush on application
\* quit": an application that flushed and quit left its settings on disk,
\* provided that no write failed and no flush timed out.
QuitSavesSettings == caller = "gone" /\ faults = 0 => log[disk] = log[ui]

=============================================================================
