---------------------------- MODULE SettingsFile ----------------------------
(***************************************************************************)
(* What the settings persister promises the UI thread, without slot,       *)
(* channel, timers and hashes: the file only ever moves on to a later      *)
(* version, and a flush that reports success found the latest content in   *)
(* it.                                                                     *)
(***************************************************************************)
EXTENDS Naturals, Sequences

CONSTANTS Value, Initial

VARIABLES
    log,      \* the content of every version so far
    stored,   \* the version in the file
    flush,    \* "idle", "asked", "done", and "gone" when the process is
    excused   \* a write has failed since the last flush was asked for

fileVars == <<log, stored, flush, excused>>

FileInit == log = <<Initial>> /\ stored = 1 /\ flush = "idle" /\ excused = FALSE

Set(v) ==
    /\ flush = "idle"
    /\ log' = Append(log, v)
    /\ UNCHANGED <<stored, flush, excused>>

\* At any time, also while the next change is being made; never backwards.
Store(n) ==
    /\ flush # "gone"
    /\ n \in stored .. Len(log)
    /\ stored' = n
    /\ UNCHANGED <<log, flush, excused>>

StoreFails ==
    /\ flush # "gone"
    /\ excused' = TRUE
    /\ UNCHANGED <<log, stored, flush>>

\* A flush may find at once that there is nothing to hand over.
Ask ==
    /\ flush = "idle"
    /\ flush' \in {"idle", "asked"}
    /\ excused' = FALSE
    /\ UNCHANGED <<log, stored>>

Succeed ==
    /\ flush = "asked"
    /\ excused \/ log[stored] = log[Len(log)]
    /\ flush' = "done"
    /\ UNCHANGED <<log, stored, excused>>

\* The flush returns, because it succeeded or because it waited too long.
Return ==
    /\ flush \in {"asked", "done"}
    /\ flush' = "idle"
    /\ UNCHANGED <<log, stored, excused>>

\* The write under way when the process ends happens or does not.
Leave ==
    /\ flush = "idle"
    /\ flush' = "gone"
    /\ stored' \in stored .. Len(log)
    /\ UNCHANGED <<log, excused>>

FileNext ==
    \/ \E v \in Value : Set(v)
    \/ \E n \in 1 .. Len(log) : Store(n)
    \/ StoreFails \/ Ask \/ Succeed \/ Return \/ Leave

FileSpec == FileInit /\ [][FileNext]_fileVars

=============================================================================
