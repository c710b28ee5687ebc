------------------------- MODULE SettingsPersister -------------------------
(***************************************************************************)
(* The actor that writes settings.json behind the UI thread:               *)
(* velowork-app-core/src/settings_persister.rs, with its callers           *)
(* save_and_notify and flush_pending_save (settings.rs) and flush_all_state *)
(* (views/window/handlers.rs).                                             *)
(*                                                                         *)
(* A settings snapshot is a version, its position in log; two versions may *)
(* have the same content, which is what hash_settings compares.  Debounce  *)
(* and max-wait are timers: the worker may stop waiting at any moment.     *)
(***************************************************************************)
EXTENDS Naturals, Sequences

CONSTANTS Value,      \* the contents of a settings snapshot
          Initial,    \* the content that the application started with
          ChanCap,    \* the capacity of the command channel, 64 in the code
          MaxChanges, \* bound: changes of the settings
          MaxFaults   \* bound: writes that fail and flushes that time out

ASSUME ValueAssumption == Initial \in Value
ASSUME BoundAssumption ==
    ChanCap \in Nat \ {0} /\ MaxChanges \in Nat /\ MaxFaults \in Nat

VARIABLES
    log,       \* the content of every version so far
    ui,        \* the version that SettingsState holds
    slot,      \* PersisterInner.snapshot, 0 if it is None
    chan,      \* the commands sent to the worker
    flushes,   \* how many Flush commands were sent: each has its own ack
    worker,    \* where the worker is, the version it writes, the ack it owes
    lastSaved, \* last_saved_hash
    disk,      \* the version in settings.json
    caller,    \* where the UI thread is in flush_sync
    failed,    \* a write failed since the start of the last flush_sync
    faults

vars == <<log, ui, slot, chan, flushes, worker, lastSaved, disk, caller, failed, faults>>

None == 0
Notify == 0  \* and n > 0 stands for the n-th Flush
WorkerAt == {"recv", "debounce", "take", "write", "ack"}
Worker == [at : WorkerAt, val : Nat, owes : Nat]
Caller == {"running", "send", "wait", "acked", "flushed", "gone"}

TypeOK ==
    /\ log \in Seq(Value)
    /\ ui \in 1 .. Len(log)
    /\ slot \in 0 .. Len(log)
    /\ chan \in Seq(0 .. flushes) /\ Len(chan) <= ChanCap
    /\ flushes \in Nat
    /\ worker \in Worker /\ worker.val <= Len(log) /\ worker.owes <= flushes
    /\ lastSaved \in Value
    /\ disk \in 1 .. Len(log)
    /\ caller \in Caller
    /\ failed \in BOOLEAN
    /\ faults \in Nat

Init ==
    /\ log = <<Initial>>
    /\ ui = 1
    /\ slot = None
    /\ chan = <<>>
    /\ flushes = 0
    /\ worker = [at |-> "recv", val |-> None, owes |-> None]
    /\ lastSaved = Initial
    /\ disk = 1
    /\ caller = "running"
    /\ failed = FALSE
    /\ faults = 0

-----------------------------------------------------------------------------
(* The UI thread.                                                          *)

\* The mutated form blocks nobody and notifies nobody.
SlotOnly(version) == slot' = version /\ UNCHANGED chan

\* send_save: the slot is overwritten; a full channel drops the Notify.
SendSave(version) ==
    /\ slot' = version
    /\ chan' = IF Len(chan) < ChanCap THEN Append(chan, Notify) ELSE chan

\* save_and_notify, after a setter changed the settings to v.
Change(v) ==
    /\ caller \in {"running", "flushed"}
    /\ Len(log) <= MaxChanges
    /\ log' = Append(log, v)
    /\ ui' = Len(log')
    /\ SendSave(Len(log'))
    /\ caller' = "running"
    /\ UNCHANGED <<flushes, worker, lastSaved, disk, failed, faults>>

\* flush_sync, up to its first return.
FlushBegin ==
    /\ caller \in {"running", "flushed"}
    /\ caller' = IF slot = None THEN "flushed" ELSE "send"
    /\ failed' = FALSE
    /\ UNCHANGED <<log, ui, slot, chan, flushes, worker, lastSaved, disk, faults>>

\* send_blocking waits for room in the channel.
FlushSend ==
    /\ caller = "send"
    /\ Len(chan) < ChanCap
    /\ flushes' = flushes + 1
    /\ chan' = Append(chan, flushes')
    /\ caller' = "wait"
    /\ UNCHANGED <<log, ui, slot, worker, lastSaved, disk, failed, faults>>

FlushReturn ==
    /\ caller = "acked"
    /\ caller' = "flushed"
    /\ UNCHANGED <<log, ui, slot, chan, flushes, worker, lastSaved, disk, failed, faults>>

\* recv_timeout gives up after 1500 ms; the ack finds no receiver later.
FlushTimeout ==
    /\ caller = "wait"
    /\ faults < MaxFaults
    /\ faults' = faults + 1
    /\ caller' = "flushed"
    /\ UNCHANGED <<log, ui, slot, chan, flushes, worker, lastSaved, disk, failed>>

\* The application quits after flush_all_state; what the worker had in hand
\* is lost with it, and write_atomic leaves the old file or the new one.
Quit ==
    /\ caller = "flushed"
    /\ caller' = "gone"
    /\ disk' \in {disk, IF worker.at = "write" THEN worker.val ELSE disk}
    /\ UNCHANGED <<log, ui, slot, chan, flushes, worker, lastSaved, failed, faults>>

-----------------------------------------------------------------------------
(* The worker.                                                             *)

Alive == caller # "gone"

At(l, val, owes) == worker' = [at |-> l, val |-> val, owes |-> owes]

\* A command is received, at the top of the loop or while waiting.
Receive ==
    /\ Alive
    /\ worker.at \in {"recv", "debounce"}
    /\ chan # <<>>
    /\ chan' = Tail(chan)
    /\ IF Head(chan) = Notify THEN At("debounce", None, None)
                              ELSE At("take", None, Head(chan))
    /\ UNCHANGED <<log, ui, slot, flushes, lastSaved, disk, caller, failed, faults>>

\* 200 ms without a command, or 1000 ms after the first one.
StopWaiting ==
    /\ Alive
    /\ worker.at = "debounce"
    /\ At("take", None, None)
    /\ UNCHANGED <<log, ui, slot, chan, flushes, lastSaved, disk, caller, failed, faults>>

\* do_persist: the slot is emptied; the same content is not written again.
Take ==
    /\ Alive
    /\ worker.at = "take"
    /\ slot' = None
    /\ IF slot = None \/ log[slot] = lastSaved THEN At("ack", None, worker.owes)
       ELSE At("write", slot, worker.owes)
    /\ UNCHANGED <<log, ui, chan, flushes, lastSaved, disk, caller, failed, faults>>

Write ==
    /\ Alive
    /\ worker.at = "write"
    /\ disk' = worker.val
    /\ lastSaved' = log[worker.val]
    /\ At("ack", None, worker.owes)
    /\ UNCHANGED <<log, ui, slot, chan, flushes, caller, failed, faults>>

\* The mutated form puts the snapshot back to try it again.
WriteFailsAndRequeues ==
    /\ Alive
    /\ worker.at = "write"
    /\ faults < MaxFaults
    /\ faults' = faults + 1
    /\ failed' = TRUE
    /\ SendSave(worker.val)
    /\ At("ack", None, worker.owes)
    /\ UNCHANGED <<flushes, log, ui, lastSaved, disk, caller>>

\* An error is logged, and the snapshot is gone.
WriteFails ==
    /\ Alive
    /\ worker.at = "write"
    /\ faults < MaxFaults
    /\ faults' = faults + 1
    /\ failed' = TRUE
    /\ At("ack", None, worker.owes)
    /\ UNCHANGED <<log, ui, slot, chan, flushes, lastSaved, disk, caller>>

\* The mutated form takes the ack of any flush for the one it waits for.
AckAny ==
    /\ Alive
    /\ worker.at = "ack"
    /\ caller' = IF caller = "wait" /\ worker.owes # None THEN "acked" ELSE caller
    /\ At("recv", None, None)
    /\ UNCHANGED <<log, ui, slot, chan, flushes, lastSaved, disk, failed, faults>>

\* ack.send, for a Flush; nothing, for a timer.
Ack ==
    /\ Alive
    /\ worker.at = "ack"
    /\ caller' = IF caller = "wait" /\ worker.owes = flushes THEN "acked" ELSE caller
    /\ At("recv", None, None)
    /\ UNCHANGED <<log, ui, slot, chan, flushes, lastSaved, disk, failed, faults>>

WorkerStep == Receive \/ StopWaiting \/ Take \/ Write \/ Ack

-----------------------------------------------------------------------------
UIStep ==
    \/ \E v \in Value : Change(v)
    \/ FlushBegin \/ FlushSend \/ FlushReturn \/ FlushTimeout \/ Quit

Next == UIStep \/ WorkerStep \/ WriteFails

Spec == Init /\ [][Next]_vars

\* The worker is a task of the executor, and the write is a thread of its
\* own; the UI thread is not obliged to flush or to quit.
Fairness == WF_vars(WorkerStep) /\ WF_vars(FlushSend) /\ WF_vars(FlushReturn)

FairSpec == Spec /\ Fairness

-----------------------------------------------------------------------------
\* While the UI thread is still blocked, an acknowledged flush has put the
\* settings on disk: neither a Notify that was dropped, nor a timer that
\* emptied the slot just before, nor a skipped write breaks it, nor the
\* late ack of a flush that timed out, unless a write failed in between.
AckMeansDurable ==
    caller = "acked" /\ ~failed => log[disk] = log[ui]

\* last_saved_hash is the hash of what is on disk, so a write is skipped only
\* if it would change nothing.
HashIsOfDisk == caller # "gone" => lastSaved = log[disk]

\* The UI thread seen from outside: in flush_sync or not.
FlushState ==
    CASE caller \in {"send", "wait"} -> "asked"
      [] caller = "acked" -> "done"
      [] caller = "gone" -> "gone"
      [] OTHER -> "idle"

File == INSTANCE SettingsFile WITH stored <- disk, flush <- FlushState, excused <- failed

\* settings.json never goes back to an older version, although snapshots wait
\* in the slot and in the hand of the worker while newer ones arrive, and
\* flush_sync reports success only over the latest content.
FileKeepsUp == File!FileSpec

\* If no write fails, the content of the settings gets to the disk for good
\* although the channel drops notifications and nobody flushes.
LastChangeIsSaved == <>[](caller = "gone" \/ log[disk] = log[ui] \/ faults > 0)

=============================================================================
