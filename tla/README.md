# TLA+ verification of Velowork

Velowork is a desktop terminal workspace (Rust, GPUI): SSH sessions, tunnels,
remote services, an AI assistant, and a cloud synchronisation of all that data
between a user's devices.  This directory holds TLA+ models of the parts of it
where concurrency, failure and ordering decide about correctness, the TLC
configurations that check them, and theorems that the TLA+ proof system checks
for every value of the constants.

Everything is translated from the source under `src/`; `PROJECT.json` maps each
definition to the lines it stands for.

- [1. Inventory](#1-inventory)
- [2. Plan](#2-plan)
- [3. Modules](#3-modules)
- [4. Runs and bounds](#4-runs-and-bounds)
- [5. Fairness](#5-fairness)
- [6. What is proved](#6-what-is-proved)
- [7. Disagreements between comments and code](#7-disagreements-between-comments-and-code)
- [8. What is not modelled](#8-what-is-not-modelled)

## 1. Inventory

Paths are relative to `src/crates/`.

### Cloud synchronisation (`velowork-workspace/src/sync`, `velowork-app/src/sync_engine.rs`, `.../settings_panel/render_sync.rs`)

*State.* Per device: the database tables and JSON documents that are
synchronised, `sync_state.json` (the last pushed snapshot identifier and the
content hash that went with it), `sync_baseline.bundle` (the last common
bundle), the process-wide flag `SYNCING`, and the settings panel's own "busy"
flag.  In the remote store (S3 or WebDAV): per snapshot a manifest and a
bundle, and `latest.json`, the pointer to the newest snapshot.

*Operations.* `sync_snapshot` reads the local state, exports a bundle, reads
the newest manifest, and `decide`s: nothing to do, push, pull, or merge.
`force_push_to_cloud` and `restore_from_cloud` skip the decision.  They are
started by a timer and by signals (`start_sync_engine`), by the status bar
(`trigger_manual_sync`) and by the settings panel.

*Interaction.* Devices share nothing but the remote store, which has no
compare-and-swap.  An import goes to the database and the files; the in-memory
stores are reloaded after the run.

*Hard.* Two devices push at the same time; a push of three files stops half
way; an upload takes effect but its answer is lost; the process dies between
the push and the state file; two runs of one device overlap; the manifest that
was decided on is no longer the newest when it is pulled; every save of the
session tree stamps every row afresh.

*Correct if:* the pointer never designates half a snapshot; a device's state
file names a published snapshot and its content; "nothing to do" means equal
content; a push never extends a lineage nobody published; `SYNCING` comes down;
devices agree once nobody edits; concurrent edits of different rows survive.

### Merging (`velowork-workspace/src/sync/merge.rs`)

*State.* None: pure functions of base, local and remote bundle.
*Operations.* Rows with (revision, updated_at, device_id) for sessions,
tunnels, services and AI conversations; a recursive three-way merge of JSON;
counts of the command history; unions by key for the rest.
*Correct if:* the result prevails over both sides (a later merge does not bring
the loser back), does not depend on which device merges, keeps additions, and
takes a one-sided change of a field.

### Command bus (`velowork-core/src/process/bus.rs`)

*State.* A queue and a condition variable per lane, weak references to the job
controls of each cancellation scope, per job a cancelled flag and a kill
handle; per worker the job it runs and that job's child process.
*Operations.* `submit`, `wait`, `cancel`, `cancel_scope`; the worker loop.
*Hard.* Cancellation against start, exit and timeout; pruning of a scope
against registration; output pipes that fill; descendants that keep a pipe.
*Correct if:* no process is left behind, lanes do not block each other, a
cancelled command ends and is answered, a scope reaches all its commands.

### Settings persister (`velowork-app-core/src/settings_persister.rs`, `settings.rs`)

*State.* A slot with the newest snapshot, a bounded channel of commands, the
hash of what was last written, `settings.json`.
*Operations.* `send_save`, `flush_sync`, the worker's debounce and write.
*Correct if:* an acknowledged flush is on disk, skipped writes change nothing,
the last change gets to the disk.

### Updater (`velowork-updater`, `velowork-app/src/views/window/render.rs`)

*State.* `UpdateInfo`: one status, the flag of the manual check, two settings.
The updates directory with the downloaded archive and what was unpacked from
it.  The executable, and the previous one under the name `.old`.
*Operations.* The background loop (wait, check, three attempts at a download),
the manual check, `install_update`, `restart_app`, `cleanup_old_binary`.
*Hard.* Two tasks and an installation share the status and the directory and
have no lock but a few tests; every file operation may fail; a rename moves the
running executable.
*Correct if:* one download at a time, "ready" names an archive that is whole, a
refused check can be made later, a failed installation leaves an executable.

### Soft close (`velowork-workspace/src/actions/soft_close.rs`, `velowork-app/src/soft_close.rs`)

*State.* In the workspace: the pending closes, each with the project's layout
before and after, and the "restored" breadcrumbs that undos leave.  Outside of
it: the registry of terminals, the shells, probes and timers under way, toasts.
*Operations.* Begin (the pane goes at once, the shell stays), decide after a
probe whether the shell was busy, undo, kill now, the timer, the shell's exit;
and everything else that changes a layout: open, close, move, delete a project,
replace the workspace, quit.
*Interaction.* All on the UI thread, one update at a time, but probes, timers,
toasts and exits arrive between any two of them.
*Hard.* The registry learns of an exit later than the process; an undo restores
a tree that was copied some seconds ago; timers know terminals, not closes.
*Correct if:* no shell runs that nobody can reach, none is shown twice, a dead
pane does not stay, and every close ends by an undo or by the shell's end.

### Tunnels and transport pool (`velowork-terminal/src/tunnel_engine.rs`, `transport_pool.rs`, `velowork-app/src/views/panels/tunnel_panel.rs`)

*State.* One handle per tunnel (stop signal, status), the tasks of loops and of
accepted connections, one SSH transport per session with a list of channels and
the time of its last use.
*Operations.* Start, stop; bind, accept, connect with three attempts, open,
register and unregister a channel; the cleaner, every 30 seconds.
*Hard.* Tasks on several threads; a start overtakes a stop; connecting takes
seconds and holds the pool's lock; a transport goes away under its users.
*Correct if:* every running loop can be stopped, the pool knows each open
transport, one in use is not closed, an unused one is.

### SFTP transfers (`velowork-views-terminal/src/transfer_store.rs`, `.../terminal_pane/sftp_panel.rs`, `velowork-app/src/views/overlays/transfer_popup.rs`)

*State.* The rows of the transfer manager, an atomic control per transfer,
`transfers.json` with the finished ones, and per transfer the worker's
progress.
*Operations.* Begin; pause, resume, remove, all of them at once; fail a
session's transfers; the worker's loop; the ticker and the awaiting task, which
both write the result; save and load the history.
*Hard.* Row, control and progress are three places that four actors write
without a common lock; the popup acts on what it last drew.
*Correct if:* what runs can be seen and stopped, "complete" means a whole file,
the history on disk is what was shown, and every transfer ends.

### Other components

| Component | State and hard behaviour | Correct if |
|---|---|---|
| Terminal sizing (`.../terminal/resize_authority.rs`) | two windows compete for the size of one terminal | the focused one wins, stale requests do not |
| PTY manager, session backends | threads per terminal, exit events | an exit is reported once, nothing is written to a dead session |
| ZMODEM (`.../zmodem`) | protocol state machine over a byte stream | cancel ends it, a file is whole or absent |
| Service monitor | polling of remote hosts, results applied late | no result of a closed connection is shown |
| AI runtime and agent workflow (`velowork-ai`, `velowork-app/src/ai_runtime.rs`) | tasks with states, a queue, cancellation | a cancelled request stays cancelled, each task ends |
| Security service and lock (`velowork-security`, `velowork-app/src/app/mod.rs`) | locked or unlocked, idle timer, key material | nothing is decrypted while locked |
| Workspace state and layout | trees of panes and tabs, one thread | no terminal is lost or shown twice |
| Persistence and instance lock (`persistence.rs`, `atomic_io.rs`) | lock file, temporary file and rename | one instance, no torn file |
| Stores and repositories | SQL in one transaction per call | - |
| Terminal emulation, UI, Markdown, themes, i18n, monitor parsers | text in, text out, or rendering | - |

## 2. Plan

In the order of importance; the first ten exist.

1. `SyncMerge`, `ConfigMerge`: the merges as operators, their laws checked for
   all small inputs, the central ones proved.
2. `SnapshotStore` (abstract) and `CloudSync` (detailed): the protocol between
   devices and remote store, shown to implement the store of atomic snapshots.
3. `CommandBus`: the threads of the bus.
4. `SettingsPersister`: the actor behind `settings.json`.
5. Proofs for the above: type correctness, every safety invariant of the runs,
   the refinement.
6. `Updater`: background loop, manual check, download and install over one
   status, with its proofs.
7. `SoftClose`: the grace period against everything else that touches layouts.
8. `Tunnels`: the tunnels' tasks over the pool of transports.
9. `Transfers`: the transfer manager; with 7 and 8, their proofs.
10. Abstract specifications of what the components promise, with proofs that
    they are kept: `OneShotCommands` (bus), `SettingsFile` (persister),
    `TerminalLives` (soft close), `ConnectionLending` (pool); `BundleMerge` and
    the proofs of all its laws.
11. Next: what the three violated comments of section 7 leave true, stated and
    proved with the exception named (a pull over local changes, a quit with the
    snapshot in hand, a grace period cut short); the promises of the updater and
    of the transfer manager as abstract specifications; for `CloudSync`, that a
    device never goes back to a snapshot older than one it merged.

Not begun, should the project be extended: the engine's timer, debounce and
signals over the settings (`AutoSync`), `CloudSync` with several scopes, where
an import is several transactions, requests of the AI runtime, the instance
lock.

## 3. Modules

| Module | What it is |
|---|---|
| `SyncMerge` | the merges of rows |
| `ConfigMerge` | the merges without revisions: JSON values, opaque files, history counts, quick commands |
| `BundleMerge`, `MCMerge`, `BundleMerge_proofs` | every input of the merges and the laws of the results; an instance for TLC; the laws proved for all inputs |
| `SnapshotStore` | abstract: a shelf of immutable snapshots and a head |
| `CloudSync` | devices, their runs, and the remote store of three writes per push; EXTENDS `SyncMerge` |
| `CloudSyncClaims`, `MCCloudSync` | properties quoted from comments that fail; instances for TLC |
| `CloudSync_proofs` | theorems about `CloudSync`, among them that it implements `SnapshotStore` |
| `OneShotCommands` | abstract: commands that get a permit, run once and are answered once |
| `CommandBus`, `MCCommandBus`, `CommandBus_proofs` | the command bus, likewise; it implements `OneShotCommands` |
| `SettingsFile` | abstract: a file that only moves to later versions, and flushes that find the latest there |
| `SettingsPersister`, `SettingsPersisterClaims`, `MCSettingsPersister`, `SettingsPersister_proofs` | the settings persister, likewise; it implements `SettingsFile` |
| `Updater`, `MCUpdater`, `Updater_proofs` | the updater, likewise |
| `TerminalLives` | abstract: the one life of a shell, through panes, grace periods and its end |
| `SoftClose`, `SoftCloseClaims`, `MCSoftClose`, `SoftClose_proofs` | the soft close, likewise; it implements `TerminalLives` |
| `ConnectionLending` | abstract: one connection per session, lent to its tunnels |
| `Tunnels`, `MCTunnels`, `Tunnels_proofs` | tunnels and pool, likewise; they implement `ConnectionLending` |
| `Transfers`, `MCTransfers`, `Transfers_proofs` | SFTP transfers, likewise |

Operators whose comment says "mutated form" are plausible slips of the
definition that follows them.  No specification uses them; `PROJECT.json` pairs
each property with one that violates it.

### SyncMerge and ConfigMerge

The code merges lists of rows by identifier; a list is a function from
identifiers to rows, `NoRow` where there is none.  A row is a record of `val`
(the content compared for equality), `rev`, `ts` and `dev`; device identifiers
are numbers in place of strings, `Blank` is the empty string that
`save_config` stores.  `AtLeast` is `compare_causal_order`, `Winner` and
`Restamped` are the two ways a row present on both sides ends up in the result,
`LocalOnly` and `RemoteOnly` the treatment of deletions.  `MergeSessionRow`,
`MergeTunnelRow` (also services) and `MergeConversation` are the loops' bodies.
`MergeField` is one level of `merge_json_value`; nesting repeats the same rule.
`MergeForest` is `merge_qc_nodes` for quick commands in and outside of folders,
`PreferLocal` the unions by identifier (credentials, AI messages, the
workspace).  `MergeCount` is the saturating sum of `merge_history`.

### CloudSync

| Variable | Code |
|---|---|
| `mem`, `tree` | `SshSessionStore` in memory, the `session_tree_node` table |
| `state`, `base` | `sync_state.json`, `sync_baseline.bundle` |
| `snaps` | everything ever sealed; the index stands for the random snapshot id |
| `remote`, `latest` | the objects of the remote store, `latest.json` |
| `run` | the local variables of `sync_snapshot` and its siblings in each task, with the await they are at |
| `syncing` | `SYNCING` |

A run goes through phases: `manifest` (exported, waiting for the newest
manifest), then `save`, or `putManifest`-`putBundle`-`putLatest`-`baseline`-
`save` for a push, `pull`-`import`-`baseline`-`save` for a pull, both for a
merge, and `reload` after the runs that changed the tables.  Every step is what
the code does between two awaits or between two writes a crash can separate:

- `Decide*` are the four outcomes of `decide`; `PullLatest` reads `latest.json`
  *again*, so it may get another snapshot than the one decided on;
- `ImportMerged` merges the tree exported at the start, not the one in the
  table by then, and overwrites the table with the result;
- `WriteBaseline` ignores its errors; `Save` writes the pair of identifier and
  hash, and only then clears `SYNCING`; `Reload` comes after it;
- `Fail` is an error of any call, `LoseAnswer` an upload that takes effect
  although the call fails, `Crash` the end and restart of the process, with a
  file being written torn.

The content synchronised is the session tree; the content hash is the tree
itself.  With other scopes switched on the settings document, which contains
the time of the last run, makes a device find changes after nearly every run
(section 7).

### CommandBus

A job is one `submit`.  Workers go through `ready` (at the queue), `parked`,
`popped`, `start`, `spawned`, `published` (kill handle set), `check`, `reap`,
`join` (the pipe readers), `answer`.  Each transition is one access of shared
state or one critical section: storing the cancelled flag and taking the kill
handle are two steps of `cancel` (`Flag`, `Kill`), since a worker may publish
the handle in between.  `Register`, `Pruned` and `CancelScope` are under the
scopes lock.  The child process and its pipe are external and modelled by what
the bus sees of them: running, exited, killed, reaped; full, open, end of file.
`Hangs`, `Chatty` and `Daemon` are sets of jobs whose child never exits, fills
its pipe, or leaves a descendant that keeps the pipe.  `SpawnFails` and
`TryWaitFails` are the two places where an error leaves a child alone.

### SettingsPersister

A snapshot is a version, the position in `log`; versions may have equal content
and `hash_settings` compares the content.  `SendSave` overwrites the slot and
drops the notification if the channel is full; `FlushBegin` returns at once if
the slot is empty; `Take` empties the slot and skips the write if the hash is
that of the last write; `WriteFails` drops the snapshot; `Ack` answers the
flush that the worker owes, which may have timed out.  Debounce and max-wait
are one action, `StopWaiting`, that may happen at any time.

### Updater

| Variable | Code |
|---|---|
| `status`, `manual`, `homebrew`, `auto` | `UpdateInfoInner` and `auto_check_enabled` |
| `at`, `tries` | where the background loop and the manual check are, the loop's attempt |
| `archive`, `open`, `extracted` | the updates directory, and who is still writing the archive |
| `inst`, `target` | where an installation is, the path it replaces |
| `bin`, `bak` | what is at the executable's path and at the same with `.old` |
| `image`, `loaded`, `runs` | the path the running file has by now, the one it was started from, its version |

Both tasks run on the main thread and a step is what one does between two
awaits; downloads and installations run on threads of their own, a step there is
one file operation or one access of the status.  `End` is the end of a round:
the manual check calls `finish_manual`, the loop goes on to its next wait.
`Clean` is `cleanup_updates_dir`, `Create` to `Downloaded` the download with its
checksum, `DownloadFails` an error at any point of it, `GiveUp` what each task
does then.  `Rename`, `Copy` and `Validate` are `replace_binary` and
`validate_binary`, `RollBack` their way back, `CurrentExe` the external
`current_exe`, which on Linux follows the rename and elsewhere does not.
`Restart` is `restart_app` or the user starting the program again.  `disturbed`
is a history variable, read by the properties only: the user began a check, or
restarted, while an installation was under way.

### SoftClose

A step is one update of the workspace entity together with the effects that it
flushes, so that a queued kill and its drain are one step (`Kill`).  A layout is
the set of its panes and a `Look`, which stands for all else that the comparison
of two trees sees (order, splits, sizes, active tab): `Back` restores the exact
tree when the current one equals the one left by the close, and appends to the
root otherwise.  `Decide` is the return of the busy probe, `Expire` the grace
timer, which carries the terminal and, for `GraceIsKept` only, the number of the
close that armed it.  `HandleExit` is the loop over exit events: registry,
pending close with its toast, then `Reap`.  `Open`, `HardClose`, `CapsuleClose`,
`Rearrange`, `MoveTo`, `DeleteProject`, `Reload` and `Quit` are what else
happens; the cross of a capsule kills the shell and leaves the registry to the
exit event.  The terminals of the model are not reused after their end.
`latest`, `undone` and `lost` are history variables, read by properties only.

### Tunnels

A task is a future on the runtime: the loop of one start, or one connection it
accepted.  Places: `queued` (spawned by the click), `begun`, `serving` (accepting),
`waiting` (for the pool's lock), `connecting`, `got` (a transport), `opened` (a
channel), `using` (registered), `ended`.  Each step is what a task does between
two awaits.  `LockFree` is the pool's mutex, held while a task connects and from
the cleaner's count (`Scan`) to its removal (`Sweep`); registering and
unregistering take another lock and may come between the two.  The three
attempts are not counted: `Retry` may be taken any number of times and fairness
ends it.  `Age` lets the idle timeout pass, which only matters while the list of
channels is empty, since unregistering sets the time again.  External: `Drop`,
what a server forwards, other programs' ports (`Bind` may always fail), peers
that hang up.  `exposed` names the tasks for which the code's protection has a
hole (section 7); everyone else is covered by `InUseStaysOpen`.

### Transfers

| Variable | Code |
|---|---|
| `rows`, `listed`, `control` | `TransferStore.tasks`, the keys of `controls`, the atomic values |
| `saved` | `transfers.json` |
| `worker`, `result` | where the I/O task is, and the `TransferProgress` it leaves when done |
| `files`, `written` | what is at each destination, and which transfers have written their last bytes there |
| `ticking`, `awaiting` | the ticker and the task that awaits the worker are still there |
| `aim` | a click that is under way: the element as the popup last drew it |
| `next` | `NEXT_TRANSFER_ID`, which starts again with every run of the program |

`Aim` fixes what a click will do, `Click` does it later, with the worker and the
ticker in between.  The operations of the store (`SetStatus`, `Remove`,
`ClearCompleted`, `PauseAll`, `ResumeAll`, `FailSession`) write rows, controls
and the file as the code does, each its own way.  A worker opens its destination
(`Open`) and loads the control (`Look`), which holds it or lets it begin a read and
a write; these end later, whatever the control says by then: with bytes written
(`Write` is the last chunk), at the end of the file (`Eof`), or with an error.
`Break` leaves the loop, after which `CleanUp` removes the file only if the
control says "cancelled".  Uploads, downloads and files fetched to be opened differ in
`CleanUp` and `Conclude`.  Connections may be lost at any time, which a worker
sees as any other error; a paused worker sees nothing but its control.  Files of
a directory are transfers that may begin at any time.  `Restart` is
`load_persisted` after the end of the program at any point.

## 4. Runs and bounds

Runs that pass:

| Run | Instance | Shows |
|---|---|---|
| `merge` | values 1-2, revisions 0-2, times 0-1, two devices; JSON values x, y, null and absent; one quick command outside and one inside a folder; counts 0-3 | the laws of all merges for every base, local and remote input. The merges compare revisions, times and devices and never count beyond +1, so two values of each distinguish all their branches; counts reach the limit |
| `sync_safe` | two devices, one uses the panel, the other has two tasks of the engine (its timer's and the one of the button in the status bar, `trigger_manual_sync`); 1 row, 1 edit, 3 snapshots, 1 fault | every interleaving of push, pull, merge, force push and restore with a fault at any point, and two tasks that want the one flag |
| `sync_live` | two engines, 1 row, 2 edits, 4 snapshots, no fault | agreement after the last edit; two edits make a conflict, four snapshots let both devices push, and one of them merge and push again |
| `bus` | 2 lanes of one worker each, 2 jobs of one scope, one hangs in its lane, the other fills its pipe and has a timeout, 1 fault | a job waits in the queue, is cancelled, times out or fails while the other does anything; the lane of the hanging job does not hold up the other |
| `settings_persister` | 2 contents, channel of 2 (64 in the code), 4 changes, 2 faults | a full channel, two flushes of which one timed out, equal contents |
| `updater` | one installation at a time, one fault of its file operations and a release that may be broken, so up to two troubles; downloads and checks fail without bound | both tasks, the user and an installation in every order, with restarts |
| `soft_close` | 2 projects, 2 terminals, 2 looks, 2 closes, 1 replacement | one terminal is closed twice, or both are closed, while panes move between the projects, one project is deleted, and probes, timers, toasts and exits come in any order |
| `tunnels` | a local and a remote tunnel over one session, a local one over another that wants the same port, 3 tasks, 2 transports, 1 drop | a loop is superseded while it binds or connects, two connections race for a transport, one transport is lost or idle and a second is made, for the same session or the other |
| `transfers` | an upload and a file to open, one session, 2 transfers, 2 clicks, 2 runs of the program | both to one destination or to two, a click on an outdated row and another one after it, a restart at any point |

`edits`, `Len(snaps)` and `faults` are bounded in the guards.  A full remote
store refuses pushes, as a full bucket does; `Converges` excepts the behaviours
in which the devices fill it.  `sync_safe` has one edit because the safety
properties compare a device with the remote store and a conflict arises from a
force push or from one device's edit against an empty tree; the theorems of
section 6 cover all bounds.

`settings_persister` does not check deadlock: the application may quit; nor do
`soft_close`, for the same reason, and `tunnels` and `transfers`, whose tasks and
clicks are finitely many.  No run checks a type invariant: each module states one
(`TypeOK`), which is proved (section 6) and is the first conjunct of every
inductive invariant.

What the properties say, beyond the comments at their definitions:

- `LatestIsComplete`, `RemoteIsAtomicStore`: the order of the three writes makes
  a push atomic for readers, although it has no transaction.  The refinement
  also says that published snapshots never change and that the head only moves
  to complete ones.
- `LineageIsPublished`: the parent of a snapshot is published before it.  It is
  why `decide` may compare a parent with the last push at all.
- `RecordedPairIsPublished`: in particular after a pull that raced with another
  device's push.  Such a pull imports the newer snapshot and records the older
  one; the next run then finds a change and merges or pushes.  The device does
  not lose track, but it also shows that the imported content is taken for a
  local edit.
- `UpToDateMeansEqual`: a run that ends without transfer left nothing unsent.
- `MergesPrevail`: the merges of sessions, tunnels, services and conversations
  all give the result a stamp that neither origin beats, so that a device which
  still has one of them cannot bring the old content back.
- `MergesSymmetric`: two devices that merge each other's rows get the same
  content, unless two different rows bear the same stamp.
- `FlagIsHeld`: SYNCING is one flag for all tasks of a device and is lowered in
  four places (the save, an error, a run that finds nothing to pull, the end of
  the process); it is up exactly while one run of the engine is in flight, and
  the reload that comes after the save cannot lower it for the next run.
- `Converges`: in particular after two pushes that were decided on the same
  manifest.  The later one displaces a snapshot that it does not descend from, and
  the device whose push was passed over must notice; a `decide` that lets it rest
  while nothing changed on it leaves the two apart (the mutant `DecideForked`).
- `NothingAddedIsLost`, `FieldChangesSurvive`: an addition looks like the other
  side's deletion, and a change meets a deletion; both are kept.
- `OneRunOneAnswer` (refinement): a worker is a permit of its lane; a command
  gets one, is refused if it was cancelled before or else begins, and is answered
  once, with what really became of it.  "Cancelled" and "signal" are only said of
  a command that somebody cancelled, "timed out" only of one with a timeout.
- `ScopeKnowsItsJobs`: pruning uses `strong_count`, which is safe because the
  job in the queue and the worker hold a reference each.
- `CancelledFirstNeverRuns`: a job whose flag was set before a worker looked at
  it starts no child.  `CallsAreAnswered`: every call is answered that has a
  way to be: its child ends, or it has a timeout, or it is cancelled, and no
  descendant keeps its pipe, in a lane that no endless child blocks.
- `FileKeepsUp` (refinement): the file only moves on to later versions although
  snapshots wait in the slot and in the worker's hand, and a flush reports
  success only over the latest content, or after a failed write.
- `AckMeansDurable`: the acknowledgement of a flush that timed out cannot be
  taken for the answer to the next one, for each flush has a channel of its own.
- `OneCheckAtATime`, `ReadyIsOnDisk`: the two tasks exclude each other by two
  tests on different variables (`manual_check_active` in the loop, the status in
  `try_start_manual`), and a download begins by emptying the directory in which
  the other task's archive lies.
- `OneFailureLeavesABinary`: one failed file operation, or a broken release, is
  rolled back; two (the rollback fails as well) leave no executable.
- `ReadyMeansInstalled`: "ready to restart" stands in one field with the states
  of checks and downloads, and while it stands there the file at the program's
  path is the new binary, after its test run, unless the user disturbed the
  installation.  Which file the restart runs is not said: on Linux it is the one
  renamed to `.old` (section 7).
- `ShellsLiveOnce` (refinement): the layouts, the records of closes, the registry
  and the processes together give each shell one life: it is started in a pane,
  closed softly, brought back in the project it was closed in, moved, and ended,
  alone or with its project or, in its grace period, with the program.  A timer, click or exit that
  is late ends nobody else's shell.
- `NoTerminalLost`: a running shell is in the registry, and in a layout or in a
  pending close, whichever of the seven ways a pane leaves a layout was taken;
  only `replace_data` loses terminals (section 7).
- `OnePlaceEach`: an undo restores a whole tree, and still doubles nothing, since
  it does so only if the project's tree is the one that the close left.
- `RestoredPaneIsReaped`: the undo asks the registry, which may not know yet that
  the shell is dead; the breadcrumb lets the late exit remove the pane.  It works
  while the pane stays in its project.
- `HandlesAreTrue`, `NoTransportLeaks`: replacing a handle stops the loop before
  it under one lock, and connecting under the pool's lock keeps a second
  connection from being forgotten.
- `PoolLends` (refinement): a session has one connection or none, tunnels borrow
  that of their own session, and of the connections that are lent only the
  network closes one.  A tunnel's loan is its unexposed use of a transport, so
  the two races of section 7 are outside, and nothing else is.
- `ComesToRest`: a stopped loop ends wherever it was, a remote one notices the
  loss of its transport, and an idle transport is closed.
- `RunningIsShown`: seven operations write rows and controls apart from each
  other; for a worker that is at work, they never disagree.
- `CompleteMeansWhole`: an early end of the loop is always marked as one, so that
  the cancellation or failure that came too late is the only one ignored.
- `HistoryIsTrue`: every operation that changes a verdict writes the file.
- `RemovalIsFinal`: a removed transfer is out of reach of every later click, result
  and tick; the read or write under way is its last, though it may still write or
  complete.
- `TransfersSettle`: a paused transfer that is removed or failed wakes and ends.
- `RefusalEnds`: whatever fails, "checking" and "downloading" come to an end;
  the abandoned check of section 7 is excepted by name (`Abandoned`).

Runs that find a claim of a comment violated are in section 7.

## 5. Fairness

- `CloudSync`: weak fairness of each run's next step (the runtime polls its
  tasks and every network call has an outcome) and of the engine's start (the
  timer comes back, whatever the last run did).  None for the users, the panel
  or the faults.
- `CommandBus`: threads are scheduled, a child that can exit does, deadlines
  pass, a pipe whose writers are gone ends.  None for cancellation, for children
  in `Hangs`, and for pipes that a descendant keeps open (`Daemon`).
- `Updater`: weak fairness of the loop and of both tasks: timers expire, and each
  network call has a time limit, after which it fails (15 seconds for checks, 30 for
  checksums, an hour for the download).  None for the user or installations.
- `SoftClose`: weak fairness of the probes and of the timers, per terminal.  None
  for clicks, toasts or the end of shells.
- `Tunnels`: weak fairness of each task's next step, of the idle timeout and of
  the cleaner; strong fairness of the end of connecting, since the third failed
  attempt is the last one.  None for users, peers and the network.
- `Transfers`: weak fairness of each transfer's worker, ticker and awaiting task.
  A lost connection ends a call that hangs, because keepalives are on.  None for
  the user: a paused transfer stays so.
- `SettingsPersister`: the worker task and the blocked UI thread proceed; a
  failing write is never forced.

## 6. What is proved

For all values of the constants, from the named assumptions beside them:

- `BundleMerge_proofs`: all five properties of `merge`.  They are laws of pure
  operators: `Spec` lets the inputs change in any way within their sets, so the
  invariants follow from the types of the inputs and from one lemma per operator.
  The stamps (revision, time, device) are ordered totally, which is what
  `MergeDominates` and `MergeIsSymmetric` rest on; a restamped row has a revision
  above both origins.  `FolderAssumption` says that no folder is the mark for an
  absent one, `RangeAssumption` that revisions and times are numbers.
- `CloudSync_proofs`: `TypeOK`, `LatestIsComplete`, `LineageIsPublished`,
  `RecordedPairIsPublished`, `UpToDateMeansEqual`, `FlagIsHeld`, that a merge of
  well-formed rows is well-formed (`MergeTyped`), and the refinement
  `RemoteIsAtomicStore`.  None of them is inductive.  `IInv` adds what a run may
  rely on in each phase (`RunOK`): the state read at the start is a published
  pair, the snapshot decided on and the one pulled are stored, the one pushed
  has the files its phase implies; and that baselines are stored.  Its parts
  take snapshots and objects as parameters, since both only ever grow: one lemma
  (`Carried`) moves everything that a step leaves alone over that step, so that
  each action needs a proof only for the run it advances.  `FlagIsHeld` is
  inductive with `TypeOK`; its steps are of four kinds (a run that takes the flag,
  one that keeps it, one that lowers it, one without it), each with a lemma.
- `CommandBus_proofs`: `TypeOK`, `NoStrayChild`, `OneWorkerPerJob`,
  `ScopeKnowsItsJobs`.  `IInv` relates where a worker is with the state of its
  job's child, says that jobs in the queues, with callers and with workers are
  disjoint, and that what is unanswered is in one of these places.
  `CancelledFirstNeverRuns` follows from the first test of a worker.
  `OneRunOneAnswer` needs `VerdictInv` besides: what a worker is about to answer
  is true of its command, and only a cancel() kills a child behind the back of
  its worker.  The worker's wait, spawn, poll, reap and join are stutters of
  `OneShotCommands`; what moves it is popping, the test of the flag, the answer.
- `SettingsPersister_proofs`: `TypeOK`, `AckMeansDurable`, `HashIsOfDisk`.
  `IInv` says what the disk holds while the worker owes the flush that the
  caller waits for, and that an empty slot with a worker not writing means that
  the last version is on disk.  `FileKeepsUp` needs `VersionInv` besides: what the
  worker has in hand is not older than the file, and the UI thread holds the
  newest version.  A write is a `Store`; a skipped write is hidden
  because the hash is that of the file (`HashIsOfDisk`).
- `Updater_proofs`: `TypeOK`, `OneCheckAtATime`, `ReadyIsOnDisk`,
  `DownloadIsUnderWay`, `OneFailureLeavesABinary`, `ReadyMeansInstalled`.  `IInv`
  adds why they hold: who looks for a release, and who installs, has left a status that keeps the
  others out (`StatusTellsWho`, `ManualFlag`); a task that downloads owns the
  directory (`DownloadOnDisk`); an installation past its rename has something to
  go back to (`OldIsAtHand`), and what is broken came with the release.
  `ReadyMeansInstalled` is inductive with `NewInPlace`: the copy is the release
  until it is validated, and new from there on.
- `SoftClose_proofs`: `TypeOK`, `NoTerminalLost`, `OnePlaceEach`,
  `RestoredPaneIsReaped`, for any number of projects, terminals and closes.  What
  makes them inductive: the two trees of a record differ by its terminal
  (`RecordsMatch`: restoring a tree brings back that one pane), the breadcrumb
  names the project the pane is in (`CrumbsMatch`), a terminal never opened is
  nowhere, and an exit on its way is that of a dead shell.  One lemma (`EndIInv`)
  serves the four ways in which pending closes end with their shells.
  `ShellsLiveOnce` maps a shell to one place, which is well-defined by
  `OnePlaceEach`; `Steady` says that a step leaves a shell's process, panes and
  records alone, and then `SteadyPlace` gives the unchanged place, so that each
  action needs a proof for the shells it moves or ends only.
- `Tunnels_proofs`: `TypeOK`, `HandlesAreTrue`, `NoTransportLeaks`, and
  `InUseStaysOpen`, which is a part of what `PoolLends` says and in no run of its
  own.  `IInv` adds that a handle is that of a loop of its tunnel,
  which says so when it ends (`HandlesAreLoops`); that whoever connects holds the
  lock and its session has no open transport (`LockIsHeld`); and what protects a
  user, its entry in the list of a transport that the cleaner has not chosen
  (`Protected`).  `PoolLends` needs `SessionsMatch` besides: a transport stays with
  the session it was made for, in the pool and in the hands of its tasks.  Then
  connecting, registering, unregistering, the sweep and a drop are one step of
  `ConnectionLending` each, and all others are stutters.
- `Transfers_proofs`: `TypeOK`, `RunningIsShown`, `HistoryIsTrue`,
  `CompleteMeansWhole`.  The operations of the store are proved once for the store
  (`StoreOpKeepsStore`) and once for the workers; `Alone` says that a destination
  nobody shares holds what its transfer wrote and has no other worker at it, and
  `RowIsResult` that a row of this run is complete only if its worker said so.
  `RemovalIsFinal` is an action property: the worker of a removed transfer finds
  "cancelled" when it next loads its control, which is out of reach of every click
  since the store no longer lists it.

`OneWorkerPerJob`, `VerdictInv`, `VersionInv`, `HashIsOfDisk`,
`DownloadIsUnderWay` and `InUseStaysOpen` are proved and in no run; they carry
properties that are, or are a part of one.  The assumptions are those stated in the
modules, and no more: constants are of their sort, bounds are numbers, the marks
for nothing (`NoRow`, `Nowhere`, `Absent`) are not among the values.

Every safety and action property of the passing runs is proved.  Model-checked
only is liveness (`FlagIsReleased`, `Converges`, `CallsAreAnswered`,
`LastChangeIsSaved`, `RefusalEnds`, `SoftCloseIsSettled`, `ComesToRest`,
`TransfersSettle`), which is out of the prover's reach, as it argues about
fairness and enabled actions.

## 7. Disagreements between comments and code

Each is a run that is expected to fail; the property states the comment.

| Run | Comment | What happens |
|---|---|---|
| `sync_claim_pull` | `snapshot.rs:128` "仅远端改 → pull" | The condition tests the remote's parent only. A device has pulled a row, edits it, and does not push; another device has pushed a newer snapshot in the meantime, whose parent is the one pulled: the next run pulls it over the edit. The property leaves out devices that never synchronised and those whose last pull raced with a push, which make the same test true without an edit |
| `settings_claim_quit` | `settings_persister.rs:5` "deterministic synchronous flush on application quit" | The worker has taken the snapshot and not yet written it: the slot is empty, `flush_sync` returns, the application quits |
| `soft_close_claim_grace` | `actions/soft_close.rs:3-5` "keeps its PTY alive for a grace period so the user can undo an accidental close" | The timer at `velowork-app/src/soft_close.rs:162` knows the terminal only. A busy terminal is closed, brought back and closed again: the first timer ends the second close, however short ago it began |

Met while modelling, without a run of their own.

*Synchronisation.*

- `save_config` writes every row again with revision 1, the current time and no
  device (`ssh_session_tree.rs:229`): a row edited here at time 1 loses against
  an unedited copy that the other device saved again at time 2, against
  `merge.rs:3-4`.
- A device that never pushed but has sessions pulls over them when the remote
  snapshot has no parent (`snapshot.rs:130` answers before the check at 133).
- An empty tree is not exported (`exporter.rs:114`), so that a device which deletes
  its last row pushes a snapshot without a tree: the import of it leaves the other
  device's row in place, that device pushes it anew, and the row comes back.
  `Converges` holds, as the devices agree on the row again.
- The baseline passed as "真实的共同祖先" (`snapshot.rs:238`) is whatever the last
  run left; a pull makes no backup although `backup.rs:1` says so;
  `sync_snapshot` ignores its `_strategy` parameter (`snapshot.rs:154`), while
  `Cloud-Sync.md:81` describes a choice of strategies.
- The buttons of the settings panel test a flag of their own and not `SYNCING`
  (`sync_engine.rs:31`), so that its run and the engine's overlap on one device.
- A run that succeeds stores its time in the settings (`sync_engine.rs:297`), whose
  observer starts the next run two seconds later, and so on; `Cloud-Sync.md:80`
  describes one run per configured period (1800 seconds by default).  Settings pulled by a
  run race with a pending snapshot of the old ones in the persister.
- An import is one transaction per part (`exporter.rs:207`): one that fails leaves
  the parts before it imported.
- The "recursive three-way merge" of quick commands (`merge.rs:866`) ignores its
  base, so that a command deleted on one device comes back, a folder renamed here
  keeps the other device's name (`merge.rs:906`), and `into_values` returns the
  nodes in no order.

*Command bus.*

- A timed-out child is killed, but when a descendant holds its pipe the worker
  blocks in `join` (`bus.rs:586`) and the caller for ever, against
  `process/mod.rs:66-68`.
- A child abandoned by a failed `try_wait` escapes the cap of `bus.rs:53`; a
  `cancel` between the test of the flag and `try_wait` returns the child's signal
  as its output, against `bus.rs:556-557`.

*Updater.*

- Automatic checks switched off while one is under way: the loop ends for good at
  line 74 of `update_checker.rs` when the check finds a release, against line 27,
  and leaves "checking" behind, for which every manual check is refused.
- A check is not refused while an update is being installed: it overwrites that
  status and empties the directory being installed from.  A restart between the
  rename and the copy of an installation finds no executable.  On Linux the
  restart after an update starts the file that was renamed to `.old`, the previous
  version, which then removes that file.  A binary that cannot be started at all
  (`installer.rs:68`) is not rolled back.

*Soft close.*

- A pane that was undone and then moved to another project leaves its breadcrumb
  with the old one, so that a late exit finds no pane there and the dead pane
  lingers, against `state.rs:80-82`.
- `replace_data` drops the pending closes without ending their shells
  (`state.rs:135`), and the shells of panes that the new workspace lacks go on:
  nothing reaches them any more.
- `move_pane_same_project` takes the source out before it looks for the target
  again, and drops the pane if it is not found.

*Tunnels.*

- `unregister_channel` removes every equal channel (`transport_pool.rs:46`): when
  one connection of a tunnel ends, the transport counts as idle though others use
  it, and is closed under them after the timeout.  A channel may also be
  registered after the cleaner has counted (`transport_pool.rs:123`).
- A stopped remote tunnel is not taken back from the server (no
  `cancel_tcpip_forward`), so that a restart over the same transport is rejected;
  its `local_target` is ignored (`tunnel_engine.rs:272`).
- The error "SSH connection dropped" is overwritten by `Stopped`
  (`tunnel_engine.rs:306-316`), although `SSH-Tunnels.md` §5 says that red means a
  dropped connection.  The same page describes retries of a lost tunnel and an
  automatic start that the code lacks.

*Transfers.*

- Identifiers start at `xfer-0` in every run (`transfer_store.rs:180`): a new
  transfer replaces a row of the history, and the next save erases it from disk.
- Two transfers to one destination do not know of each other: cancelling one
  removes the file that the other completed (`shared` in the model).
- A click on an outdated row can leave a finished transfer at "paused" or "active"
  for ever (`late`), or set the control of a failed one back to "active"; a
  transfer failed because a terminal without SSH got the focus
  (`sftp_panel.rs:902`) may then be shown as complete.
- `load_persisted` marks interrupted transfers (`transfer_store.rs:386`), but only
  finished ones are ever saved.
- A paused worker looks at its control only (`sftp_panel.rs:2817`): it does not
  notice the loss of its connection before it is resumed.

## 8. What is not modelled

- Encryption, compression, HTTP and the two transports: a call succeeds, fails,
  or takes effect without an answer.  S3 and WebDAV behave alike here.
- Scopes other than the session tree, folders and drag and drop in it, the
  sort order after a merge.
- The engine's timer and signals: `BeginEngineSync` may happen
  whenever the flag is down.
- The in-place edit of the session store and the write of the table 300 ms later
  are one step.
- The updater's `cancel`, which nothing in the application calls, the `dismissed`
  flag, progress as a number, and the comparison of versions.
- Soft close: focus, paths and splits of the tree, several windows, and the
  respawn of a shell for a pane that has none.
- Tunnels: `remove_transport` and `stop_all`, which nothing calls, the bytes of
  handshake and copy, the panel's counters.  Rows that a reload of the tunnel
  store removes are not stopped; the model has no such reload.
- Transfers: speeds and sizes, the limit of 200 rows, failing saves, the upload of
  a file that was opened and changed.
- Time: deadlines and debounce intervals are actions that may happen at any
  moment after they are armed.
- The components of the table in section 1.  Most of the program is its user
  interface, parsers and drivers of libraries (GPUI, alacritty, russh, SQLite):
  text in and text or pixels out, without a protocol between actors.  What has
  one and is left out: the AI runtime, where a request is registered by updating
  the state of a task that was never inserted (`ai_runtime.rs:47`), so that cancel
  finds nothing; the PTY manager's threads; ZMODEM; the service monitor; the
  instance lock.
