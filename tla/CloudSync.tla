----------------------------- MODULE CloudSync -----------------------------
(***************************************************************************)
(* Snapshot synchronisation of several devices through one remote store:   *)
(* velowork-workspace/src/sync/{snapshot,exporter,bundle,s3,webdav}.rs,    *)
(* driven by velowork-app/src/sync_engine.rs and by the sync page of the   *)
(* settings panel (render_sync.rs).                                        *)
(*                                                                         *)
(* The synchronised content is the session tree (SyncDataScope.sessions);  *)
(* its content hash is represented by the tree itself.  A device runs any  *)
(* number of actors: those of EngineActor go through the SYNCING flag (the *)
(* timer loop and the status-bar button), the others are the buttons of    *)
(* the settings panel, which never look at it.                             *)
(*                                                                         *)
(* A step of a run is what happens between two awaits, or between two      *)
(* writes that a crash can separate.                                       *)
(***************************************************************************)
EXTENDS SyncMerge, Sequences, FiniteSets

CONSTANTS Actor,        \* the tasks that can run a synchronisation
          Home,         \* the device an actor belongs to
          EngineActor,  \* the actors that take SYNCING
          NoHash,       \* LocalSyncState without a content hash
          MaxEdits,     \* bound: changes made by the users
          MaxSnaps,     \* bound: snapshots sealed for the remote store
          MaxFaults     \* bound: failed calls, lost answers and crashes

ASSUME ActorAssumption == Home \in [Actor -> Device] /\ EngineActor \subseteq Actor
ASSUME NoHashAssumption == NoHash \notin Tree
ASSUME BoundAssumption == /\ MaxEdits \in Nat
                          /\ MaxSnaps \in Nat
                          /\ MaxFaults \in Nat

VARIABLES
    mem,      \* the session store of each device: key -> value, 0 if none
    tree,     \* the session_tree_node table of each device
    state,    \* sync_state.json of each device
    base,     \* sync_baseline.bundle of each device: a snapshot, 0 if none
    snaps,    \* every snapshot sealed so far; its index is its snapshot id
    remote,   \* the objects <<snapshot, file>> the remote store holds
    latest,   \* latest.json: a snapshot, 0 if the file does not exist
    run,      \* the run of each actor
    syncing,  \* SYNCING, one flag in each device's process
    clock,    \* the time that now_iso8601 reads, in seconds
    edits,    \* how many changes the users made
    faults    \* how many faults happened

remoteVars == <<snaps, remote, latest>>
localVars == <<mem, tree, state, base>>
envVars == <<clock, edits, faults>>
vars == <<localVars, remoteVars, run, syncing, envVars>>

-----------------------------------------------------------------------------
(* Data.                                                                   *)

None == 0
Files == {"manifest", "bundle"}

LocalState == [pushed : Nat, hash : Tree \cup {NoHash}]
DefaultState == [pushed |-> None, hash |-> NoHash]

Snapshot == [parent : Nat, tree : Tree]

Phase == {"idle", "manifest", "pull", "import", "putManifest", "putBundle",
          "putLatest", "baseline", "save", "reload"}
Kind == {"none", "upToDate", "push", "pull", "merge", "force", "restore"}

\* st: the LocalSyncState read at the start; local: the tree exported then;
\* rm: the snapshot whose manifest was read; got: the snapshot pulled;
\* id: the snapshot this run pushes; backed: a safety backup was written.
Run == [phase : Phase, kind : Kind, st : LocalState, local : Tree,
        rm : Nat, got : Nat, id : Nat, backed : BOOLEAN]

IdleRun == [phase |-> "idle", kind |-> "none", st |-> DefaultState,
            local |-> EmptyTree, rm |-> None, got |-> None, id |-> None,
            backed |-> FALSE]

Rows(t) == {k \in Key : t[k] # NoRow}

\* load_config: what the session store keeps of the table.
Values(t) == [k \in Key |-> IF t[k] = NoRow THEN 0 ELSE t[k].val]

\* save_config: every row is written anew, with revision 1 and no device.
Saved(m, now) ==
    [k \in Key |-> IF m[k] = 0 THEN NoRow
                   ELSE [val |-> m[k], rev |-> 1, ts |-> now, dev |-> Blank]]

\* import_scoped: a snapshot of an empty tree has no session_tree part, and
\* then the table stays as it is; otherwise it is replaced.
Imported(old, new) == IF Rows(new) = {} THEN old ELSE new

Complete(i) == \A f \in Files : <<i, f>> \in remote

\* pull_manifest: no manifest to read is the same as no remote at all.
RemoteHead == IF <<latest, "manifest">> \in remote THEN latest ELSE None

-----------------------------------------------------------------------------
(* decide.                                                                 *)

Changed(st, local) == st.hash # local

\* The mutated forms: what changed here does not matter, or a device whose
\* push was passed over by another looks no further while nothing changed here.
DecideIgnoringChange(st, local, rm) ==
    IF rm = None THEN "push"
    ELSE IF st.pushed = rm THEN "upToDate"
    ELSE IF snaps[rm].parent = st.pushed THEN "pull"
    ELSE "merge"

DecideForked(st, local, rm) ==
    IF rm = None \/ st.pushed = rm
    THEN IF Changed(st, local) THEN "push" ELSE "upToDate"
    ELSE IF snaps[rm].parent = st.pushed THEN "pull"
    ELSE IF st.pushed = None /\ Rows(local) = {} THEN "pull"
    ELSE IF Changed(st, local) THEN "merge" ELSE "upToDate"

Decide(st, local, rm) ==
    IF rm = None \/ st.pushed = rm
    THEN IF Changed(st, local) THEN "push" ELSE "upToDate"
    ELSE IF snaps[rm].parent = st.pushed THEN "pull"
    ELSE IF st.pushed = None /\ Rows(local) = {} THEN "pull"
    ELSE "merge"

-----------------------------------------------------------------------------
TypeOK ==
    /\ mem \in [Device -> [Key -> Nat]]
    /\ tree \in [Device -> Tree]
    /\ state \in [Device -> LocalState]
    /\ base \in [Device -> Nat]
    /\ snaps \in Seq(Snapshot)
    /\ remote \subseteq (1 .. Len(snaps)) \X Files
    /\ latest \in 0 .. Len(snaps)
    /\ run \in [Actor -> Run]
    /\ syncing \in [Device -> BOOLEAN]
    /\ clock \in Nat
    /\ edits \in Nat
    /\ faults \in Nat

Init ==
    /\ mem = [d \in Device |-> [k \in Key |-> 0]]
    /\ tree = [d \in Device |-> EmptyTree]
    /\ state = [d \in Device |-> DefaultState]
    /\ base = [d \in Device |-> None]
    /\ snaps = <<>>
    /\ remote = {}
    /\ latest = None
    /\ run = [a \in Actor |-> IdleRun]
    /\ syncing = [d \in Device |-> FALSE]
    /\ clock = 0
    /\ edits = 0
    /\ faults = 0

-----------------------------------------------------------------------------
(* The users.  A change goes to the session store and, 300 ms later, the   *)
(* whole store is written over the table; the two are one step here.       *)

Store(d, m, now) ==
    /\ mem' = [mem EXCEPT ![d] = m]
    /\ tree' = [tree EXCEPT ![d] = Saved(m, now)]

\* A new session, or new content for an old one: each change has its value.
Edit(d, k) ==
    /\ edits < MaxEdits
    /\ edits' = edits + 1
    /\ clock' \in {clock, clock + 1}
    /\ Store(d, [mem[d] EXCEPT ![k] = edits'], clock')
    /\ UNCHANGED <<state, base, remoteVars, run, syncing, faults>>

Delete(d, k) ==
    /\ edits < MaxEdits
    /\ mem[d][k] # 0
    /\ edits' = edits + 1
    /\ clock' \in {clock, clock + 1}
    /\ Store(d, [mem[d] EXCEPT ![k] = 0], clock')
    /\ UNCHANGED <<state, base, remoteVars, run, syncing, faults>>

-----------------------------------------------------------------------------
(* The end of a run, with or without an error.                             *)

\* The run r in a later phase, with the snapshots it came to know.
Advanced(r, phase, got, id) ==
    [phase |-> phase, kind |-> r.kind, st |-> r.st, local |-> r.local,
     rm |-> r.rm, got |-> got, id |-> id, backed |-> r.backed]

Goto(a, p) == run' = [run EXCEPT ![a] = Advanced(run[a], p, run[a].got, run[a].id)]

Release(a) ==
    syncing' = IF a \in EngineActor THEN [syncing EXCEPT ![Home[a]] = FALSE]
                                    ELSE syncing

\* The mutated form forgets the flag on the way out of an error.
AbortKeepingFlag(a) == run' = [run EXCEPT ![a] = IdleRun] /\ UNCHANGED syncing

Abort(a) == run' = [run EXCEPT ![a] = IdleRun] /\ Release(a)

(* The start: LocalSyncState::load, then export_scoped.                    *)

Started(a, kind, phase, id, backed) ==
    [phase |-> phase, kind |-> kind, st |-> state[Home[a]], local |-> tree[Home[a]],
     rm |-> None, got |-> None, id |-> id, backed |-> backed]

Start(a, kind, phase, id, backed) ==
    run' = [run EXCEPT ![a] = Started(a, kind, phase, id, backed)]

\* create_safety_backup: its error is ignored.
Backup(done) ==
    \/ done = TRUE /\ UNCHANGED faults
    \/ done = FALSE /\ faults < MaxFaults /\ faults' = faults + 1

\* start_sync_engine and trigger_manual_sync.
BeginEngineSync(a) ==
    /\ a \in EngineActor
    /\ run[a].phase = "idle"
    /\ ~syncing[Home[a]]
    /\ syncing' = [syncing EXCEPT ![Home[a]] = TRUE]
    /\ Start(a, "none", "manifest", None, FALSE)
    /\ UNCHANGED <<localVars, remoteVars, envVars>>

\* sync_now of the settings panel.
BeginPanelSync(a) ==
    /\ a \notin EngineActor
    /\ run[a].phase = "idle"
    /\ Start(a, "none", "manifest", None, FALSE)
    /\ UNCHANGED <<localVars, remoteVars, syncing, envVars>>

\* restore_from_cloud_scoped, up to its call of pull.
BeginRestore(a) ==
    /\ a \notin EngineActor
    /\ run[a].phase = "idle"
    /\ \E backed \in BOOLEAN : /\ Backup(backed)
                               /\ Start(a, "restore", "pull", None, backed)
    /\ UNCHANGED <<localVars, remoteVars, syncing, clock, edits>>

-----------------------------------------------------------------------------
(* Sealing gives the content an identifier of its own.  The store has room *)
(* for MaxSnaps snapshots, counting those that a merge in progress is going *)
(* to push; once it is full it answers a run that wants to push with an    *)
(* error.                                                                  *)

Merging == {a \in Actor : run[a].kind = "merge" /\ run[a].phase \in {"pull", "import"}}

StoreFull == Len(snaps) + Cardinality(Merging) >= MaxSnaps

Sealed(parent, t) == Append(snaps, [parent |-> parent, tree |-> t])

\* force_push_to_cloud, up to the first upload.
BeginForcePush(a) ==
    /\ a \notin EngineActor
    /\ run[a].phase = "idle"
    /\ ~StoreFull
    /\ snaps' = Sealed(None, tree[Home[a]])
    /\ Start(a, "force", "putManifest", Len(snaps) + 1, FALSE)
    /\ UNCHANGED <<localVars, remote, latest, syncing, envVars>>

(* sync_snapshot, from the answer of pull_manifest to the decision.        *)

Decision(a) == Decide(run[a].st, run[a].local, RemoteHead)

Decided(r, kind, phase, id, backed) ==
    [phase |-> phase, kind |-> kind, st |-> r.st, local |-> r.local,
     rm |-> RemoteHead, got |-> None, id |-> id, backed |-> backed]

Take(a, kind, phase, id, backed) ==
    run' = [run EXCEPT ![a] = Decided(run[a], kind, phase, id, backed)]

DecideUpToDate(a) ==
    /\ run[a].phase = "manifest"
    /\ Decision(a) = "upToDate"
    /\ Take(a, "upToDate", "save", None, FALSE)
    /\ UNCHANGED <<localVars, remoteVars, syncing, envVars>>

\* The mutated form takes the newest snapshot sealed as the parent, whether
\* or not its push succeeded.
DecidePushOnNewest(a) ==
    /\ run[a].phase = "manifest"
    /\ Decision(a) = "push"
    /\ ~StoreFull
    /\ snaps' = Sealed(Len(snaps), run[a].local)
    /\ Take(a, "push", "putManifest", Len(snaps) + 1, FALSE)
    /\ UNCHANGED <<localVars, remote, latest, syncing, envVars>>

DecidePush(a) ==
    /\ run[a].phase = "manifest"
    /\ Decision(a) = "push"
    /\ ~StoreFull
    /\ snaps' = Sealed(run[a].st.pushed, run[a].local)
    /\ Take(a, "push", "putManifest", Len(snaps) + 1, FALSE)
    /\ UNCHANGED <<localVars, remote, latest, syncing, envVars>>

DecidePull(a) ==
    /\ run[a].phase = "manifest"
    /\ Decision(a) = "pull"
    /\ Take(a, "pull", "pull", None, FALSE)
    /\ UNCHANGED <<localVars, remoteVars, syncing, envVars>>

DecideMerge(a) ==
    /\ run[a].phase = "manifest"
    /\ Decision(a) = "merge"
    /\ ~StoreFull
    /\ \E backed \in BOOLEAN :
          /\ Backup(backed)
          /\ Take(a, "merge", "pull", None, backed)
    /\ UNCHANGED <<localVars, remoteVars, syncing, clock, edits>>

Refused(a) ==
    /\ run[a].phase = "manifest"
    /\ Decision(a) \in {"push", "merge"}
    /\ StoreFull
    /\ Abort(a)
    /\ UNCHANGED <<localVars, remoteVars, envVars>>

-----------------------------------------------------------------------------
(* pull: latest.json is read again, then both files of that snapshot.      *)

PullLatest(a) ==
    /\ run[a].phase = "pull"
    /\ latest # None
    /\ Complete(latest)
    /\ run' = [run EXCEPT ![a] = Advanced(run[a], "import", latest, run[a].id)]
    /\ UNCHANGED <<localVars, remoteVars, syncing, envVars>>

\* Nothing to pull, or a file of it missing: the call returns an error.
PullNothing(a) ==
    /\ run[a].phase = "pull"
    /\ latest = None \/ ~Complete(latest)
    /\ Abort(a)
    /\ UNCHANGED <<localVars, remoteVars, envVars>>

ImportPulled(a) ==
    /\ run[a].phase = "import"
    /\ run[a].kind \in {"pull", "restore"}
    /\ tree' = [tree EXCEPT ![Home[a]] = Imported(@, snaps[run[a].got].tree)]
    /\ Goto(a, "baseline")
    /\ UNCHANGED <<mem, state, base, remoteVars, syncing, envVars>>

BaseTree(d) == IF base[d] = None THEN EmptyTree ELSE snaps[base[d]].tree

\* The merge of the exported tree, not of the table as it is by now.
MergedTree(a) ==
    MergeSessionTree(BaseTree(Home[a]), run[a].local, snaps[run[a].got].tree,
                     Home[a])

ImportMerged(a) ==
    /\ run[a].phase = "import"
    /\ run[a].kind = "merge"
    /\ tree' = [tree EXCEPT ![Home[a]] = Imported(@, MergedTree(a))]
    /\ snaps' = Sealed(run[a].rm, MergedTree(a))
    /\ run' = [run EXCEPT ![a] = Advanced(run[a], "putManifest", run[a].got,
                                          Len(snaps) + 1)]
    /\ UNCHANGED <<mem, state, base, remote, latest, syncing, envVars>>

-----------------------------------------------------------------------------
(* push: the two files of the snapshot, then latest.json.                  *)

\* The mutated forms: latest.json is written before the bundle, or with the
\* manifest.
PutManifestThenLatest(a) ==
    /\ run[a].phase = "putManifest"
    /\ remote' = remote \cup {<<run[a].id, "manifest">>}
    /\ Goto(a, "putLatest")
    /\ UNCHANGED <<localVars, snaps, latest, syncing, envVars>>

PutManifestAndLatest(a) ==
    /\ run[a].phase = "putManifest"
    /\ remote' = remote \cup {<<run[a].id, "manifest">>}
    /\ latest' = run[a].id
    /\ Goto(a, "putBundle")
    /\ UNCHANGED <<localVars, snaps, syncing, envVars>>

PutManifest(a) ==
    /\ run[a].phase = "putManifest"
    /\ remote' = remote \cup {<<run[a].id, "manifest">>}
    /\ Goto(a, "putBundle")
    /\ UNCHANGED <<localVars, snaps, latest, syncing, envVars>>

PutBundle(a) ==
    /\ run[a].phase = "putBundle"
    /\ remote' = remote \cup {<<run[a].id, "bundle">>}
    /\ Goto(a, "putLatest")
    /\ UNCHANGED <<localVars, snaps, latest, syncing, envVars>>

\* Only force_push_to_cloud leaves the baseline alone.
PutLatest(a) ==
    /\ run[a].phase = "putLatest"
    /\ latest' = run[a].id
    /\ Goto(a, IF run[a].kind = "force" THEN "save" ELSE "baseline")
    /\ UNCHANGED <<localVars, snaps, remote, syncing, envVars>>

\* The snapshot that the baseline file and the local state are made of.
Baseline(r) == IF r.kind \in {"pull", "restore"} THEN r.got ELSE r.id

\* The error of this write is ignored; it may leave a truncated file, which
\* the next merge reads as no baseline.
WriteBaseline(a) ==
    /\ run[a].phase = "baseline"
    /\ \/ /\ base' = [base EXCEPT ![Home[a]] = Baseline(run[a])]
          /\ UNCHANGED faults
       \/ /\ faults < MaxFaults
          /\ faults' = faults + 1
          /\ base' \in {base, [base EXCEPT ![Home[a]] = None]}
    /\ Goto(a, "save")
    /\ UNCHANGED <<mem, tree, state, remoteVars, syncing, clock, edits>>

\* A pull records the manifest it decided on, not the snapshot it imported.
Recorded(r) ==
    CASE r.kind = "pull" -> r.rm
      [] r.kind = "restore" -> r.got
      [] OTHER -> r.id

\* The mutated form records the content exported at the start of the run.
NextStateOfLocal(r) ==
    IF r.kind = "upToDate" THEN r.st
    ELSE [pushed |-> Recorded(r), hash |-> r.local]

NextState(r) ==
    IF r.kind = "upToDate" THEN r.st
    ELSE [pushed |-> Recorded(r), hash |-> snaps[Recorded(r)].tree]

Downloaded(r) == r.kind \in {"pull", "merge", "restore"}

\* After the save the engine clears SYNCING, then the stores are reloaded.
Save(a) ==
    /\ run[a].phase = "save"
    /\ state' = [state EXCEPT ![Home[a]] = NextState(run[a])]
    /\ IF Downloaded(run[a]) THEN Goto(a, "reload")
                             ELSE run' = [run EXCEPT ![a] = IdleRun]
    /\ Release(a)
    /\ UNCHANGED <<mem, tree, base, remoteVars, envVars>>

\* The mutated form clears the flag once more, whoever has taken it by then.
ReloadAndRelease(a) ==
    /\ run[a].phase = "reload"
    /\ mem' = [mem EXCEPT ![Home[a]] = Values(tree[Home[a]])]
    /\ run' = [run EXCEPT ![a] = IdleRun]
    /\ Release(a)
    /\ UNCHANGED <<tree, state, base, remoteVars, envVars>>

Reload(a) ==
    /\ run[a].phase = "reload"
    /\ mem' = [mem EXCEPT ![Home[a]] = Values(tree[Home[a]])]
    /\ run' = [run EXCEPT ![a] = IdleRun]
    /\ UNCHANGED <<tree, state, base, remoteVars, syncing, envVars>>

\* sync_now after the settings panel was closed: nobody reloads the stores.
SkipReload(a) ==
    /\ a \notin EngineActor
    /\ run[a].phase = "reload"
    /\ run[a].kind # "restore"
    /\ run' = [run EXCEPT ![a] = IdleRun]
    /\ UNCHANGED <<localVars, remoteVars, syncing, envVars>>

-----------------------------------------------------------------------------
(* Faults.                                                                 *)

\* A call to the store, the database or the disk returns an error.  The write
\* of the state file may fail after it has truncated the file: then the next
\* load() makes the state the default one.
Fail(a) ==
    /\ run[a].phase \notin {"idle", "baseline", "reload"}
    /\ faults < MaxFaults
    /\ faults' = faults + 1
    /\ Abort(a)
    /\ \/ UNCHANGED state
       \/ /\ run[a].phase = "save"
          /\ state' = [state EXCEPT ![Home[a]] = DefaultState]
    /\ UNCHANGED <<mem, tree, base, remoteVars, clock, edits>>

\* An upload takes effect, its answer is lost, the run ends with an error.
LoseAnswer(a) ==
    /\ faults < MaxFaults
    /\ faults' = faults + 1
    /\ \/ /\ run[a].phase = "putManifest"
          /\ remote' = remote \cup {<<run[a].id, "manifest">>}
          /\ UNCHANGED latest
       \/ /\ run[a].phase = "putBundle"
          /\ remote' = remote \cup {<<run[a].id, "bundle">>}
          /\ UNCHANGED latest
       \/ /\ run[a].phase = "putLatest"
          /\ latest' = run[a].id
          /\ UNCHANGED remote
    /\ Abort(a)
    /\ UNCHANGED <<localVars, snaps, clock, edits>>

\* The process dies and is started again.  A file that was being written is
\* the old one, the new one, or truncated.
TornState(d) ==
    \E a \in Actor : /\ Home[a] = d
                     /\ run[a].phase = "save"
                     /\ state' \in {[state EXCEPT ![d] = NextState(run[a])],
                                   [state EXCEPT ![d] = DefaultState]}

TornBaseline(d) ==
    \E a \in Actor : /\ Home[a] = d
                     /\ run[a].phase = "baseline"
                     /\ base' \in {[base EXCEPT ![d] = Baseline(run[a])],
                                  [base EXCEPT ![d] = None]}

Crash(d) ==
    /\ faults < MaxFaults
    /\ faults' = faults + 1
    /\ UNCHANGED state \/ TornState(d)
    /\ UNCHANGED base \/ TornBaseline(d)
    /\ run' = [a \in Actor |-> IF Home[a] = d THEN IdleRun ELSE run[a]]
    /\ syncing' = [syncing EXCEPT ![d] = FALSE]
    /\ mem' = [mem EXCEPT ![d] = Values(tree[d])]
    /\ UNCHANGED <<tree, remoteVars, clock, edits>>

-----------------------------------------------------------------------------
\* The steps that carry a run on once it was started.
Continue(a) ==
    \/ DecideUpToDate(a) \/ DecidePush(a) \/ DecidePull(a) \/ DecideMerge(a)
    \/ PullLatest(a) \/ PullNothing(a)
    \/ ImportPulled(a) \/ ImportMerged(a) \/ Refused(a)
    \/ PutManifest(a) \/ PutBundle(a) \/ PutLatest(a)
    \/ WriteBaseline(a) \/ Save(a) \/ Reload(a) \/ SkipReload(a)

Begin(a) ==
    \/ BeginEngineSync(a) \/ BeginPanelSync(a)
    \/ BeginRestore(a) \/ BeginForcePush(a)

Next ==
    \/ \E d \in Device, k \in Key : Edit(d, k) \/ Delete(d, k)
    \/ \E a \in Actor : Begin(a) \/ Continue(a) \/ Fail(a) \/ LoseAnswer(a)
    \/ \E d \in Device : Crash(d)

Spec == Init /\ [][Next]_vars

\* The timer of the engine keeps coming back, and a run that was started is
\* carried on by the runtime; nobody has to press a button of the panel.
Fairness ==
    /\ \A a \in Actor : WF_vars(Continue(a))
    /\ \A a \in EngineActor : WF_vars(BeginEngineSync(a))

FairSpec == Spec /\ Fairness

-----------------------------------------------------------------------------
(* Safety.                                                                 *)

\* A reader that follows latest.json finds both files of the snapshot, even
\* if the device that published it failed or died at any point of its push.
LatestIsComplete == latest # None => Complete(latest)

\* A snapshot names as its parent nothing but an older snapshot that is
\* completely stored: whoever walks the ancestry that decide compares never
\* meets a snapshot of a push that failed half way.
LineageIsPublished ==
    \A i \in 1 .. Len(snaps) :
        LET p == snaps[i].parent IN p < i /\ (p # None => Complete(p))

\* The identifier and the hash in sync_state.json describe one snapshot, and
\* it is stored: neither a pull that raced with another push (it imports a
\* newer snapshot than the one it decided on), nor two runs of one device,
\* nor a truncated file makes a pair that never existed.
RecordedPairIsPublished ==
    \A d \in Device :
        LET s == state[d] IN
        IF s.pushed = None THEN s.hash = NoHash
        ELSE /\ s.pushed \in 1 .. Len(snaps)
             /\ Complete(s.pushed)
             /\ s.hash = snaps[s.pushed].tree

\* When a run reports that there is nothing to do, the tree it exported is
\* the content of the remote snapshot it looked at.
UpToDateMeansEqual ==
    \A a \in Actor :
        LET r == run[a] IN
        r.kind = "upToDate" /\ r.rm # None => r.local = snaps[r.rm].tree

\* A run that SYNCING stands for: up to the save, or to its error.
InFlight(a) == run[a].phase \notin {"idle", "reload"}

\* SYNCING is up exactly while a run of the engine is in flight, and of two
\* tasks of one device only one has such a run: no error, no reload after the
\* save and no crash leaves the flag behind or takes down that of another.
FlagIsHeld ==
    \A d \in Device :
        LET flying == {a \in EngineActor : Home[a] = d /\ InFlight(a)} IN
        /\ syncing[d] <=> flying # {}
        /\ \A a, b \in flying : a = b

-----------------------------------------------------------------------------
(* Liveness, under FairSpec.                                               *)

\* A run of the engine ends, whatever fails: the flag always comes down.
FlagIsReleased == \A d \in Device : syncing[d] ~> ~syncing[d]

Agreed == \A d, e \in Device : Values(tree[d]) = Values(tree[e])

\* Once the users stop making changes, the devices come to hold the same
\* tree for good, unless they fill the store with pushes that race forever.
Converges == <>[]Agreed \/ <>[]StoreFull

-----------------------------------------------------------------------------
(* What the remote store is, seen from the devices: SnapshotStore, where a *)
(* snapshot is on the shelf as soon as both its files are there.           *)

Shelf == {[id |-> i, parent |-> snaps[i].parent, content |-> snaps[i].tree] :
             i \in {j \in 1 .. Len(snaps) : Complete(j)}}

Abstract == INSTANCE SnapshotStore
            WITH Content <- Tree, NoParent <- None, shelf <- Shelf, head <- latest

\* The pushes of all the devices, with the failures and crashes that stop
\* them half way, implement the store of atomic immutable snapshots.
RemoteIsAtomicStore == Abstract!StoreSpec

=============================================================================
