-------------------------- MODULE CloudSync_proofs --------------------------
(***************************************************************************)
(* Theorems about CloudSync, for all sets of devices, rows and actors and  *)
(* all bounds.  The invariants are proved from one inductive invariant,    *)
(* IInv, whose heart is that a device remembers nothing but published      *)
(* snapshots: in its state file, in its baseline, and in the fields of the *)
(* runs that are in flight.                                                *)
(***************************************************************************)
EXTENDS CloudSync, TLAPS

-----------------------------------------------------------------------------
(* What the merge makes of trees of rows.                                  *)

\* The merge of three trees of rows is a tree of rows again.
LEMMA MergeRowTyped ==
    ASSUME NEW b \in Row \cup {NoRow}, NEW l \in Row \cup {NoRow},
           NEW r \in Row \cup {NoRow}, NEW d \in Device
    PROVE  MergeSessionRow(b, l, r, d) \in Row \cup {NoRow}
<1> USE DeviceAssumption DEF Row, Blank
<1>1. ASSUME l \in Row, r \in Row
      PROVE  /\ Winner(l, r) \in Row
             /\ Restamped(l, r, d) \in Row
  BY <1>1 DEF Winner, Restamped, Stamped, HigherRev
<1>2. ASSUME l \in Row
      PROVE  Stamped(l, l.rev + 1, d) \in Row
  BY <1>2 DEF Stamped
<1>3. CASE l # NoRow /\ r # NoRow
  BY <1>1, <1>3, NoRowAssumption DEF MergeSessionRow, BothPresent
<1>4. CASE l # NoRow /\ r = NoRow
  BY <1>2, <1>4, NoRowAssumption DEF MergeSessionRow, LocalOnly
<1>5. CASE l = NoRow /\ r # NoRow
  BY <1>5 DEF MergeSessionRow, RemoteOnly
<1>6. CASE l = NoRow /\ r = NoRow
  BY <1>6 DEF MergeSessionRow
<1> QED BY <1>3, <1>4, <1>5, <1>6

\* merge_session_trees never leaves the type of a tree, so a table can hold what
\* it returns.
THEOREM MergeTyped ==
    ASSUME NEW b \in Tree, NEW l \in Tree, NEW r \in Tree, NEW d \in Device
    PROVE  MergeSessionTree(b, l, r, d) \in Tree
  BY MergeRowTyped DEF MergeSessionTree, Tree

-----------------------------------------------------------------------------
(* The inductive invariant.  Its parts take the snapshots sn and the       *)
(* objects rem as parameters, so that one lemma carries all of them over   *)
(* any step that adds snapshots and objects.                               *)

Stored(i, sn, rem) == i \in 1 .. Len(sn) /\ \A f \in Files : <<i, f>> \in rem

\* The pair of identifier and hash describes a published snapshot.
Known(s, sn, rem) ==
    IF s.pushed = None THEN s.hash = NoHash
    ELSE Stored(s.pushed, sn, rem) /\ s.hash = sn[s.pushed].tree

Uploading == {"putManifest", "putBundle", "putLatest"}
Finishing == {"baseline", "save"}

\* What a run may rely on in each of its phases.
RunOK(r, sn, rem) ==
    /\ Known(r.st, sn, rem)
    /\ r.rm # None => Stored(r.rm, sn, rem)
    /\ r.got # None => Stored(r.got, sn, rem)
    /\ r.phase = "manifest" => r.kind = "none"
    /\ r.phase \in {"pull", "import"} => r.kind \in {"pull", "merge", "restore"}
    /\ r.kind \in {"pull", "merge"} => r.rm # None
    /\ r.phase = "import" => r.got # None
    /\ r.phase \in Uploading => /\ r.kind \in {"push", "merge", "force"}
                                /\ r.id \in 1 .. Len(sn)
    /\ r.phase \in {"putBundle", "putLatest"} => <<r.id, "manifest">> \in rem
    /\ r.phase = "putLatest" => <<r.id, "bundle">> \in rem
    /\ r.phase = "baseline" => r.kind # "upToDate"
    /\ r.phase \in Finishing =>
          /\ r.kind # "none"
          /\ r.kind \in {"pull", "restore"} => r.got # None
          /\ r.kind \in {"push", "merge", "force"} => Stored(r.id, sn, rem)
    /\ r.kind = "upToDate" /\ r.rm # None => r.local = sn[r.rm].tree

LineageOK(sn, rem) ==
    \A i \in 1 .. Len(sn) :
        sn[i].parent < i /\ (sn[i].parent # None => Stored(sn[i].parent, sn, rem))

IInv ==
    /\ TypeOK
    /\ latest # None => Stored(latest, snaps, remote)
    /\ LineageOK(snaps, remote)
    /\ \A d \in Device : Known(state[d], snaps, remote)
    /\ \A d \in Device : base[d] # None => Stored(base[d], snaps, remote)
    /\ \A a \in Actor : RunOK(run[a], snaps, remote)

-----------------------------------------------------------------------------
(* Growth: snapshots and objects are only ever added.                      *)

Grows(sn, rem, sn2, rem2) ==
    /\ Len(sn) \in Nat /\ Len(sn2) \in Nat /\ Len(sn) <= Len(sn2)
    /\ \A i \in 1 .. Len(sn) : sn2[i] = sn[i]
    /\ rem \subseteq rem2

LEMMA StoredGrows ==
    ASSUME NEW sn, NEW rem, NEW sn2, NEW rem2, Grows(sn, rem, sn2, rem2),
           NEW i, Stored(i, sn, rem)
    PROVE  Stored(i, sn2, rem2) /\ sn2[i] = sn[i]
  BY DEF Grows, Stored

LEMMA KnownGrows ==
    ASSUME NEW sn, NEW rem, NEW sn2, NEW rem2, Grows(sn, rem, sn2, rem2),
           NEW s, Known(s, sn, rem)
    PROVE  Known(s, sn2, rem2)
  BY StoredGrows DEF Known

LEMMA RunGrows ==
    ASSUME NEW sn, NEW rem, NEW sn2, NEW rem2, Grows(sn, rem, sn2, rem2),
           NEW r, RunOK(r, sn, rem)
    PROVE  RunOK(r, sn2, rem2)
<1>1. r.phase \in Uploading => r.id \in 1 .. Len(sn2)
  BY DEF RunOK, Grows
<1>2. /\ r.phase \in {"putBundle", "putLatest"} => <<r.id, "manifest">> \in rem2
      /\ r.phase = "putLatest" => <<r.id, "bundle">> \in rem2
  BY DEF RunOK, Grows
<1>3. Known(r.st, sn2, rem2)
  BY KnownGrows DEF RunOK
<1>4. /\ r.rm # None => Stored(r.rm, sn2, rem2) /\ sn2[r.rm] = sn[r.rm]
      /\ r.got # None => Stored(r.got, sn2, rem2)
  BY StoredGrows DEF RunOK
<1>5. r.phase \in Finishing /\ r.kind \in {"push", "merge", "force"}
        => Stored(r.id, sn2, rem2)
  BY StoredGrows DEF RunOK
<1> QED BY <1>1, <1>2, <1>3, <1>4, <1>5 DEF RunOK

\* Sealing one more snapshot.
LEMMA SealedGrows ==
    ASSUME NEW sn \in Seq(Snapshot), NEW rem, NEW p \in Nat, NEW t \in Tree
    PROVE  LET sn2 == Append(sn, [parent |-> p, tree |-> t]) IN
           /\ sn2 \in Seq(Snapshot)
           /\ Len(sn2) = Len(sn) + 1
           /\ sn2[Len(sn) + 1] = [parent |-> p, tree |-> t]
           /\ Grows(sn, rem, sn2, rem)
<1> DEFINE s == [parent |-> p, tree |-> t]
<1>1. s \in Snapshot
  BY DEF Snapshot
<1> HIDE DEF s
<1>2. /\ Append(sn, s) \in Seq(Snapshot)
      /\ Len(Append(sn, s)) = Len(sn) + 1
      /\ Append(sn, s)[Len(sn) + 1] = s
      /\ Len(sn) \in Nat
      /\ \A i \in 1 .. Len(sn) : Append(sn, s)[i] = sn[i]
  BY <1>1
<1>3. Grows(sn, rem, Append(sn, s), rem)
  BY <1>2 DEF Grows
<1> QED BY <1>2, <1>3 DEF s

LEMMA LineageSealed ==
    ASSUME NEW sn \in Seq(Snapshot), NEW rem, LineageOK(sn, rem),
           NEW p \in Nat, NEW t \in Tree, p # None => Stored(p, sn, rem)
    PROVE  LineageOK(Append(sn, [parent |-> p, tree |-> t]), rem)
<1> DEFINE sn2 == Append(sn, [parent |-> p, tree |-> t])
<1>1. /\ Len(sn2) = Len(sn) + 1
      /\ sn2[Len(sn) + 1] = [parent |-> p, tree |-> t]
      /\ Grows(sn, rem, sn2, rem)
  BY SealedGrows
<1> HIDE DEF sn2
<1> SUFFICES ASSUME NEW i \in 1 .. Len(sn2)
             PROVE  /\ sn2[i].parent < i
                    /\ sn2[i].parent # None => Stored(sn2[i].parent, sn2, rem)
  BY DEF LineageOK, sn2
<1>2. CASE i \in 1 .. Len(sn)
  <2>1. sn2[i] = sn[i]
    BY <1>1, <1>2 DEF Grows
  <2> QED BY <2>1, <1>1, <1>2, StoredGrows DEF LineageOK
<1>3. CASE i = Len(sn) + 1
  <2>1. sn2[i].parent = p
    BY <1>1, <1>3
  <2>2. p < i
    BY <1>3 DEF Stored, None
  <2> QED BY <2>1, <2>2, <1>1, StoredGrows
<1> QED BY <1>1, <1>2, <1>3

LEMMA LineageUploads ==
    ASSUME NEW sn, NEW rem, NEW rem2, Len(sn) \in Nat, rem \subseteq rem2,
           LineageOK(sn, rem)
    PROVE  LineageOK(sn, rem2)
  BY DEF LineageOK, Stored

-----------------------------------------------------------------------------
(* The invariant holds initially and is preserved by every action.         *)

LEMMA EmptyTreeTyped == EmptyTree \in Tree
  BY DEF EmptyTree, Tree

LEMMA IdleRunTyped == DefaultState \in LocalState /\ IdleRun \in Run
<1>1. DefaultState \in LocalState
  BY DEF DefaultState, LocalState, None
<1> QED BY <1>1, EmptyTreeTyped DEF IdleRun, Run, Phase, Kind, None

LEMMA IdleRunOK == ASSUME NEW sn, NEW rem PROVE RunOK(IdleRun, sn, rem)
  BY DEF RunOK, IdleRun, DefaultState, Known, Uploading, Finishing, None

LEMMA InitInv == Init => IInv
<1> SUFFICES ASSUME Init PROVE IInv
  OBVIOUS
<1>1. TypeOK
  BY IdleRunTyped, EmptyTreeTyped DEF Init, TypeOK, None
<1>2. LineageOK(snaps, remote)
  BY DEF Init, LineageOK
<1>3. /\ latest = None
      /\ \A d \in Device : Known(state[d], snaps, remote) /\ base[d] = None
  BY DEF Init, Known, DefaultState
<1>4. \A a \in Actor : RunOK(run[a], snaps, remote)
  BY IdleRunOK DEF Init
<1> QED BY <1>1, <1>2, <1>3, <1>4 DEF IInv

\* What the other actors, and the devices, still know after a step.
LEMMA Carried ==
    ASSUME IInv, Grows(snaps, remote, snaps', remote')
    PROVE  /\ latest # None => Stored(latest, snaps', remote')
           /\ \A d \in Device : Known(state[d], snaps', remote')
           /\ \A d \in Device : base[d] # None => Stored(base[d], snaps', remote')
           /\ \A a \in Actor : RunOK(run[a], snaps', remote')
  BY StoredGrows, KnownGrows, RunGrows DEF IInv

LEMMA NoGrowth ==
    ASSUME TypeOK, UNCHANGED <<snaps, remote>>
    PROVE  Grows(snaps, remote, snaps', remote')
  BY DEF Grows, TypeOK

LEMMA UploadGrows ==
    ASSUME TypeOK, UNCHANGED snaps, remote \subseteq remote'
    PROVE  Grows(snaps, remote, snaps', remote')
  BY DEF Grows, TypeOK

LEMMA SavedTyped ==
    ASSUME NEW m \in [Key -> Nat], NEW now \in Nat
    PROVE  Saved(m, now) \in Tree
  BY DEF Saved, Tree, Row, Blank

LEMMA ValuesTyped ==
    ASSUME NEW t \in Tree
    PROVE  Values(t) \in [Key -> Nat]
  BY DEF Values, Tree, Row

LEMMA ImportedTyped ==
    ASSUME NEW t \in Tree, NEW u \in Tree
    PROVE  Imported(t, u) \in Tree
  BY DEF Imported

\* The steps of the users.
LEMMA StoreInv ==
    ASSUME IInv, NEW d \in Device, NEW m \in [Key -> Nat],
           clock' \in {clock, clock + 1}, edits' = edits + 1,
           Store(d, m, clock'),
           UNCHANGED <<state, base, remoteVars, run, syncing, faults>>
    PROVE  IInv'
<1> USE DEF remoteVars
<1>1. TypeOK'
  <2>1. clock' \in Nat /\ edits' \in Nat
    BY DEF IInv, TypeOK
  <2>2. mem' \in [Device -> [Key -> Nat]] /\ tree' \in [Device -> Tree]
    BY <2>1, SavedTyped DEF IInv, TypeOK, Store
  <2> QED BY <2>1, <2>2 DEF IInv, TypeOK
<1> QED BY <1>1 DEF IInv

LEMMA EditInv ==
    ASSUME IInv, NEW d \in Device, NEW k \in Key, Edit(d, k) \/ Delete(d, k)
    PROVE  IInv'
<1>1. ASSUME NEW v \in Nat PROVE [mem[d] EXCEPT ![k] = v] \in [Key -> Nat]
  BY DEF IInv, TypeOK
<1>2. edits + 1 \in Nat
  BY DEF IInv, TypeOK
<1>3. CASE Edit(d, k)
  BY <1>1, <1>2, <1>3, StoreInv DEF Edit
<1>4. CASE Delete(d, k)
  BY <1>1, <1>4, StoreInv DEF Delete
<1> QED BY <1>3, <1>4

\* A step that changes the run of one actor and nothing that is remembered.
LEMMA RunStep ==
    ASSUME IInv, NEW a \in Actor, NEW r \in Run,
           run' = [run EXCEPT ![a] = r],
           RunOK(r, snaps, remote),
           syncing' \in [Device -> BOOLEAN], faults' \in Nat,
           UNCHANGED <<localVars, remoteVars, clock, edits>>
    PROVE  IInv'
<1> USE DEF localVars, remoteVars
<1>1. TypeOK'
  BY DEF IInv, TypeOK
<1>2. \A b \in Actor : RunOK(run'[b], snaps, remote)
  BY DEF IInv, TypeOK
<1> QED BY <1>1, <1>2 DEF IInv

LEMMA ReleaseTyped ==
    ASSUME TypeOK, NEW a \in Actor, Release(a)
    PROVE  syncing' \in [Device -> BOOLEAN]
  BY DEF TypeOK, Release

LEMMA AbortInv ==
    ASSUME IInv, NEW a \in Actor, Abort(a), faults' \in Nat,
           UNCHANGED <<localVars, remoteVars, clock, edits>>
    PROVE  IInv'
<1>1. syncing' \in [Device -> BOOLEAN]
  BY ReleaseTyped DEF Abort, IInv
<1> QED BY <1>1, RunStep, IdleRunTyped, IdleRunOK DEF Abort

\* A step of the actor a that may add snapshots and objects, and that leaves
\* the state files, the baselines and the session stores alone.
LEMMA GrowStep ==
    ASSUME IInv, NEW a \in Actor, NEW r \in Run,
           run' = [run EXCEPT ![a] = r],
           Grows(snaps, remote, snaps', remote'),
           RunOK(r, snaps', remote'),
           LineageOK(snaps', remote'),
           snaps' \in Seq(Snapshot), tree' \in [Device -> Tree],
           remote' \subseteq (1 .. Len(snaps')) \X Files,
           latest' # None => Stored(latest', snaps', remote'),
           latest' \in 0 .. Len(snaps'),
           UNCHANGED <<mem, state, base, syncing, clock, edits>>, faults' \in Nat
    PROVE  IInv'
<1>1. TypeOK'
  BY DEF IInv, TypeOK
<1>2. \A b \in Actor : RunOK(run'[b], snaps', remote')
  <2> TAKE b \in Actor
  <2>1. b # a => run'[b] = run[b]
    BY DEF IInv, TypeOK
  <2>2. run'[a] = r
    BY DEF IInv, TypeOK
  <2> QED BY <2>1, <2>2, Carried
<1>3. /\ \A d \in Device : Known(state'[d], snaps', remote')
      /\ \A d \in Device : base'[d] # None => Stored(base'[d], snaps', remote')
  BY Carried
<1> QED BY <1>1, <1>2, <1>3 DEF IInv

-----------------------------------------------------------------------------
(* The start of a run.                                                     *)

LEMMA BeginInv ==
    ASSUME IInv, NEW a \in Actor,
           BeginEngineSync(a) \/ BeginPanelSync(a) \/ BeginRestore(a)
    PROVE  IInv'
<1>1. Home[a] \in Device
  BY ActorAssumption
<1>2. ASSUME NEW k \in {"none", "restore"}, NEW p \in {"manifest", "pull"},
             (k = "none") <=> (p = "manifest"), NEW c \in BOOLEAN
      PROVE  /\ Started(a, k, p, None, c) \in Run
             /\ RunOK(Started(a, k, p, None, c), snaps, remote)
  <2>2. Started(a, k, p, None, c) \in Run
    BY <1>1 DEF IInv, TypeOK, Run, Phase, Kind, None, Started
  <2>3. Known(state[Home[a]], snaps, remote)
    BY <1>1 DEF IInv
  <2> QED BY <2>2, <2>3, <1>2 DEF RunOK, None, Uploading, Finishing, Started
<1>3. CASE BeginEngineSync(a)
  <2>1. syncing' \in [Device -> BOOLEAN]
    BY <1>1, <1>3 DEF BeginEngineSync, IInv, TypeOK
  <2>2. faults' \in Nat
    BY <1>3 DEF BeginEngineSync, IInv, TypeOK, envVars
  <2>3. run' = [run EXCEPT ![a] = Started(a, "none", "manifest", None, FALSE)]
    BY <1>3 DEF BeginEngineSync, Start
  <2>4. UNCHANGED <<localVars, remoteVars, clock, edits>>
    BY <1>3 DEF BeginEngineSync, envVars
  <2> QED BY <1>2, <2>1, <2>2, <2>3, <2>4, RunStep
<1>4. CASE BeginPanelSync(a)
  <2>1. syncing' \in [Device -> BOOLEAN] /\ faults' \in Nat
    BY <1>4 DEF BeginPanelSync, IInv, TypeOK, envVars
  <2>2. run' = [run EXCEPT ![a] = Started(a, "none", "manifest", None, FALSE)]
    BY <1>4 DEF BeginPanelSync, Start
  <2>3. UNCHANGED <<localVars, remoteVars, clock, edits>>
    BY <1>4 DEF BeginPanelSync, envVars
  <2> QED BY <1>2, <2>1, <2>2, <2>3, RunStep
<1>5. CASE BeginRestore(a)
  <2>1. PICK c \in BOOLEAN : Backup(c) /\ Start(a, "restore", "pull", None, c)
    BY <1>5 DEF BeginRestore
  <2>2. syncing' \in [Device -> BOOLEAN] /\ faults' \in Nat
    BY <1>5, <2>1 DEF BeginRestore, Backup, IInv, TypeOK
  <2>3. run' = [run EXCEPT ![a] = Started(a, "restore", "pull", None, c)]
    BY <2>1 DEF Start
  <2>4. UNCHANGED <<localVars, remoteVars, clock, edits>>
    BY <1>5 DEF BeginRestore
  <2> QED BY <1>2, <2>2, <2>3, <2>4, RunStep
<1> QED BY <1>3, <1>4, <1>5

\* Every snapshot number is a natural number.
LEMMA StoredNat ==
    ASSUME TypeOK, NEW i, Stored(i, snaps, remote)
    PROVE  i \in Nat /\ i # None /\ snaps[i] \in Snapshot
  BY DEF TypeOK, Stored, None

LEMMA HeadStored ==
    ASSUME IInv, RemoteHead # None
    PROVE  RemoteHead \in Nat /\ Stored(RemoteHead, snaps, remote)
  BY StoredNat DEF RemoteHead, IInv

LEMMA HeadTyped == ASSUME IInv PROVE RemoteHead \in Nat
  BY HeadStored DEF None

LEMMA RunTyped ==
    ASSUME IInv, NEW a \in Actor
    PROVE  /\ run[a] \in Run
           /\ RunOK(run[a], snaps, remote)
           /\ Home[a] \in Device
  BY ActorAssumption DEF IInv, TypeOK

\* force_push_to_cloud seals a snapshot without a parent.
LEMMA BeginForcePushInv ==
    ASSUME IInv, NEW a \in Actor, BeginForcePush(a)
    PROVE  IInv'
<1> DEFINE t == tree[Home[a]]
           r == Started(a, "force", "putManifest", Len(snaps) + 1, FALSE)
<1>1. t \in Tree /\ Home[a] \in Device /\ None \in Nat
  BY RunTyped DEF IInv, TypeOK, None
<1>2. snaps \in Seq(Snapshot) /\ LineageOK(snaps, remote)
  BY DEF IInv, TypeOK
<1>3. /\ snaps' \in Seq(Snapshot)
      /\ Len(snaps') = Len(snaps) + 1
      /\ remote' = remote
      /\ Grows(snaps, remote, snaps', remote')
  BY <1>1, <1>2, SealedGrows DEF BeginForcePush, Sealed
<1>4. LineageOK(snaps', remote')
  BY <1>1, <1>2, <1>3, LineageSealed DEF BeginForcePush, Sealed
<1>5. r \in Run
  BY <1>1, <1>2 DEF IInv, TypeOK, Run, Started, Phase, Kind, None
<1>6. RunOK(r, snaps', remote')
  <2>1. Known(state[Home[a]], snaps', remote')
    BY <1>1, <1>3, Carried
  <2> QED BY <2>1, <1>2, <1>3 DEF RunOK, Started, Uploading, Finishing, None
<1>7. /\ latest' = latest
      /\ latest' # None => Stored(latest', snaps', remote')
      /\ latest' \in 0 .. Len(snaps')
  BY <1>3, <1>2, Carried DEF BeginForcePush, IInv, TypeOK
<1>8. /\ run' = [run EXCEPT ![a] = r]
      /\ tree' \in [Device -> Tree] /\ faults' \in Nat
      /\ remote' \subseteq (1 .. Len(snaps')) \X Files
      /\ UNCHANGED <<mem, state, base, syncing, clock, edits>>
  BY <1>2, <1>3 DEF BeginForcePush, Start, IInv, TypeOK, localVars, envVars
<1> HIDE DEF r, t
<1> QED BY <1>3, <1>4, <1>5, <1>6, <1>7, <1>8, GrowStep

-----------------------------------------------------------------------------
(* The decision.                                                           *)

\* The three outcomes that seal nothing.
LEMMA DecidedOK ==
    ASSUME IInv, NEW a \in Actor, run[a].phase = "manifest",
           NEW c \in BOOLEAN,
           NEW k \in {"upToDate", "pull", "merge"}, Decision(a) = k
    PROVE  LET r == Decided(run[a], k, IF k = "upToDate" THEN "save" ELSE "pull", None, c)
           IN  r \in Run /\ RunOK(r, snaps, remote)
<1> DEFINE p == IF k = "upToDate" THEN "save" ELSE "pull"
           r == Decided(run[a], k, p, None, c)
<1>1. r \in Run
  BY RunTyped, HeadTyped DEF Decided, Run, Phase, Kind, None
<1>2. /\ Known(run[a].st, snaps, remote)
      /\ RemoteHead # None => Stored(RemoteHead, snaps, remote)
  BY RunTyped, HeadStored DEF RunOK
<1>3. k \in {"pull", "merge"} => RemoteHead # None
  BY DEF Decision, Decide
<1>4. k = "upToDate" /\ RemoteHead # None => run[a].local = snaps[RemoteHead].tree
  BY <1>2 DEF Decision, Decide, Changed, Known
<1>5. RunOK(r, snaps, remote)
  BY <1>2, <1>3, <1>4 DEF RunOK, Decided, Uploading, Finishing, None
<1> QED BY <1>1, <1>5

LEMMA DecideInv ==
    ASSUME IInv, NEW a \in Actor,
           DecideUpToDate(a) \/ DecidePull(a) \/ DecideMerge(a)
    PROVE  IInv'
<1>1. CASE DecideUpToDate(a)
  <2>1. /\ run[a].phase = "manifest" /\ Decision(a) = "upToDate"
        /\ run' = [run EXCEPT ![a] = Decided(run[a], "upToDate", "save", None, FALSE)]
        /\ syncing' \in [Device -> BOOLEAN] /\ faults' \in Nat
        /\ UNCHANGED <<localVars, remoteVars, clock, edits>>
    BY <1>1 DEF DecideUpToDate, Take, IInv, TypeOK, envVars
  <2> QED BY <2>1, DecidedOK, RunStep
<1>2. CASE DecidePull(a)
  <2>1. /\ run[a].phase = "manifest" /\ Decision(a) = "pull"
        /\ run' = [run EXCEPT ![a] = Decided(run[a], "pull", "pull", None, FALSE)]
        /\ syncing' \in [Device -> BOOLEAN] /\ faults' \in Nat
        /\ UNCHANGED <<localVars, remoteVars, clock, edits>>
    BY <1>2 DEF DecidePull, Take, IInv, TypeOK, envVars
  <2> QED BY <2>1, DecidedOK, RunStep
<1>3. CASE DecideMerge(a)
  <2>1. PICK c \in BOOLEAN : Backup(c) /\ Take(a, "merge", "pull", None, c)
    BY <1>3 DEF DecideMerge
  <2>2. /\ run[a].phase = "manifest" /\ Decision(a) = "merge"
        /\ run' = [run EXCEPT ![a] = Decided(run[a], "merge", "pull", None, c)]
        /\ syncing' \in [Device -> BOOLEAN]
        /\ UNCHANGED <<localVars, remoteVars, clock, edits>>
    BY <1>3, <2>1 DEF DecideMerge, Take, IInv, TypeOK
  <2>3. faults' \in Nat
    BY <2>1 DEF Backup, IInv, TypeOK
  <2> QED BY <2>2, <2>3, DecidedOK, RunStep
<1> QED BY <1>1, <1>2, <1>3

\* The parent of a pushed snapshot is the one the state file names.
LEMMA DecidePushInv ==
    ASSUME IInv, NEW a \in Actor, DecidePush(a)
    PROVE  IInv'
<1> DEFINE p == run[a].st.pushed
           t == run[a].local
           r == Decided(run[a], "push", "putManifest", Len(snaps) + 1, FALSE)
<1>1. /\ t \in Tree /\ p \in Nat
      /\ p # None => Stored(p, snaps, remote)
  BY RunTyped DEF Run, LocalState, RunOK, Known
<1>2. snaps \in Seq(Snapshot) /\ LineageOK(snaps, remote)
  BY DEF IInv, TypeOK
<1>3. /\ snaps' \in Seq(Snapshot)
      /\ Len(snaps') = Len(snaps) + 1
      /\ remote' = remote
      /\ Grows(snaps, remote, snaps', remote')
  BY <1>1, <1>2, SealedGrows DEF DecidePush, Sealed
<1>4. LineageOK(snaps', remote')
  BY <1>1, <1>2, <1>3, LineageSealed DEF DecidePush, Sealed
<1>5. r \in Run
  BY RunTyped, HeadTyped, <1>2 DEF Run, Decided, Phase, Kind, None
<1>6. RunOK(r, snaps', remote')
  <2>1. RunOK(run[a], snaps', remote')
    BY <1>3, Carried
  <2>2. RemoteHead # None => Stored(RemoteHead, snaps', remote')
    BY <1>3, HeadStored, StoredGrows
  <2> QED BY <2>1, <2>2, <1>2, <1>3 DEF RunOK, Decided, Uploading, Finishing, None
<1>7. /\ latest' # None => Stored(latest', snaps', remote')
      /\ latest' \in 0 .. Len(snaps')
  BY <1>3, <1>2, Carried DEF DecidePush, IInv, TypeOK
<1>8. /\ run' = [run EXCEPT ![a] = r]
      /\ tree' \in [Device -> Tree] /\ faults' \in Nat
      /\ remote' \subseteq (1 .. Len(snaps')) \X Files
      /\ UNCHANGED <<mem, state, base, syncing, clock, edits>>
  BY <1>2, <1>3 DEF DecidePush, Take, IInv, TypeOK, localVars, envVars
<1> HIDE DEF r, t, p
<1> QED BY <1>3, <1>4, <1>5, <1>6, <1>7, <1>8, GrowStep

-----------------------------------------------------------------------------
(* pull and import.                                                        *)

LEMMA PullInv ==
    ASSUME IInv, NEW a \in Actor, PullLatest(a)
    PROVE  IInv'
<1> DEFINE r == Advanced(run[a], "import", latest, run[a].id)
<1>1. Stored(latest, snaps, remote) /\ latest \in Nat
  BY StoredNat DEF PullLatest, IInv
<1>2. r \in Run
  BY <1>1, RunTyped DEF Run, Advanced, Phase
<1>3. RunOK(r, snaps, remote)
  BY <1>1, RunTyped DEF RunOK, Advanced, PullLatest, Uploading, Finishing
<1>4. /\ run' = [run EXCEPT ![a] = r]
      /\ syncing' \in [Device -> BOOLEAN] /\ faults' \in Nat
      /\ UNCHANGED <<localVars, remoteVars, clock, edits>>
  BY DEF PullLatest, IInv, TypeOK, envVars
<1> HIDE DEF r
<1> QED BY <1>2, <1>3, <1>4, RunStep

\* The table of one device is replaced by a tree.
LEMMA TreeTyped ==
    ASSUME TypeOK, NEW d \in Device, NEW t \in Tree,
           tree' = [tree EXCEPT ![d] = Imported(@, t)]
    PROVE  tree' \in [Device -> Tree]
  BY ImportedTyped DEF TypeOK

LEMMA ImportPulledInv ==
    ASSUME IInv, NEW a \in Actor, ImportPulled(a)
    PROVE  IInv'
<1> DEFINE r == Advanced(run[a], "baseline", run[a].got, run[a].id)
<1>1. Stored(run[a].got, snaps, remote) /\ snaps[run[a].got] \in Snapshot
  BY RunTyped, StoredNat DEF RunOK, ImportPulled, IInv
<1>2. tree' \in [Device -> Tree]
  BY <1>1, RunTyped, TreeTyped DEF ImportPulled, IInv, Snapshot
<1>3. r \in Run
  BY RunTyped DEF Run, Advanced, Phase
<1>4. Grows(snaps, remote, snaps', remote')
  BY NoGrowth DEF ImportPulled, IInv, remoteVars
<1>5. RunOK(r, snaps', remote')
  BY RunTyped DEF RunOK, Advanced, ImportPulled, Uploading, Finishing, remoteVars
<1>6. /\ run' = [run EXCEPT ![a] = r]
      /\ snaps' = snaps /\ remote' = remote /\ latest' = latest
      /\ faults' \in Nat
      /\ UNCHANGED <<mem, state, base, syncing, clock, edits>>
  BY DEF ImportPulled, Goto, remoteVars, envVars, IInv, TypeOK
<1>7. /\ LineageOK(snaps', remote')
      /\ snaps' \in Seq(Snapshot)
      /\ remote' \subseteq (1 .. Len(snaps')) \X Files
      /\ latest' # None => Stored(latest', snaps', remote')
      /\ latest' \in 0 .. Len(snaps')
  BY <1>6 DEF IInv, TypeOK
<1> HIDE DEF r
<1> QED BY <1>2, <1>3, <1>4, <1>5, <1>6, <1>7, GrowStep

LEMMA MergedTyped ==
    ASSUME IInv, NEW a \in Actor, ImportMerged(a)
    PROVE  MergedTree(a) \in Tree
<1>1. run[a].got \in Nat /\ Stored(run[a].got, snaps, remote)
  BY RunTyped DEF RunOK, ImportMerged, Run
<1>2. BaseTree(Home[a]) \in Tree
  <2>1. CASE base[Home[a]] = None
    BY <2>1, EmptyTreeTyped DEF BaseTree
  <2>2. CASE base[Home[a]] # None
    <3>1. Stored(base[Home[a]], snaps, remote)
      BY <2>2, RunTyped DEF IInv
    <3> QED BY <2>2, <3>1, StoredNat DEF BaseTree, IInv, Snapshot
  <2> QED BY <2>1, <2>2
<1>3. MergedTree(a) \in Tree
  <2>1. run[a].local \in Tree /\ snaps[run[a].got].tree \in Tree
    BY <1>1, RunTyped, StoredNat DEF Run, Snapshot, IInv
  <2> QED BY <1>2, <2>1, RunTyped, MergeTyped DEF MergedTree
<1> QED BY <1>3

\* The merge result is a tree, and its snapshot descends from the remote one.
LEMMA ImportMergedInv ==
    ASSUME IInv, NEW a \in Actor, ImportMerged(a)
    PROVE  IInv'
<1> DEFINE p == run[a].rm
           t == MergedTree(a)
           r == Advanced(run[a], "putManifest", run[a].got, Len(snaps) + 1)
<1>3. t \in Tree
  BY MergedTyped
<1>4. p \in Nat /\ (p # None => Stored(p, snaps, remote))
  BY RunTyped DEF Run, RunOK
<1>5. snaps \in Seq(Snapshot) /\ LineageOK(snaps, remote)
  BY DEF IInv, TypeOK
<1>6. /\ snaps' \in Seq(Snapshot)
      /\ Len(snaps') = Len(snaps) + 1
      /\ remote' = remote
      /\ Grows(snaps, remote, snaps', remote')
  BY <1>3, <1>4, <1>5, SealedGrows DEF ImportMerged, Sealed
<1>7. LineageOK(snaps', remote')
  BY <1>3, <1>4, <1>5, <1>6, LineageSealed DEF ImportMerged, Sealed
<1>8. r \in Run
  BY RunTyped, <1>5 DEF Run, Advanced, Phase
<1>9. RunOK(r, snaps', remote')
  <2>1. RunOK(run[a], snaps', remote')
    BY <1>6, Carried
  <2> QED BY <2>1, <1>5, <1>6 DEF RunOK, Advanced, ImportMerged, Uploading, Finishing
<1>10. /\ latest' # None => Stored(latest', snaps', remote')
       /\ latest' \in 0 .. Len(snaps')
  BY <1>6, <1>5, Carried DEF ImportMerged, IInv, TypeOK
<1>11. tree' \in [Device -> Tree]
  BY <1>3, RunTyped, TreeTyped DEF ImportMerged, IInv
<1>12. /\ run' = [run EXCEPT ![a] = r]
       /\ faults' \in Nat
       /\ remote' \subseteq (1 .. Len(snaps')) \X Files
       /\ UNCHANGED <<mem, state, base, syncing, clock, edits>>
  BY <1>5, <1>6 DEF ImportMerged, IInv, TypeOK, envVars
<1> HIDE DEF r, t, p
<1> QED BY <1>6, <1>7, <1>8, <1>9, <1>10, <1>11, <1>12, GrowStep

-----------------------------------------------------------------------------
(* push.                                                                   *)

\* An upload of one file, after which the actor's run is r.
LEMMA PutInv ==
    ASSUME IInv, NEW a \in Actor, NEW f \in Files, NEW r \in Run,
           run[a].phase \in Uploading,
           remote' = remote \cup {<<run[a].id, f>>},
           run' = [run EXCEPT ![a] = r],
           RunOK(r, snaps, remote'),
           syncing' \in [Device -> BOOLEAN], faults' \in Nat,
           UNCHANGED <<localVars, snaps, latest, clock, edits>>
    PROVE  IInv'
<1> USE DEF localVars
<1>1. Grows(snaps, remote, snaps', remote')
  BY UploadGrows DEF IInv
<1>2. run[a].id \in 1 .. Len(snaps)
  BY RunTyped DEF RunOK
<1>3. TypeOK'
  BY <1>2 DEF IInv, TypeOK
<1>4. LineageOK(snaps', remote')
  <2>1. Len(snaps) \in Nat /\ LineageOK(snaps, remote) /\ remote \subseteq remote'
    BY DEF IInv, TypeOK
  <2> QED BY <2>1, LineageUploads
<1>5. \A b \in Actor : RunOK(run'[b], snaps', remote')
  <2> TAKE b \in Actor
  <2>1. b # a => run'[b] = run[b]
    BY DEF IInv, TypeOK
  <2>2. run'[a] = r
    BY DEF IInv, TypeOK
  <2> QED BY <1>1, <2>1, <2>2, Carried
<1>6. /\ \A d \in Device : Known(state'[d], snaps', remote')
      /\ \A d \in Device : base'[d] # None => Stored(base'[d], snaps', remote')
      /\ latest' # None => Stored(latest', snaps', remote')
  BY <1>1, Carried
<1> QED BY <1>3, <1>4, <1>5, <1>6 DEF IInv

\* latest.json is moved to the snapshot whose two files were uploaded.
LEMMA PutLatestInv ==
    ASSUME IInv, NEW a \in Actor, NEW r \in Run,
           run[a].phase = "putLatest",
           latest' = run[a].id,
           run' = [run EXCEPT ![a] = r],
           RunOK(r, snaps, remote),
           syncing' \in [Device -> BOOLEAN], faults' \in Nat,
           UNCHANGED <<localVars, snaps, remote, clock, edits>>
    PROVE  IInv'
<1> USE DEF localVars
<1>1. Stored(run[a].id, snaps, remote) /\ run[a].id \in 0 .. Len(snaps)
  <2>1. /\ run[a].id \in 1 .. Len(snaps)
        /\ <<run[a].id, "manifest">> \in remote
        /\ <<run[a].id, "bundle">> \in remote
    BY RunTyped DEF RunOK, Uploading
  <2>2. Stored(run[a].id, snaps, remote)
    BY <2>1 DEF Stored, Files
  <2> QED BY <2>1, <2>2
<1>2. TypeOK'
  BY <1>1 DEF IInv, TypeOK
<1>3. \A b \in Actor : RunOK(run'[b], snaps', remote')
  BY DEF IInv, TypeOK
<1> QED BY <1>1, <1>2, <1>3 DEF IInv

LEMMA UploadInv ==
    ASSUME IInv, NEW a \in Actor, PutManifest(a) \/ PutBundle(a) \/ PutLatest(a)
    PROVE  IInv'
<1> DEFINE r(p) == Advanced(run[a], p, run[a].got, run[a].id)
<1>1. ASSUME NEW p \in Phase PROVE r(p) \in Run
  BY RunTyped DEF Run, Advanced
<1>2. syncing' \in [Device -> BOOLEAN] /\ faults' \in Nat
  BY DEF PutManifest, PutBundle, PutLatest, IInv, TypeOK, envVars
<1>3. CASE PutManifest(a)
  <2>1. /\ run[a].phase = "putManifest"
        /\ remote' = remote \cup {<<run[a].id, "manifest">>}
        /\ run' = [run EXCEPT ![a] = r("putBundle")]
        /\ UNCHANGED <<localVars, snaps, latest, clock, edits>>
    BY <1>3 DEF PutManifest, Goto, envVars
  <2>2. RunOK(run[a], snaps, remote')
    BY <2>1, UploadGrows, RunTyped, RunGrows DEF IInv
  <2>3. RunOK(r("putBundle"), snaps, remote')
    BY <2>1, <2>2 DEF RunOK, Advanced, Uploading, Finishing
  <2>4. "putBundle" \in Phase /\ "manifest" \in Files
    BY DEF Phase, Files
  <2> HIDE DEF r
  <2> QED BY <1>1, <1>2, <2>1, <2>3, <2>4, PutInv DEF Uploading
<1>4. CASE PutBundle(a)
  <2>1. /\ run[a].phase = "putBundle"
        /\ remote' = remote \cup {<<run[a].id, "bundle">>}
        /\ run' = [run EXCEPT ![a] = r("putLatest")]
        /\ UNCHANGED <<localVars, snaps, latest, clock, edits>>
    BY <1>4 DEF PutBundle, Goto, envVars
  <2>2. RunOK(run[a], snaps, remote')
    BY <2>1, UploadGrows, RunTyped, RunGrows DEF IInv
  <2>3. RunOK(r("putLatest"), snaps, remote')
    BY <2>1, <2>2 DEF RunOK, Advanced, Uploading, Finishing
  <2>4. "putLatest" \in Phase /\ "bundle" \in Files
    BY DEF Phase, Files
  <2> HIDE DEF r
  <2> QED BY <1>1, <1>2, <2>1, <2>3, <2>4, PutInv DEF Uploading
<1>5. CASE PutLatest(a)
  <2> DEFINE p == IF run[a].kind = "force" THEN "save" ELSE "baseline"
  <2>1. /\ run[a].phase = "putLatest"
        /\ latest' = run[a].id
        /\ run' = [run EXCEPT ![a] = r(p)]
        /\ UNCHANGED <<localVars, snaps, remote, clock, edits>>
    BY <1>5 DEF PutLatest, Goto, envVars
  <2>2. /\ run[a].id \in 1 .. Len(snaps)
        /\ run[a].kind \in {"push", "merge", "force"}
        /\ <<run[a].id, "manifest">> \in remote
        /\ <<run[a].id, "bundle">> \in remote
    BY <2>1, RunTyped DEF RunOK, Uploading
  <2>3. Stored(run[a].id, snaps, remote)
    BY <2>2 DEF Stored, Files
  <2>4. RunOK(r(p), snaps, remote)
    BY <2>2, <2>3, RunTyped DEF RunOK, Advanced, Uploading, Finishing
  <2>5. p \in Phase
    BY DEF Phase
  <2> HIDE DEF r, p
  <2> QED BY <1>1, <1>2, <2>1, <2>4, <2>5, PutLatestInv
<1> QED BY <1>3, <1>4, <1>5

LEMMA LoseAnswerInv ==
    ASSUME IInv, NEW a \in Actor, LoseAnswer(a)
    PROVE  IInv'
<1>1. syncing' \in [Device -> BOOLEAN] /\ faults' \in Nat
  BY ReleaseTyped DEF LoseAnswer, Abort, IInv, TypeOK
<1>2. /\ run' = [run EXCEPT ![a] = IdleRun]
      /\ UNCHANGED <<localVars, snaps, clock, edits>>
  BY DEF LoseAnswer, Abort
<1>3. CASE /\ run[a].phase = "putLatest"
           /\ latest' = run[a].id
           /\ UNCHANGED remote
  BY <1>1, <1>2, <1>3, IdleRunTyped, IdleRunOK, PutLatestInv
<1>4. ASSUME NEW f \in Files,
             run[a].phase \in Uploading,
             remote' = remote \cup {<<run[a].id, f>>},
             UNCHANGED latest
      PROVE  IInv'
  BY <1>1, <1>2, <1>4, IdleRunTyped, IdleRunOK, PutInv
<1> QED BY <1>3, <1>4 DEF LoseAnswer, Uploading, Files

-----------------------------------------------------------------------------
(* The end of a run.                                                       *)

LEMMA BaselineOK ==
    ASSUME IInv, NEW a \in Actor, run[a].phase = "baseline"
    PROVE  Stored(Baseline(run[a]), snaps, remote) /\ Baseline(run[a]) \in Nat
  BY RunTyped DEF RunOK, Run, Kind, Baseline, Finishing

\* One baseline file is rewritten, to a stored snapshot or to none.
LEMMA BaseWritten ==
    ASSUME IInv, NEW d \in Device, NEW i \in Nat,
           i # None => Stored(i, snaps, remote),
           base' = [base EXCEPT ![d] = i]
    PROVE  /\ base' \in [Device -> Nat]
           /\ \A e \in Device : base'[e] # None => Stored(base'[e], snaps, remote)
<1>1. base \in [Device -> Nat]
  BY DEF IInv, TypeOK
<1>2. base' \in [Device -> Nat]
  BY <1>1
<1>3. ASSUME NEW e \in Device, base'[e] # None
      PROVE  Stored(base'[e], snaps, remote)
  <2>1. CASE e = d
    BY <1>1, <1>3, <2>1
  <2>2. CASE e # d
    <3>1. base'[e] = base[e]
      BY <1>1, <2>2
    <3> QED BY <1>3, <3>1 DEF IInv
  <2> QED BY <2>1, <2>2
<1> QED BY <1>2, <1>3

LEMMA WriteBaselineInv ==
    ASSUME IInv, NEW a \in Actor, WriteBaseline(a)
    PROVE  IInv'
<1> DEFINE r == Advanced(run[a], "save", run[a].got, run[a].id)
<1>1. Stored(Baseline(run[a]), snaps, remote) /\ Baseline(run[a]) \in Nat
  BY BaselineOK DEF WriteBaseline
<1>2. r \in Run /\ RunOK(r, snaps, remote)
  BY RunTyped DEF RunOK, Run, Phase, Advanced, WriteBaseline, Finishing, Uploading
<1>3. \/ base' = base
      \/ base' = [base EXCEPT ![Home[a]] = Baseline(run[a])]
      \/ base' = [base EXCEPT ![Home[a]] = None]
  BY DEF WriteBaseline
<1>4. /\ base' \in [Device -> Nat]
      /\ \A d \in Device : base'[d] # None => Stored(base'[d], snaps, remote)
  <2>1. base \in [Device -> Nat] /\ Home[a] \in Device /\ None \in Nat
    BY RunTyped DEF IInv, TypeOK, None
  <2>2. CASE base' = base
    BY <2>1, <2>2 DEF IInv
  <2>3. CASE base' = [base EXCEPT ![Home[a]] = Baseline(run[a])]
    BY <1>1, <2>1, <2>3, BaseWritten
  <2>4. CASE base' = [base EXCEPT ![Home[a]] = None]
    BY <2>1, <2>4, BaseWritten
  <2> QED BY <1>3, <2>2, <2>3, <2>4
<1>5. faults' \in Nat
  BY DEF WriteBaseline, IInv, TypeOK
<1>6. run' = [run EXCEPT ![a] = r]
  BY DEF WriteBaseline, Goto
<1>7. UNCHANGED <<mem, tree, state, snaps, remote, latest, syncing, clock, edits>>
  BY DEF WriteBaseline, remoteVars
<1> HIDE DEF r
<1>8. TypeOK'
  BY <1>2, <1>4, <1>5, <1>6, <1>7 DEF IInv, TypeOK
<1>9. \A b \in Actor : RunOK(run'[b], snaps, remote)
  BY <1>2, <1>6 DEF IInv, TypeOK
<1> QED BY <1>4, <1>7, <1>8, <1>9 DEF IInv

\* What a run in the phase "save" is about to record.
LEMMA NextStateOK ==
    ASSUME IInv, NEW a \in Actor, run[a].phase = "save"
    PROVE  /\ NextState(run[a]) \in LocalState
           /\ Known(NextState(run[a]), snaps, remote)
<1> DEFINE r == run[a]
<1>1. r \in Run /\ RunOK(r, snaps, remote)
  BY RunTyped
<1> HIDE DEF r
<1>2. r.kind # "none" /\ r.phase \in Finishing
  BY <1>1 DEF RunOK, Finishing, r
<1>3. CASE r.kind = "upToDate"
  BY <1>1, <1>3 DEF NextState, RunOK, Run, r
<1>4. CASE r.kind # "upToDate"
  <2>1. Stored(Recorded(r), snaps, remote)
    BY <1>1, <1>2, <1>4 DEF Recorded, RunOK, Run, Kind
  <2>2. Recorded(r) \in Nat /\ Recorded(r) # None /\ snaps[Recorded(r)] \in Snapshot
    BY <2>1, StoredNat DEF IInv
  <2>3. NextState(r) = [pushed |-> Recorded(r), hash |-> snaps[Recorded(r)].tree]
    BY <1>4 DEF NextState
  <2> HIDE DEF NextState
  <2>4. NextState(r) \in LocalState
    BY <2>2, <2>3 DEF LocalState, Snapshot
  <2>5. Known(NextState(r), snaps, remote)
    BY <2>1, <2>2, <2>3 DEF Known
  <2> QED BY <2>4, <2>5 DEF r
<1> QED BY <1>3, <1>4

LEMMA SaveInv ==
    ASSUME IInv, NEW a \in Actor, Save(a)
    PROVE  IInv'
<1> DEFINE r == IF Downloaded(run[a])
                THEN Advanced(run[a], "reload", run[a].got, run[a].id) ELSE IdleRun
<1>1. r \in Run /\ RunOK(r, snaps, remote)
  <2>1. CASE Downloaded(run[a])
    BY <2>1, RunTyped
       DEF RunOK, Run, Phase, Advanced, Finishing, Uploading, Save, Downloaded
  <2>2. CASE ~Downloaded(run[a])
    BY <2>2, IdleRunTyped, IdleRunOK
  <2> QED BY <2>1, <2>2
<1>2. run' = [run EXCEPT ![a] = r]
  BY DEF Save, Goto
<1>3. syncing' \in [Device -> BOOLEAN]
  BY ReleaseTyped DEF Save, IInv
<1>4. UNCHANGED <<mem, tree, base, snaps, remote, latest, clock, edits, faults>>
  BY DEF Save, remoteVars, envVars
<1>5. /\ state' = [state EXCEPT ![Home[a]] = NextState(run[a])]
      /\ run[a].phase = "save"
  BY DEF Save
<1> HIDE DEF r
<1>6. /\ state' \in [Device -> LocalState]
      /\ \A d \in Device : Known(state'[d], snaps, remote)
  BY <1>5, NextStateOK DEF IInv, TypeOK
<1>7. TypeOK'
  BY <1>1, <1>2, <1>3, <1>4, <1>6 DEF IInv, TypeOK
<1>8. \A b \in Actor : RunOK(run'[b], snaps, remote)
  BY <1>1, <1>2 DEF IInv, TypeOK
<1> QED BY <1>4, <1>6, <1>7, <1>8 DEF IInv

LEMMA ReloadInv ==
    ASSUME IInv, NEW a \in Actor, Reload(a)
    PROVE  IInv'
<1>1. mem' \in [Device -> [Key -> Nat]]
  BY RunTyped, ValuesTyped DEF Reload, IInv, TypeOK
<1>2. /\ run' = [run EXCEPT ![a] = IdleRun]
      /\ UNCHANGED <<tree, state, base, snaps, remote, latest, syncing, clock, edits, faults>>
  BY DEF Reload, remoteVars, envVars
<1>3. TypeOK'
  BY <1>1, <1>2, IdleRunTyped DEF IInv, TypeOK
<1>4. \A b \in Actor : RunOK(run'[b], snaps, remote)
  BY <1>2, IdleRunOK DEF IInv, TypeOK
<1> QED BY <1>2, <1>3, <1>4 DEF IInv

LEMMA EndInv ==
    ASSUME IInv, NEW a \in Actor,
           SkipReload(a) \/ Refused(a) \/ PullNothing(a)
    PROVE  IInv'
<1>1. CASE SkipReload(a)
  <2>1. /\ run' = [run EXCEPT ![a] = IdleRun]
        /\ syncing' \in [Device -> BOOLEAN] /\ faults' \in Nat
        /\ UNCHANGED <<localVars, remoteVars, clock, edits>>
    BY <1>1 DEF SkipReload, IInv, TypeOK, envVars
  <2> QED BY <2>1, IdleRunTyped, IdleRunOK, RunStep
<1>2. CASE Refused(a) \/ PullNothing(a)
  <2>1. Abort(a) /\ UNCHANGED <<localVars, remoteVars, clock, edits>>
    BY <1>2 DEF Refused, PullNothing, envVars
  <2>2. faults' \in Nat
    BY <1>2 DEF Refused, PullNothing, envVars, IInv, TypeOK
  <2> QED BY <2>1, <2>2, AbortInv
<1> QED BY <1>1, <1>2

\* An error ends the run; the state file may be gone.
LEMMA FailInv ==
    ASSUME IInv, NEW a \in Actor, Fail(a)
    PROVE  IInv'
<1>1. syncing' \in [Device -> BOOLEAN] /\ faults' \in Nat
  BY ReleaseTyped DEF Fail, Abort, IInv, TypeOK
<1>2. /\ run' = [run EXCEPT ![a] = IdleRun]
      /\ UNCHANGED <<mem, tree, base, snaps, remote, latest, clock, edits>>
  BY DEF Fail, Abort, remoteVars
<1>3. state' = state \/ state' = [state EXCEPT ![Home[a]] = DefaultState]
  BY DEF Fail
<1>4. /\ state' \in [Device -> LocalState]
      /\ \A d \in Device : Known(state'[d], snaps, remote)
  <2>1. Known(DefaultState, snaps, remote)
    BY DEF Known, DefaultState
  <2> QED BY <1>3, <2>1, IdleRunTyped DEF IInv, TypeOK
<1>5. TypeOK'
  BY <1>1, <1>2, <1>4, IdleRunTyped DEF IInv, TypeOK
<1>6. \A b \in Actor : RunOK(run'[b], snaps, remote)
  BY <1>2, IdleRunOK DEF IInv, TypeOK
<1> QED BY <1>2, <1>4, <1>5, <1>6 DEF IInv

\* A restart: the runs of the device are gone, its files may be torn.
LEMMA CrashInv ==
    ASSUME IInv, NEW d \in Device, Crash(d)
    PROVE  IInv'
<1>1. mem' \in [Device -> [Key -> Nat]]
  BY ValuesTyped DEF Crash, IInv, TypeOK
<1>2. run' \in [Actor -> Run] /\ \A b \in Actor : RunOK(run'[b], snaps, remote)
  BY IdleRunTyped, IdleRunOK DEF Crash, IInv, TypeOK
<1>3. syncing' \in [Device -> BOOLEAN] /\ faults' \in Nat
  BY DEF Crash, IInv, TypeOK
<1>4. UNCHANGED <<tree, snaps, remote, latest, clock, edits>>
  BY DEF Crash, remoteVars
<1>5. \/ base' = base
      \/ \E i \in Nat : /\ base' = [base EXCEPT ![d] = i]
                        /\ i # None => Stored(i, snaps, remote)
  <2>1. ASSUME NEW a \in Actor, run[a].phase = "baseline"
        PROVE  Stored(Baseline(run[a]), snaps, remote) /\ Baseline(run[a]) \in Nat
    BY <2>1, BaselineOK
  <2> QED BY <2>1 DEF Crash, TornBaseline, None
<1>6. /\ base' \in [Device -> Nat]
      /\ \A e \in Device : base'[e] # None => Stored(base'[e], snaps, remote)
  <2>1. CASE base' = base
    BY <2>1 DEF IInv, TypeOK
  <2>2. CASE \E i \in Nat : /\ base' = [base EXCEPT ![d] = i]
                            /\ i # None => Stored(i, snaps, remote)
    BY <2>2, BaseWritten
  <2> QED BY <1>5, <2>1, <2>2
<1>7. \/ state' = state
      \/ \E s \in LocalState : /\ Known(s, snaps, remote)
                               /\ state' = [state EXCEPT ![d] = s]
  <2>1. DefaultState \in LocalState /\ Known(DefaultState, snaps, remote)
    BY IdleRunTyped DEF Known, DefaultState
  <2>2. ASSUME NEW a \in Actor, run[a].phase = "save"
        PROVE  NextState(run[a]) \in LocalState /\ Known(NextState(run[a]), snaps, remote)
    BY <2>2, NextStateOK
  <2> QED BY <2>1, <2>2 DEF Crash, TornState
<1>8. /\ state' \in [Device -> LocalState]
      /\ \A e \in Device : Known(state'[e], snaps, remote)
  BY <1>7 DEF IInv, TypeOK
<1>9. TypeOK'
  BY <1>1, <1>2, <1>3, <1>4, <1>8, <1>6 DEF IInv, TypeOK
<1> QED BY <1>2, <1>4, <1>8, <1>9, <1>6 DEF IInv

-----------------------------------------------------------------------------
LEMMA NextInv == IInv /\ [Next]_vars => IInv'
<1> SUFFICES ASSUME IInv, [Next]_vars PROVE IInv'
  OBVIOUS
<1>1. CASE \E d \in Device, k \in Key : Edit(d, k) \/ Delete(d, k)
  BY <1>1, EditInv
<1>2. ASSUME NEW a \in Actor, Begin(a) PROVE IInv'
  BY <1>2, BeginInv, BeginForcePushInv DEF Begin
<1>3. ASSUME NEW a \in Actor, Continue(a) PROVE IInv'
  BY <1>3, DecideInv, DecidePushInv, PullInv, ImportPulledInv, ImportMergedInv,
     UploadInv, WriteBaselineInv, SaveInv, ReloadInv, EndInv DEF Continue
<1>4. ASSUME NEW a \in Actor, Fail(a) \/ LoseAnswer(a) PROVE IInv'
  BY <1>4, FailInv, LoseAnswerInv
<1>5. CASE \E d \in Device : Crash(d)
  BY <1>5, CrashInv
<1>6. CASE UNCHANGED vars
  BY <1>6 DEF vars, localVars, remoteVars, envVars, IInv, TypeOK
<1> QED BY <1>1, <1>2, <1>3, <1>4, <1>5, <1>6 DEF Next

\* IInv holds in every reachable state.
THEOREM Invariance == Spec => []IInv
  BY InitInv, NextInv, PTL DEF Spec

-----------------------------------------------------------------------------
(* The properties that the runs check.                                     *)

\* TypeOK: every variable keeps the type of the structure it models.
THEOREM TypeCorrect == Spec => []TypeOK
<1>1. IInv => TypeOK
  BY DEF IInv
<1> QED BY <1>1, Invariance, PTL

\* LatestIsComplete: whoever follows latest.json finds both files.
THEOREM LatestComplete == Spec => []LatestIsComplete
<1>1. IInv => LatestIsComplete
  BY DEF IInv, LatestIsComplete, Complete, Stored
<1> QED BY <1>1, Invariance, PTL

\* LineageIsPublished: the ancestry of a snapshot consists of published ones.
THEOREM LineagePublished == Spec => []LineageIsPublished
<1>1. IInv => LineageIsPublished
  BY DEF IInv, LineageIsPublished, LineageOK, Complete, Stored
<1> QED BY <1>1, Invariance, PTL

\* RecordedPairIsPublished: sync_state.json describes one published snapshot.
THEOREM RecordedPairPublished == Spec => []RecordedPairIsPublished
<1>1. IInv => RecordedPairIsPublished
  BY DEF IInv, RecordedPairIsPublished, Known, Complete, Stored
<1> QED BY <1>1, Invariance, PTL

\* UpToDateMeansEqual: a run that finds nothing to do holds the same content.
THEOREM UpToDateEqual == Spec => []UpToDateMeansEqual
<1>1. IInv => UpToDateMeansEqual
  BY DEF IInv, UpToDateMeansEqual, RunOK
<1> QED BY <1>1, Invariance, PTL

-----------------------------------------------------------------------------
(* The refinement of SnapshotStore.                                        *)

\* The ways in which a step changes the remote store.
Sealing == /\ \E s \in Snapshot : snaps' = Append(snaps, s)
           /\ UNCHANGED <<remote, latest>>

Uploads == \E i \in 1 .. Len(snaps), f \in Files :
               /\ remote' = remote \cup {<<i, f>>}
               /\ UNCHANGED <<snaps, latest>>

Publishing == /\ latest' # None
              /\ UNCHANGED <<snaps, remote>>

LEMMA RemoteStep ==
    ASSUME IInv, IInv', [Next]_vars
    PROVE  UNCHANGED remoteVars \/ Sealing \/ Uploads \/ Publishing
<1> USE DEF remoteVars
<1>1. CASE \E d \in Device, k \in Key : Edit(d, k) \/ Delete(d, k)
  BY <1>1 DEF Edit, Delete
<1>2. ASSUME NEW a \in Actor, Begin(a) \/ Fail(a)
      PROVE  UNCHANGED remoteVars \/ Sealing
  <2>1. CASE BeginForcePush(a)
    <3>1. [parent |-> None, tree |-> tree[Home[a]]] \in Snapshot
      BY RunTyped DEF IInv, TypeOK, Snapshot, None
    <3> QED BY <2>1, <3>1 DEF BeginForcePush, Sealed, Sealing
  <2>2. CASE Fail(a) \/ BeginEngineSync(a) \/ BeginPanelSync(a) \/ BeginRestore(a)
    BY <2>2 DEF Fail, BeginEngineSync, BeginPanelSync, BeginRestore
  <2> QED BY <1>2, <2>1, <2>2 DEF Begin
<1>3. ASSUME NEW a \in Actor,
             \/ DecideUpToDate(a) \/ DecidePull(a) \/ DecideMerge(a)
             \/ PullLatest(a) \/ PullNothing(a) \/ ImportPulled(a) \/ Refused(a)
             \/ WriteBaseline(a) \/ Save(a) \/ Reload(a) \/ SkipReload(a)
      PROVE  UNCHANGED remoteVars
  BY <1>3 DEF DecideUpToDate, DecidePull, DecideMerge, PullLatest, PullNothing,
              ImportPulled, Refused, WriteBaseline, Save, Reload, SkipReload
<1>4. ASSUME NEW a \in Actor, DecidePush(a)
      PROVE  Sealing
  <2>1. [parent |-> run[a].st.pushed, tree |-> run[a].local] \in Snapshot
    BY RunTyped DEF Run, LocalState, Snapshot
  <2> QED BY <1>4, <2>1 DEF DecidePush, Sealed, Sealing
<1>5. ASSUME NEW a \in Actor, ImportMerged(a)
      PROVE  Sealing
  <2>1. snaps' = Append(snaps, [parent |-> run[a].rm, tree |-> MergedTree(a)])
    BY <1>5 DEF ImportMerged, Sealed
  <2>2. MergedTree(a) \in Tree
    BY <1>5, MergedTyped
  <2>3. [parent |-> run[a].rm, tree |-> MergedTree(a)] \in Snapshot
    BY <2>2, RunTyped DEF Run, Snapshot
  <2> QED BY <1>5, <2>1, <2>3 DEF ImportMerged, Sealing
<1>6. ASSUME NEW a \in Actor,
             PutManifest(a) \/ PutBundle(a) \/ PutLatest(a) \/ LoseAnswer(a)
      PROVE  Uploads \/ Publishing
  <2>1. CASE PutManifest(a) \/ PutBundle(a)
    <3>1. run[a].id \in 1 .. Len(snaps)
      BY <2>1, RunTyped DEF RunOK, PutManifest, PutBundle, Uploading
    <3> QED BY <2>1, <3>1 DEF PutManifest, PutBundle, Uploads, Files
  <2>2. CASE PutLatest(a)
    <3>1. run[a].id \in 1 .. Len(snaps)
      BY <2>2, RunTyped DEF RunOK, PutLatest, Uploading
    <3> QED BY <2>2, <3>1 DEF PutLatest, Publishing, None
  <2>3. CASE LoseAnswer(a)
    <3>1. run[a].phase \in Uploading
      BY <2>3 DEF LoseAnswer, Uploading
    <3>2. run[a].id \in 1 .. Len(snaps)
      BY <3>1, RunTyped DEF RunOK
    <3> QED BY <2>3, <3>2 DEF LoseAnswer, Uploads, Publishing, Files, None
  <2> QED BY <1>6, <2>1, <2>2, <2>3
<1>7. CASE \E d \in Device : Crash(d)
  BY <1>7 DEF Crash
<1>8. CASE UNCHANGED vars
  BY <1>8 DEF vars
<1> QED BY <1>1, <1>2, <1>3, <1>4, <1>5, <1>6, <1>7, <1>8 DEF Next, Continue

LEMMA StepRefines ==
    ASSUME IInv, IInv', [Next]_vars
    PROVE  Abstract!StoreNext \/ UNCHANGED <<Shelf, latest>>
<1> DEFINE E(i) == [id |-> i, parent |-> snaps[i].parent, content |-> snaps[i].tree]
           C == {j \in 1 .. Len(snaps) : Complete(j)}
<1>1. Shelf = {E(i) : i \in C}
  BY DEF Shelf
<1>2. snaps \in Seq(Snapshot) /\ remote \subseteq (1 .. Len(snaps)) \X Files
  BY DEF IInv, TypeOK
<1>3. Abstract!Ids = C
  <2>1. \A i : E(i).id = i
    OBVIOUS
  <2>2. Abstract!Ids = {s.id : s \in {E(i) : i \in C}}
    BY <1>1 DEF Abstract!Ids
  <2> HIDE DEF E, C
  <2> QED BY <2>1, <2>2
<1>4. CASE UNCHANGED remoteVars
  BY <1>4 DEF remoteVars, Shelf, Complete
<1>5. CASE Sealing
  <2>1. PICK s \in Snapshot : snaps' = Append(snaps, s) /\ UNCHANGED <<remote, latest>>
    BY <1>5 DEF Sealing
  <2>2. /\ Len(snaps') = Len(snaps) + 1
        /\ \A i \in 1 .. Len(snaps) : snaps'[i] = snaps[i]
        /\ Len(snaps) \in Nat
    BY <1>2, <2>1
  <2>3. ASSUME NEW j, j = Len(snaps) + 1 PROVE ~Complete(j)'
    BY <2>3, <1>2, <2>1, <2>2 DEF Complete, Files
  <2>4. {j \in 1 .. Len(snaps') : Complete(j)'} = C
    <3>1. ASSUME NEW j PROVE Complete(j)' <=> Complete(j)
      BY <2>1 DEF Complete
    <3>2. \A j : j \in 1 .. Len(snaps') <=> (j \in 1 .. Len(snaps) \/ j = Len(snaps) + 1)
      BY <2>2
    <3> QED BY <3>1, <3>2, <2>3
  <2>5. \A i \in C : E(i)' = E(i)
    BY <2>2
  <2>6. Shelf' = {E(i)' : i \in C}
    BY <2>4 DEF Shelf
  <2> QED BY <1>1, <2>1, <2>5, <2>6
<1>6. CASE Uploads
  <2>1. PICK i \in 1 .. Len(snaps), f \in Files :
            /\ remote' = remote \cup {<<i, f>>}
            /\ UNCHANGED <<snaps, latest>>
    BY <1>6 DEF Uploads
  <2>2. {j \in 1 .. Len(snaps) : Complete(j)'} =
            IF Complete(i)' THEN C \cup {i} ELSE C
    BY <2>1 DEF Complete
  <2>3. Shelf' = {E(j) : j \in {j \in 1 .. Len(snaps) : Complete(j)'}}
    BY <2>1 DEF Shelf
  <2>4. CASE Complete(i)' /\ i \notin C
    <3>1. Shelf' = Shelf \cup {E(i)}
      BY <1>1, <2>2, <2>3, <2>4
    <3>2. E(i) \in Shelf' \ Shelf
      BY <1>1, <2>4, <3>1
    <3>4. E(i).id \notin Abstract!Ids \cup {None}
      BY <2>4, <1>3 DEF None
    <3>5. E(i).parent \in Abstract!Ids \cup {None}
      BY <1>3 DEF IInv, LineageOK, Stored, Complete
    <3>6. E(i).content \in Tree
      <4>1. snaps[i] \in Snapshot
        BY <1>2
      <4> QED BY <4>1 DEF Snapshot
    <3> HIDE DEF E, C
    <3> QED BY <2>1, <3>1, <3>2, <3>4, <3>5, <3>6 DEF Abstract!StoreNext, Abstract!Shelve
  <2>5. CASE ~(Complete(i)' /\ i \notin C)
    BY <1>1, <2>1, <2>2, <2>3, <2>5
  <2> QED BY <2>4, <2>5
<1>7. CASE Publishing
  <2>1. latest' \in C /\ Shelf' = Shelf
    BY <1>7 DEF Publishing, IInv, Stored, Complete, Shelf
  <2> QED BY <2>1, <1>3 DEF Abstract!StoreNext, Abstract!Publish
<1> QED BY <1>4, <1>5, <1>6, <1>7, RemoteStep

\* RemoteIsAtomicStore: pushes that fail, lose their answer or are cut off by
\* a crash implement the store of atomic, immutable snapshots.
THEOREM Refinement == Spec => RemoteIsAtomicStore
<1>1. Init => Abstract!StoreInit
  BY DEF Init, Abstract!StoreInit, Shelf
<1>2. IInv /\ IInv' /\ [Next]_vars => [Abstract!StoreNext]_<<Shelf, latest>>
  BY StepRefines
<1> QED BY <1>1, <1>2, Invariance, PTL
        DEF Spec, RemoteIsAtomicStore, Abstract!StoreSpec, Abstract!svars

-----------------------------------------------------------------------------
(* The flag SYNCING.                                                       *)

\* Where the runs of the engine stay in flight or out of it, and the flag with
\* them.
LEMMA FlagKept ==
    ASSUME FlagIsHeld, UNCHANGED syncing,
           \A a \in EngineActor : InFlight(a)' <=> InFlight(a)
    PROVE  FlagIsHeld'
  BY DEF FlagIsHeld

\* One run goes on to another phase.
LEMMA FlagAdvanced ==
    ASSUME TypeOK, FlagIsHeld, NEW a \in Actor, NEW r, run' = [run EXCEPT ![a] = r],
           UNCHANGED syncing,
           a \in EngineActor => (r.phase \in {"idle", "reload"} <=> ~InFlight(a))
    PROVE  FlagIsHeld'
<1>1. \A b \in EngineActor : InFlight(b)' <=> InFlight(b)
  BY ActorAssumption DEF TypeOK, InFlight
<1> QED BY <1>1, FlagKept

\* A run in flight comes down, and clears the flag if it is one of the engine.
LEMMA FlagReleased ==
    ASSUME TypeOK, FlagIsHeld, NEW a \in Actor, NEW r, run' = [run EXCEPT ![a] = r],
           InFlight(a), r.phase \in {"idle", "reload"}, Release(a)
    PROVE  FlagIsHeld'
<1>1. ~InFlight(a)' /\ \A b \in Actor \ {a} : InFlight(b)' <=> InFlight(b)
  BY DEF TypeOK, InFlight
<1>2. CASE a \notin EngineActor
  BY <1>1, <1>2, FlagKept, ActorAssumption DEF Release
<1>3. CASE a \in EngineActor
  <2>1. /\ Home[a] \in Device /\ ~syncing'[Home[a]]
        /\ \A d \in Device \ {Home[a]} : syncing'[d] = syncing[d]
    BY <1>3, ActorAssumption DEF Release, TypeOK
  <2>2. \A b \in EngineActor \ {a} : Home[b] = Home[a] => ~InFlight(b)
    BY <1>3, <2>1 DEF FlagIsHeld
  <2> QED BY <1>1, <1>3, <2>1, <2>2, ActorAssumption DEF FlagIsHeld
<1> QED BY <1>2, <1>3

LEMMA IdlePhase == IdleRun.phase = "idle"
  BY DEF IdleRun

LEMMA FlagAborted ==
    ASSUME TypeOK, FlagIsHeld, NEW a \in Actor, InFlight(a), Abort(a)
    PROVE  FlagIsHeld'
  BY FlagReleased, IdlePhase DEF Abort

LEMMA FlagNext == ASSUME TypeOK, FlagIsHeld, [Next]_vars PROVE FlagIsHeld'
<1>1. ASSUME NEW d \in Device, NEW k \in Key, Edit(d, k) \/ Delete(d, k)
      PROVE  FlagIsHeld'
  BY <1>1, FlagKept DEF Edit, Delete, InFlight
<1>2. ASSUME NEW a \in Actor, BeginEngineSync(a)
      PROVE  FlagIsHeld'
  <2>1. /\ a \in EngineActor /\ Home[a] \in Device /\ ~syncing[Home[a]]
        /\ syncing' = [syncing EXCEPT ![Home[a]] = TRUE]
    BY <1>2, ActorAssumption DEF BeginEngineSync
  <2>2. InFlight(a)' /\ \A b \in Actor \ {a} : InFlight(b)' <=> InFlight(b)
    BY <1>2 DEF BeginEngineSync, Start, Started, TypeOK, InFlight
  <2>3. \A b \in EngineActor : Home[b] = Home[a] => ~InFlight(b)
    BY <2>1 DEF FlagIsHeld
  <2>4. syncing'[Home[a]] /\ \A d \in Device \ {Home[a]} : syncing'[d] = syncing[d]
    BY <2>1 DEF TypeOK
  <2>5. \A b \in EngineActor : Home[b] # Home[a] => (InFlight(b)' <=> InFlight(b))
    BY <2>2, ActorAssumption
  <2>6. \A b \in EngineActor : Home[b] = Home[a] => (InFlight(b)' <=> b = a)
    BY <2>2, <2>3, ActorAssumption
  <2> QED BY <2>1, <2>4, <2>5, <2>6 DEF FlagIsHeld
<1>3. ASSUME NEW a \in Actor, BeginPanelSync(a) \/ BeginRestore(a) \/ BeginForcePush(a)
      PROVE  FlagIsHeld'
  <2>1. a \notin EngineActor /\ syncing' = syncing /\ \E r : run' = [run EXCEPT ![a] = r]
    BY <1>3 DEF BeginPanelSync, BeginRestore, BeginForcePush, Start
  <2> QED BY <2>1, FlagAdvanced
<1>4. ASSUME NEW a \in Actor,
             DecideUpToDate(a) \/ DecidePush(a) \/ DecidePull(a) \/ DecideMerge(a)
      PROVE  FlagIsHeld'
  <2>1. /\ InFlight(a) /\ syncing' = syncing
        /\ \E r : run' = [run EXCEPT ![a] = r] /\ r.phase \notin {"idle", "reload"}
    BY <1>4 DEF DecideUpToDate, DecidePush, DecidePull, DecideMerge, Take, Decided, InFlight
  <2> QED BY <2>1, FlagAdvanced
<1>5. ASSUME NEW a \in Actor, Refused(a) \/ PullNothing(a)
      PROVE  FlagIsHeld'
  BY <1>5, FlagAborted DEF Refused, PullNothing, InFlight
<1>6. ASSUME NEW a \in Actor, PullLatest(a) \/ ImportPulled(a) \/ ImportMerged(a)
      PROVE  FlagIsHeld'
  <2>1. /\ InFlight(a) /\ syncing' = syncing
        /\ \E r : run' = [run EXCEPT ![a] = r] /\ r.phase \notin {"idle", "reload"}
    BY <1>6 DEF PullLatest, ImportPulled, ImportMerged, Goto, Advanced, InFlight
  <2> QED BY <2>1, FlagAdvanced
<1>7. ASSUME NEW a \in Actor, PutManifest(a) \/ PutBundle(a) \/ PutLatest(a) \/ WriteBaseline(a)
      PROVE  FlagIsHeld'
  <2>1. /\ InFlight(a) /\ syncing' = syncing
        /\ \E r : run' = [run EXCEPT ![a] = r] /\ r.phase \notin {"idle", "reload"}
    BY <1>7 DEF PutManifest, PutBundle, PutLatest, WriteBaseline, Goto, Advanced, InFlight
  <2> QED BY <2>1, FlagAdvanced
<1>8. ASSUME NEW a \in Actor, Save(a)
      PROVE  FlagIsHeld'
  <2>1. /\ InFlight(a) /\ Release(a)
        /\ \E r : run' = [run EXCEPT ![a] = r] /\ r.phase \in {"idle", "reload"}
    BY <1>8, IdlePhase DEF Save, Goto, Advanced, InFlight
  <2> QED BY <2>1, FlagReleased
<1>9. ASSUME NEW a \in Actor, Reload(a) \/ SkipReload(a)
      PROVE  FlagIsHeld'
  <2>1. ~InFlight(a) /\ syncing' = syncing /\ run' = [run EXCEPT ![a] = IdleRun]
    BY <1>9 DEF Reload, SkipReload, InFlight
  <2> QED BY <2>1, IdlePhase, FlagAdvanced
<1>10. ASSUME NEW a \in Actor, Fail(a) \/ LoseAnswer(a)
       PROVE  FlagIsHeld'
  BY <1>10, FlagAborted DEF Fail, LoseAnswer, InFlight
<1>11. ASSUME NEW d \in Device, Crash(d)
       PROVE  FlagIsHeld'
  <2>1. /\ ~syncing'[d] /\ \A e \in Device \ {d} : syncing'[e] = syncing[e]
        /\ \A a \in Actor : Home[a] = d => ~InFlight(a)'
        /\ \A a \in Actor : Home[a] # d => (InFlight(a)' <=> InFlight(a))
    BY <1>11, IdlePhase DEF Crash, TypeOK, InFlight
  <2> QED BY <2>1, ActorAssumption DEF FlagIsHeld
<1>12. CASE UNCHANGED vars
  BY <1>12, FlagKept DEF vars, InFlight
<1> QED BY <1>1, <1>2, <1>3, <1>4, <1>5, <1>6, <1>7, <1>8, <1>9, <1>10, <1>11, <1>12
        DEF Next, Begin, Continue

\* SYNCING is up exactly while one run of the engine is in flight, and two
\* tasks of one device never have such runs at the same time.
THEOREM EnginesExclude == Spec => []FlagIsHeld
<1>1. Init => FlagIsHeld
  BY IdlePhase, ActorAssumption DEF Init, FlagIsHeld, InFlight
<1> QED BY <1>1, FlagNext, TypeCorrect, PTL DEF Spec

=============================================================================
