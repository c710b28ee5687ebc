---------------------------- MODULE BundleMerge ----------------------------
(***************************************************************************)
(* The promises of merge.rs: every base, local and remote part that        *)
(* BundleMerger can be given, and what must hold of the merges.            *)
(*                                                                         *)
(* The operators are those of SyncMerge and ConfigMerge.  The variables    *)
(* take all inputs: a part of the base bundle, and what each of the two    *)
(* devices has made of it since.                                           *)
(***************************************************************************)
EXTENDS SyncMerge, ConfigMerge

CONSTANTS Val, Rev, Ts,   \* contents, revisions and times of rows
          Name,           \* names of folders
          Command, Folder \* identifiers of quick commands and their folders

Sub == [Command -> Slot]

ASSUME RangeAssumption == Val \subseteq Nat /\ Rev \subseteq Nat /\ Ts \subseteq Nat
ASSUME FolderAssumption == Absent \notin [name : Name, sub : Sub]

VARIABLES
    part,         \* which kind of part is merged
    base,         \* the part of the bundle both devices started from
    local, other  \* the part on the merging device, and in the cloud

cases == <<part, base, local, other>>

Parts == {"row", "field", "count", "forest"}

Rows == [val : Val, rev : Rev, ts : Ts, dev : Device \cup {Blank}] \cup {NoRow}

Folders == [name : Name, sub : Sub] \cup {Absent}
Forests == [commands : Sub, folders : [Folder -> Folders]]

Cases(p) == CASE p = "row" -> Rows
              [] p = "field" -> Slot
              [] p = "count" -> 0 .. MaxCount
              [] p = "forest" -> Forests

TypeOK == part \in Parts /\ {base, local, other} \subseteq Cases(part)

Init == /\ part \in Parts
        /\ base \in Cases(part)
        /\ local = base /\ other = base

ChangeHere == local' \in Cases(part) /\ UNCHANGED <<part, base, other>>
ChangeThere == other' \in Cases(part) /\ UNCHANGED <<part, base, local>>

Next == ChangeHere \/ ChangeThere

Spec == Init /\ [][Next]_cases

-----------------------------------------------------------------------------
(* Rows.                                                                   *)

\* What the three merges of rows make of the present case on the device d.
MergedRows(d) ==
    {MergeSessionRow(base, local, other, d), MergeTunnelRow(base, local, other, d),
     MergeConversation(local, other, d)}

\* x carries the day against y: whoever merges the two gets x's content.
Prevails(x, y) == AtLeast(x, y) /\ (AtLeast(y, x) => x.val = y.val)

MergedPrevails(m, l, r) ==
    m # NoRow => \A x \in {l, r} \ {NoRow} : Prevails(m, x)

\* merge_session_trees, merge_tunnel_trees (with it merge_service_trees) and
\* merge_ai_conversations: a merged row prevails over both its origins, so a
\* device that still has one of them cannot bring the old content back.
MergesPrevail ==
    part = "row" => \A d \in Device : \A m \in MergedRows(d) : MergedPrevails(m, local, other)

SameContent(m, n) == (m = NoRow <=> n = NoRow) /\ (m # NoRow => m.val = n.val)

\* The two devices of a conflict come to the same row content whichever of
\* them merges (to m or to n), unless their rows bear the same stamp.
SymmetricUnlessTied(m, n, l, r) ==
    (l # NoRow /\ r # NoRow /\ l.val # r.val => Stamp(l) # Stamp(r)) => SameContent(m, n)

\* The merges of rows: the content does not depend on the merging device.
MergesSymmetric ==
    part = "row" => \A d, e \in Device :
        /\ SymmetricUnlessTied(MergeSessionRow(base, local, other, d),
                               MergeSessionRow(base, other, local, e), local, other)
        /\ SymmetricUnlessTied(MergeTunnelRow(base, local, other, d),
                               MergeTunnelRow(base, other, local, e), local, other)
        /\ SymmetricUnlessTied(MergeConversation(local, other, d),
                               MergeConversation(other, local, e), local, other)

\* Nothing added on one side is dropped, and nothing is made up.
AdditionsSurvive(m, b, l, r) ==
    /\ b = NoRow /\ (l # NoRow \/ r # NoRow) => m # NoRow
    /\ m # NoRow => \E x \in {l, r} \ {NoRow} : m.val = x.val

-----------------------------------------------------------------------------
(* Documents, histories and quick commands.                                *)

\* merge_json_value and merge_dir_json: what only one side did to a field ends
\* up as that side left it, and a field or a file that one side changed or
\* added outlives its deletion by the other.
FieldChangesSurvive ==
    part = "field" =>
        /\ local = base => MergeField(base, local, other) = other
        /\ other = base => MergeField(base, local, other) = local
        /\ \A m \in {MergeField(base, local, other), MergeOpaqueFile(base, local, other)} :
             /\ local \notin {base, Absent} /\ other = Absent => m = local
             /\ other \notin {base, Absent} /\ local = Absent => m = other

\* merge_history: the merged count is at least both counts and never wraps.
CountNeverFalls ==
    part = "count" =>
        LET m == MergeCount(local, other) IN m >= local /\ m >= other /\ m <= MaxCount

HoldsCommands(m, s) == \A c \in Command : s[c] # Absent => m[c] # Absent

Holds(m, s) ==
    /\ HoldsCommands(m.commands, s.commands)
    /\ \A f \in Folder : s.folders[f] # Absent =>
          m.folders[f] # Absent /\ HoldsCommands(m.folders[f].sub, s.folders[f].sub)

\* The merges of rows and merge_qc_nodes: a row added on either device is kept
\* and none is made up, and so is every quick command and folder that either
\* device has, whatever the other has under the same identifiers, in its
\* folder.
NothingAddedIsLost ==
    /\ part = "row" =>
         \A d \in Device : \A m \in MergedRows(d) : AdditionsSurvive(m, base, local, other)
    /\ part = "forest" =>
         LET m == MergeForest(local, other) IN Holds(m, local) /\ Holds(m, other)

=============================================================================
