---------------------------- MODULE ConfigMerge ----------------------------
(***************************************************************************)
(* The merges of merge.rs that carry no revision: the JSON documents of    *)
(* config/, themes/ and sessions/ with the quick commands, the unions by   *)
(* identifier, and the command history.                                    *)
(*                                                                         *)
(* A JSON leaf is an element of Value, Null the JSON null; Absent stands   *)
(* for a key an object does not have or a file a directory does not have.  *)
(* An object is a function from its field names; nesting repeats the same  *)
(* rule, so one level is enough.                                           *)
(***************************************************************************)
EXTENDS Integers

CONSTANTS Value, Null, Absent, MaxCount

ASSUME ValueAssumption == Null \in Value /\ Absent \notin Value
ASSUME MaxCountAssumption == MaxCount \in Nat \ {0}

Slot == Value \cup {Absent}

-----------------------------------------------------------------------------
(* merge_json_value, the branch for values that are not both objects.      *)
MergeLeaf(b, l, r) ==
    IF b # Absent
    THEN IF l = b /\ r # b THEN r ELSE l
    ELSE IF l = Null /\ r # Null THEN r ELSE l

\* The plausible slip of testing the base's presence only, for the mutants.
DropIfInBase(b, x) == IF b # Absent THEN Absent ELSE x

\* A side that lacks the key or the file: the other side's value stays
\* unless it is the value of the base.
KeepIfChanged(b, x) == IF b = x THEN Absent ELSE x

\* merge_json_value, one field of two objects.
MergeField(b, l, r) ==
    CASE l # Absent /\ r # Absent -> IF l = r THEN l ELSE MergeLeaf(b, l, r)
      [] l # Absent /\ r = Absent -> KeepIfChanged(b, l)
      [] l = Absent /\ r # Absent -> KeepIfChanged(b, r)
      [] OTHER -> Absent

MergeObject(fields, b, l, r) == [f \in fields |-> MergeField(b[f], l[f], r[f])]

\* merge_dir_json for a file that is not JSON: the local one is kept.
MergeOpaqueFile(b, l, r) ==
    IF l # Absent /\ r # Absent THEN l ELSE MergeField(b, l, r)

-----------------------------------------------------------------------------
\* merge_credentials, merge_ai_messages and the part "workspace": by
\* identifier, what both sides have stays as it is here.
PreferLocal(l, r) == IF l # Absent THEN l ELSE r

\* merge_qc_nodes for the quick commands of one level.
MergeCommands(l, r) == [c \in DOMAIN l |-> PreferLocal(l[c], r[c])]

\* The slip of letting the local node replace the remote one whatever it is.
MergeFolderShallow(l, r) == PreferLocal(l, r)

\* merge_qc_nodes for a folder, [name |-> ..., sub |-> its commands]; a folder
\* in a folder repeats the rule.  The folder of the remote side is kept.
MergeFolder(l, r) ==
    IF l # Absent /\ r # Absent
    THEN [r EXCEPT !.sub = MergeCommands(l.sub, r.sub)]
    ELSE PreferLocal(l, r)

MergeForest(l, r) ==
    [commands |-> MergeCommands(l.commands, r.commands),
     folders  |-> [f \in DOMAIN l.folders |-> MergeFolder(l.folders[f], r.folders[f])]]

-----------------------------------------------------------------------------
\* The wrap-around of an unchecked addition, for the mutants.
WrapAround(n) == n % (MaxCount + 1)

Saturate(n) == IF n > MaxCount THEN MaxCount ELSE n

\* merge_history: an entry's execution count; 0 is an entry not there.
MergeCount(l, r) == Saturate(l + r)

=============================================================================
