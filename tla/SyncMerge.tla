----------------------------- MODULE SyncMerge -----------------------------
(***************************************************************************)
(* The three-way merge of velowork-workspace/src/sync/merge.rs, entity by  *)
(* entity.  The code merges lists of rows; a list is represented here by   *)
(* the function from row identifiers to rows (NoRow where the list has no  *)
(* row), so that BundleMerger's loop over `all_ids` is the construction of *)
(* a function, and the final sort by sort_index is not represented.        *)
(*                                                                         *)
(* A row keeps what the merge reads: `val` stands for the pair (payload,   *)
(* name) that is compared for equality, `rev`, `ts` and `dev` for the      *)
(* columns revision, updated_at and device_id.  Device identifiers are     *)
(* compared lexicographically in the code; here they are positive numbers, *)
(* and Blank is the empty string that the repositories store.              *)
(***************************************************************************)
EXTENDS Integers

CONSTANTS Device,  \* the devices of one user
          Key,     \* identifiers of the rows of a tree
          NoRow    \* "this tree has no row with that identifier"

Blank == 0

Row == [val : Nat, rev : Nat, ts : Nat, dev : Device \cup {Blank}]

ASSUME DeviceAssumption == Device \subseteq Nat \ {0}
ASSUME NoRowAssumption == NoRow \notin Row

Tree == [Key -> Row \cup {NoRow}]
EmptyTree == [k \in Key |-> NoRow]

-----------------------------------------------------------------------------
(* compare_causal_order: revision first, then time, then device.           *)

Stamp(x) == <<x.rev, x.ts, x.dev>>

\* A form that forgets the time stamps, for the mutants.
AtLeastByRevision(x, y) ==
    \/ x.rev > y.rev
    \/ x.rev = y.rev /\ x.dev >= y.dev

AtLeast(x, y) ==
    \/ x.rev > y.rev
    \/ x.rev = y.rev /\ x.ts > y.ts
    \/ x.rev = y.rev /\ x.ts = y.ts /\ x.dev >= y.dev

Winner(l, r) == IF AtLeast(l, r) THEN l ELSE r

\* A form that counts on from the local revision, for the mutants.
LocalRev(l, r) == l.rev

HigherRev(l, r) == IF l.rev >= r.rev THEN l.rev ELSE r.rev

\* The row x under a new revision, stamped by the device d.
Stamped(x, rev, d) == [val |-> x.val, rev |-> rev, ts |-> x.ts, dev |-> d]

\* The winner of a concurrent change, stamped by the merging device.
Restamped(l, r, d) == Stamped(Winner(l, r), HigherRev(l, r) + 1, d)

ModifiedSince(x, b) == x.rev > b.rev \/ x.ts > b.ts

-----------------------------------------------------------------------------
(* One row of merge_session_trees: base b, local l, remote r, device d.    *)

BothPresent(b, l, r, d) ==
    IF b # NoRow /\ l.val = r.val THEN Winner(l, r) ELSE Restamped(l, r, d)

LocalOnly(b, l, d) ==
    IF b = NoRow THEN l
    ELSE IF ModifiedSince(l, b) THEN Stamped(l, l.rev + 1, d)
    ELSE NoRow

RemoteOnly(b, r) == IF b = NoRow \/ ModifiedSince(r, b) THEN r ELSE NoRow

MergeSessionRow(b, l, r, d) ==
    CASE l # NoRow /\ r # NoRow -> BothPresent(b, l, r, d)
      [] l # NoRow /\ r = NoRow -> LocalOnly(b, l, d)
      [] l = NoRow /\ r # NoRow -> RemoteOnly(b, r)
      [] OTHER -> NoRow

MergeSessionTree(b, l, r, d) ==
    [k \in Key |-> MergeSessionRow(b[k], l[k], r[k], d)]

(* merge_tunnel_trees and merge_service_trees differ in one case: two rows *)
(* added on both sides with the same content are not restamped.            *)
MergeTunnelRow(b, l, r, d) ==
    IF l # NoRow /\ r # NoRow
    THEN IF l.val = r.val THEN Winner(l, r) ELSE Restamped(l, r, d)
    ELSE MergeSessionRow(b, l, r, d)

(* merge_ai_conversations: a row present on either side is always kept.    *)
(* The code compares updated_at and title to decide on the new stamp.      *)
MergeConversation(l, r, d) ==
    CASE l # NoRow /\ r # NoRow ->
            IF l.ts = r.ts /\ l.val = r.val THEN Winner(l, r)
                                            ELSE Restamped(l, r, d)
      [] l # NoRow /\ r = NoRow -> l
      [] OTHER -> r

=============================================================================
