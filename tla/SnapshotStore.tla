--------------------------- MODULE SnapshotStore ---------------------------
(***************************************************************************)
(* What the remote store promises to the devices that share it: a shelf of *)
(* immutable snapshots, each with a parent that was shelved before it, and *)
(* a head that only ever designates a snapshot of the shelf.  A snapshot   *)
(* reaches the shelf in one step, whatever files it is made of.            *)
(***************************************************************************)
EXTENDS Naturals

CONSTANTS Content,  \* what a snapshot holds
          NoParent  \* the parent of a snapshot that descends from none

VARIABLES shelf,  \* the snapshots: identifier, parent and content
          head    \* the identifier of the newest one, NoParent before it

svars == <<shelf, head>>

Ids == {s.id : s \in shelf}

StoreInit == shelf = {} /\ head = NoParent

Shelve ==
    /\ \E s \in shelf' \ shelf :
          /\ shelf' = shelf \cup {s}
          /\ s.id \notin Ids \cup {NoParent}
          /\ s.parent \in Ids \cup {NoParent}
          /\ s.content \in Content
    /\ UNCHANGED head

Publish ==
    /\ head' \in Ids
    /\ UNCHANGED shelf

StoreNext == Shelve \/ Publish

StoreSpec == StoreInit /\ [][StoreNext]_svars

=============================================================================
