------------------------- MODULE BundleMerge_proofs -------------------------
(***************************************************************************)
(* Proofs about BundleMerge: the promises of the merges, for every base,   *)
(* local and remote part, any devices, contents, revisions, times, fields, *)
(* folders and bound of the counts.                                        *)
(***************************************************************************)
EXTENDS BundleMerge, TLAPS

Optional == Row \cup {NoRow}

-----------------------------------------------------------------------------
(* Stamps.                                                                 *)

\* Every component of a stamp is a number.
LEMMA RowFields ==
    ASSUME NEW x \in Row
    PROVE  x.rev \in Nat /\ x.ts \in Nat /\ x.dev \in Nat
<1>1. x.dev \in Device \/ x.dev = 0
  BY DEF Row, Blank
<1>2. Device \subseteq Nat /\ 0 \in Nat
  BY DeviceAssumption
<1>3. x.rev \in Nat /\ x.ts \in Nat
  BY DEF Row
<1>4. x.dev \in Nat
  BY <1>1, <1>2, Zenon
<1> QED BY <1>3, <1>4

\* Two rows that are both at least the other have the same stamp.
LEMMA AtLeastTotal ==
    ASSUME NEW x \in Row, NEW y \in Row
    PROVE  /\ AtLeast(x, y) \/ AtLeast(y, x)
           /\ AtLeast(x, y) /\ AtLeast(y, x) => Stamp(x) = Stamp(y)
<1>1. /\ x.rev \in Nat /\ x.ts \in Nat /\ x.dev \in Nat
      /\ y.rev \in Nat /\ y.ts \in Nat /\ y.dev \in Nat
  BY RowFields
<1>2. AtLeast(x, y) \/ AtLeast(y, x)
  BY <1>1 DEF AtLeast
<1>3. AtLeast(x, y) /\ AtLeast(y, x) => x.rev = y.rev /\ x.ts = y.ts /\ x.dev = y.dev
  BY <1>1 DEF AtLeast
<1> QED BY <1>2, <1>3 DEF Stamp

\* A higher revision wins whatever the rest of the stamp is.
LEMMA HigherRevisionPrevails ==
    ASSUME NEW x \in Row, NEW y \in Row, x.rev > y.rev
    PROVE  Prevails(x, y)
  BY RowFields DEF Prevails, AtLeast

\* A row prevails over itself.
LEMMA PrevailsOverItself == \A x \in Row : Prevails(x, x)
  BY RowFields DEF Prevails, AtLeast

-----------------------------------------------------------------------------
(* One row: the two ways to settle a conflict.                             *)

\* Restamping keeps a row a row with the same content.
LEMMA StampedRow ==
    ASSUME NEW x \in Row, NEW n \in Nat, NEW d \in Device
    PROVE  Stamped(x, n, d) \in Row /\ Stamped(x, n, d).val = x.val
                                    /\ Stamped(x, n, d).rev = n
  BY DEF Stamped, Row

\* The winner is one of the two; without a conflict it prevails over both.
LEMMA WinnerPrevails ==
    ASSUME NEW l \in Row, NEW r \in Row
    PROVE  /\ Winner(l, r) \in {l, r}
           /\ l.val = r.val => Prevails(Winner(l, r), l) /\ Prevails(Winner(l, r), r)
<1>1. CASE AtLeast(l, r)
  BY <1>1, PrevailsOverItself DEF Winner, Prevails
<1>2. CASE ~AtLeast(l, r)
  BY <1>2, PrevailsOverItself, AtLeastTotal DEF Winner, Prevails
<1> QED BY <1>1, <1>2

\* A conflict counts the revision on, so the outcome prevails over both sides
\* and has the content of the winner.
LEMMA RestampedPrevails ==
    ASSUME NEW l \in Row, NEW r \in Row, NEW d \in Device
    PROVE  LET m == Restamped(l, r, d)
           IN  /\ m \in Row /\ m.val = Winner(l, r).val
               /\ Prevails(m, l) /\ Prevails(m, r)
<1> DEFINE n == HigherRev(l, r) + 1
<1>1. n \in Nat /\ n > l.rev /\ n > r.rev
  BY RowFields DEF HigherRev
<1>2. Winner(l, r) \in Row
  BY WinnerPrevails
<1>3. Restamped(l, r, d) = Stamped(Winner(l, r), n, d)
  BY DEF Restamped
<1>4. /\ Restamped(l, r, d) \in Row /\ Restamped(l, r, d).rev = n
      /\ Restamped(l, r, d).val = Winner(l, r).val
  BY <1>1, <1>2, <1>3, StampedRow
<1> QED BY <1>1, <1>4, HigherRevisionPrevails

\* Without a tie both sides find the same winner.
LEMMA WinnerSymmetric ==
    ASSUME NEW l \in Row, NEW r \in Row, l.val # r.val => Stamp(l) # Stamp(r)
    PROVE  Winner(l, r).val = Winner(r, l).val
  BY AtLeastTotal DEF Winner

-----------------------------------------------------------------------------
(* One row: the three merges.                                              *)

\* What a merge may make of a row that both sides have.
Settled(m, l, r, d) ==
    m = Restamped(l, r, d) \/ (l.val = r.val /\ m = Winner(l, r))

\* What a merge may make of a row that only one side, x, has.
Kept(m, x, d) == m \in {x, Stamped(x, x.rev + 1, d)}

\* The three merges differ in when they do which.
LEMMA MergeCases ==
    ASSUME NEW b \in Optional, NEW l \in Optional, NEW r \in Optional, NEW d \in Device,
           NEW m \in {MergeSessionRow(b, l, r, d), MergeTunnelRow(b, l, r, d),
                      MergeConversation(l, r, d)}
    PROVE  /\ l # NoRow /\ r # NoRow => Settled(m, l, r, d)
           /\ l # NoRow /\ r = NoRow => Kept(m, l, d) \/ (b # NoRow /\ m = NoRow)
           /\ l = NoRow /\ r # NoRow => m = r \/ (b # NoRow /\ m = NoRow)
           /\ l = NoRow /\ r = NoRow => m = NoRow
<1>1. CASE m = MergeSessionRow(b, l, r, d)
  BY <1>1 DEF MergeSessionRow, BothPresent, LocalOnly, RemoteOnly, Settled, Kept
<1>2. CASE m = MergeTunnelRow(b, l, r, d)
  BY <1>2 DEF MergeTunnelRow, MergeSessionRow, LocalOnly, RemoteOnly, Settled, Kept
<1>3. CASE m = MergeConversation(l, r, d)
  BY <1>3 DEF MergeConversation, Settled, Kept
<1> QED BY <1>1, <1>2, <1>3

\* A row that was settled or kept is a row; it prevails over its origins and
\* has the content of one of them.
LEMMA MergedRow ==
    ASSUME NEW b \in Optional, NEW l \in Optional, NEW r \in Optional, NEW d \in Device,
           NEW m \in {MergeSessionRow(b, l, r, d), MergeTunnelRow(b, l, r, d),
                      MergeConversation(l, r, d)}
    PROVE  MergedPrevails(m, l, r) /\ AdditionsSurvive(m, b, l, r)
<1>1. CASE l # NoRow /\ r # NoRow
  <2> l \in Row /\ r \in Row
    BY <1>1 DEF Optional
  <2>1. Settled(m, l, r, d)
    BY <1>1, MergeCases
  <2>2. m \in Row /\ m.val = Winner(l, r).val /\ Prevails(m, l) /\ Prevails(m, r)
    <3>1. CASE m = Restamped(l, r, d)
      BY <3>1, RestampedPrevails
    <3>2. CASE l.val = r.val /\ m = Winner(l, r)
      BY <3>2, WinnerPrevails
    <3> QED BY <2>1, <3>1, <3>2 DEF Settled
  <2>3. m # NoRow /\ \E x \in {l, r} : m.val = x.val
    BY <2>2, WinnerPrevails, NoRowAssumption
  <2> QED BY <1>1, <2>2, <2>3 DEF MergedPrevails, AdditionsSurvive
<1>2. CASE l # NoRow /\ r = NoRow
  <2> l \in Row
    BY <1>2 DEF Optional
  <2>1. Kept(m, l, d) \/ (b # NoRow /\ m = NoRow)
    BY <1>2, MergeCases
  <2>2. ASSUME Kept(m, l, d)
        PROVE  m \in Row /\ m.val = l.val /\ Prevails(m, l)
    <3>1. l.rev + 1 \in Nat /\ l.rev + 1 > l.rev
      BY RowFields
    <3>2. CASE m = Stamped(l, l.rev + 1, d)
      <4>1. m \in Row /\ m.val = l.val /\ m.rev > l.rev
        BY <3>1, <3>2, StampedRow
      <4> QED BY <4>1, HigherRevisionPrevails
    <3>3. CASE m = l
      BY <3>3, PrevailsOverItself
    <3> QED BY <2>2, <3>2, <3>3 DEF Kept
  <2> QED BY <1>2, <2>1, <2>2, NoRowAssumption DEF MergedPrevails, AdditionsSurvive
<1>3. CASE l = NoRow /\ r # NoRow
  <2> r \in Row
    BY <1>3 DEF Optional
  <2>1. m = r \/ (b # NoRow /\ m = NoRow)
    BY <1>3, MergeCases
  <2> QED BY <1>3, <2>1, PrevailsOverItself DEF MergedPrevails, AdditionsSurvive
<1>4. CASE l = NoRow /\ r = NoRow
  BY <1>4, MergeCases DEF MergedPrevails, AdditionsSurvive
<1> QED BY <1>1, <1>2, <1>3, <1>4

\* Two merges of one conflict, each on its own device.
LEMMA SettledSymmetric ==
    ASSUME NEW l \in Row, NEW r \in Row, NEW d \in Device, NEW e \in Device,
           NEW m, NEW n, Settled(m, l, r, d), Settled(n, r, l, e)
    PROVE  SymmetricUnlessTied(m, n, l, r)
<1>1. /\ m \in Row /\ m.val = Winner(l, r).val
      /\ n \in Row /\ n.val = Winner(r, l).val
  <2>1. ASSUME NEW x \in Row, NEW y \in Row, NEW f \in Device, NEW z, Settled(z, x, y, f)
        PROVE  z \in Row /\ z.val = Winner(x, y).val
    <3>1. CASE z = Restamped(x, y, f)
      BY <3>1, RestampedPrevails
    <3>2. CASE z = Winner(x, y)
      BY <3>2, WinnerPrevails
    <3> QED BY <2>1, <3>1, <3>2 DEF Settled
  <2> QED BY <2>1
<1>2. m # NoRow /\ n # NoRow
  BY <1>1, NoRowAssumption
<1>3. (l.val # r.val => Stamp(l) # Stamp(r)) => Winner(l, r).val = Winner(r, l).val
  BY WinnerSymmetric
<1>4. l # NoRow /\ r # NoRow
  BY NoRowAssumption
<1> QED BY <1>1, <1>2, <1>3, <1>4 DEF SymmetricUnlessTied, SameContent

\* A row that one side deleted or never had: the side that has it keeps it
\* exactly if the side that has not takes it.
LEMMA OneSidedSymmetric ==
    ASSUME NEW b \in Optional, NEW x \in Row, NEW d \in Device
    PROVE  SameContent(LocalOnly(b, x, d), RemoteOnly(b, x))
<1>1. CASE b = NoRow \/ ModifiedSince(x, b)
  <2>1. LocalOnly(b, x, d) \in {x, Stamped(x, x.rev + 1, d)} /\ RemoteOnly(b, x) = x
    BY <1>1 DEF LocalOnly, RemoteOnly
  <2>2. Stamped(x, x.rev + 1, d) \in Row /\ Stamped(x, x.rev + 1, d).val = x.val
    BY RowFields, StampedRow
  <2> QED BY <2>1, <2>2, NoRowAssumption DEF SameContent
<1>2. CASE ~(b = NoRow \/ ModifiedSince(x, b))
  BY <1>2 DEF LocalOnly, RemoteOnly, SameContent
<1> QED BY <1>1, <1>2

\* Each of the three merges, on the device d and with the sides swapped on e.
LEMMA RowMergesSymmetric ==
    ASSUME NEW b \in Optional, NEW l \in Optional, NEW r \in Optional,
           NEW d \in Device, NEW e \in Device
    PROVE  /\ SymmetricUnlessTied(MergeSessionRow(b, l, r, d),
                                  MergeSessionRow(b, r, l, e), l, r)
           /\ SymmetricUnlessTied(MergeTunnelRow(b, l, r, d),
                                  MergeTunnelRow(b, r, l, e), l, r)
           /\ SymmetricUnlessTied(MergeConversation(l, r, d),
                                  MergeConversation(r, l, e), l, r)
<1>1. CASE l # NoRow /\ r # NoRow
  <2> l \in Row /\ r \in Row
    BY <1>1 DEF Optional
  <2>1. /\ Settled(MergeSessionRow(b, l, r, d), l, r, d)
        /\ Settled(MergeTunnelRow(b, l, r, d), l, r, d)
        /\ Settled(MergeConversation(l, r, d), l, r, d)
    BY <1>1, MergeCases
  <2>2. /\ Settled(MergeSessionRow(b, r, l, e), r, l, e)
        /\ Settled(MergeTunnelRow(b, r, l, e), r, l, e)
        /\ Settled(MergeConversation(r, l, e), r, l, e)
    BY <1>1, MergeCases
  <2> QED BY <2>1, <2>2, SettledSymmetric
<1>2. CASE l # NoRow /\ r = NoRow
  <2>1. SameContent(LocalOnly(b, l, d), RemoteOnly(b, l))
    BY <1>2, OneSidedSymmetric DEF Optional
  <2> QED BY <1>2, <2>1 DEF MergeSessionRow, MergeTunnelRow, MergeConversation,
             SymmetricUnlessTied, SameContent
<1>3. CASE l = NoRow /\ r # NoRow
  <2>1. SameContent(LocalOnly(b, r, e), RemoteOnly(b, r))
    BY <1>3, OneSidedSymmetric DEF Optional
  <2> QED BY <1>3, <2>1 DEF MergeSessionRow, MergeTunnelRow, MergeConversation,
             SymmetricUnlessTied, SameContent
<1>4. CASE l = NoRow /\ r = NoRow
  BY <1>4 DEF MergeSessionRow, MergeTunnelRow, MergeConversation, SymmetricUnlessTied,
     SameContent
<1> QED BY <1>1, <1>2, <1>3, <1>4

-----------------------------------------------------------------------------
(* Quick commands.                                                         *)

\* The union of two levels holds what either had, and is a level again.
LEMMA CommandsAreKept ==
    ASSUME NEW l \in Sub, NEW r \in Sub
    PROVE  /\ MergeCommands(l, r) \in Sub
           /\ HoldsCommands(MergeCommands(l, r), l)
           /\ HoldsCommands(MergeCommands(l, r), r)
  BY DEF MergeCommands, PreferLocal, HoldsCommands, Sub

\* A folder that either side has is kept, with the commands of both.
LEMMA FolderIsKept ==
    ASSUME NEW l \in Folders, NEW r \in Folders
    PROVE  LET m == MergeFolder(l, r)
           IN  /\ l # Absent => m # Absent /\ HoldsCommands(m.sub, l.sub)
               /\ r # Absent => m # Absent /\ HoldsCommands(m.sub, r.sub)
<1>1. CASE l # Absent /\ r # Absent
  <2>1. l \in [name : Name, sub : Sub] /\ r \in [name : Name, sub : Sub]
    BY <1>1 DEF Folders
  <2>2. MergeFolder(l, r) = [r EXCEPT !.sub = MergeCommands(l.sub, r.sub)]
    BY <1>1 DEF MergeFolder
  <2>3. MergeFolder(l, r) \in [name : Name, sub : Sub]
        /\ MergeFolder(l, r).sub = MergeCommands(l.sub, r.sub)
    BY <2>1, <2>2, CommandsAreKept
  <2> QED BY <2>1, <2>3, CommandsAreKept, FolderAssumption
<1>2. CASE ~(l # Absent /\ r # Absent)
  BY <1>2 DEF MergeFolder, PreferLocal, HoldsCommands
<1> QED BY <1>1, <1>2

\* A forest that was merged holds both origins.
LEMMA ForestIsKept ==
    ASSUME NEW l \in Forests, NEW r \in Forests
    PROVE  Holds(MergeForest(l, r), l) /\ Holds(MergeForest(l, r), r)
<1> DEFINE m == MergeForest(l, r)
<1>1. /\ l.commands \in Sub /\ r.commands \in Sub
      /\ l.folders \in [Folder -> Folders] /\ r.folders \in [Folder -> Folders]
  BY DEF Forests
<1>2. m.commands = MergeCommands(l.commands, r.commands)
  BY DEF MergeForest
<1>3. \A f \in Folder : m.folders[f] = MergeFolder(l.folders[f], r.folders[f])
  BY <1>1 DEF MergeForest
<1>4. HoldsCommands(m.commands, l.commands) /\ HoldsCommands(m.commands, r.commands)
  BY <1>1, <1>2, CommandsAreKept
<1>5. ASSUME NEW f \in Folder
      PROVE  /\ l.folders[f] # Absent =>
                  m.folders[f] # Absent /\ HoldsCommands(m.folders[f].sub, l.folders[f].sub)
             /\ r.folders[f] # Absent =>
                  m.folders[f] # Absent /\ HoldsCommands(m.folders[f].sub, r.folders[f].sub)
  BY <1>1, <1>3, FolderIsKept
<1> QED BY <1>4, <1>5 DEF Holds

-----------------------------------------------------------------------------
(* The promises.                                                           *)

\* The parts stay of one kind.
LEMMA Typed == Spec => []TypeOK
<1>1. Init => TypeOK
  BY DEF Init, TypeOK
<1>2. TypeOK /\ [Next]_cases => TypeOK'
  BY DEF TypeOK, Next, ChangeHere, ChangeThere, cases, Cases
<1> QED BY <1>1, <1>2, PTL DEF Spec

\* A part of the kind "row" is a row or none.
LEMMA RowsAreOptional ==
    TypeOK /\ part = "row" => base \in Optional /\ local \in Optional /\ other \in Optional
<1>1. Rows \subseteq Optional
  BY RangeAssumption DEF Rows, Optional, Row
<1>2. TypeOK /\ part = "row" => base \in Rows /\ local \in Rows /\ other \in Rows
  BY DEF TypeOK, Cases
<1> QED BY <1>1, <1>2

\* For every base, both sides and device: a row that was merged prevails over
\* the rows it was merged from, so that no device that still holds one of
\* them brings its content back in a later merge.
THEOREM MergeDominates == Spec => []MergesPrevail
<1>1. TypeOK => MergesPrevail
  BY RowsAreOptional, MergedRow DEF MergesPrevail, MergedRows
<1> QED BY <1>1, Typed, PTL

\* For every pair of devices and rows: without a tie of the stamps the result
\* of a conflict does not depend on the device that merges.
THEOREM MergeIsSymmetric == Spec => []MergesSymmetric
<1>1. TypeOK => MergesSymmetric
  BY RowsAreOptional, RowMergesSymmetric DEF MergesSymmetric
<1> QED BY <1>1, Typed, PTL

\* What either device added to its rows, commands and folders is still there
\* after the merge, and no row has a content that neither device wrote.
THEOREM AdditionsAreKept == Spec => []NothingAddedIsLost
<1>1. TypeOK /\ part = "row" =>
        \A d \in Device : \A m \in MergedRows(d) : AdditionsSurvive(m, base, local, other)
  BY RowsAreOptional, MergedRow DEF MergedRows
<1>2. TypeOK /\ part = "forest" => local \in Forests /\ other \in Forests
  BY DEF TypeOK, Cases
<1>3. TypeOK => NothingAddedIsLost
  BY <1>1, <1>2, ForestIsKept DEF NothingAddedIsLost
<1> QED BY <1>3, Typed, PTL

\* A field that only one side touched ends up as that side left it, and one
\* that a side changed outlives its deletion by the other, whatever it holds,
\* a JSON null included.
THEOREM FieldsMergeThreeWay == Spec => []FieldChangesSurvive
<1>1. TypeOK => FieldChangesSurvive
  BY ValueAssumption DEF FieldChangesSurvive, TypeOK, Cases, Slot, MergeField, MergeLeaf,
     KeepIfChanged, MergeOpaqueFile
<1> QED BY <1>1, Typed, PTL

\* An execution count only grows in a merge, and stops at the largest number.
THEOREM CountsGrow == Spec => []CountNeverFalls
<1>1. TypeOK => CountNeverFalls
  BY MaxCountAssumption DEF CountNeverFalls, TypeOK, Cases, MergeCount, Saturate
<1> QED BY <1>1, Typed, PTL

=============================================================================
