---------------------------- MODULE StoreProofs ----------------------------
(***************************************************************************)
(* Theorems about Store, for all constants that meet its assumptions; with *)
(* Positions = Int and Times = Nat, for the unbounded store.  IInv is the  *)
(* inductive invariant: the schema's promises, and that the tables are     *)
(* finite, without which neither MAX(position) nor row_number() means      *)
(* anything.  The last two sections are about Reorder's drops, in every    *)
(* state Store reaches; there the times are those Radix prints.            *)
(***************************************************************************)
EXTENDS Reorder, PositionProofs

IInv ==
  /\ TypeOK
  /\ IsFiniteSet(DOMAIN items) /\ IsFiniteSet(DOMAIN lists)
  /\ SchemaOK

-----------------------------------------------------------------------------
\* The inductive invariant

LEMMA IInvIsTablesOK ==
  IInv <=> /\ TablesOK(items, lists)
           /\ IsTable(lists, ListId, ListRow) /\ IsFiniteSet(DOMAIN lists)
           /\ DOMAIN lists # {}
BY DEF IInv, TypeOK, SchemaOK, TablesOK, Sane, NoOrphans, NamesUnique,
       NotesUnchecked, SomeListLeft

\* A new list, or a renamed one, keeps the table of lists in its type.
LEMMA ListRowWritten ==
  ASSUME NEW table, IsTable(table, ListId, ListRow), IsFiniteSet(DOMAIN table),
         NEW l \in ListId, NEW row \in ListRow
  PROVE  /\ IsTable(With(table, l, row), ListId, ListRow)
         /\ DOMAIN With(table, l, row) = DOMAIN table \cup {l}
         /\ IsFiniteSet(DOMAIN table \cup {l})
<1>1. IsFiniteSet(DOMAIN table \cup {l})
  BY FS_AddElement
<1> QED BY <1>1 DEF IsTable, With

LEMMA InitIInv == Init => IInv
<1> SUFFICES ASSUME Init PROVE IInv
  OBVIOUS
<1>1. PICK l \in ListId, n \in ListName :
        lists = [k \in {l} |-> [name |-> n, born |-> 1]]
  BY DEF Init
<1>2. DOMAIN items = {} /\ DOMAIN lists = {l}
  BY <1>1 DEF Init
<1>3. IsFiniteSet(DOMAIN items) /\ IsFiniteSet(DOMAIN lists)
  <2>1. IsFiniteSet({}) /\ IsFiniteSet({l})
    BY FS_EmptySet, FS_Singleton
  <2> QED BY <1>2, <2>1
<1>4. IsTable(items, ItemId, ItemRow)
  BY <1>2 DEF Init, IsTable
<1>5. IsTable(lists, ListId, ListRow)
  BY <1>1 DEF IsTable, ListRow
<1> QED BY <1>2, <1>3, <1>4, <1>5
        DEF IInv, TypeOK, SchemaOK, NoOrphans, NamesUnique, NotesUnchecked, SomeListLeft

LEMMA NextIInv == IInv /\ [Next]_vars => IInv'
<1> SUFFICES ASSUME IInv, [Next]_vars PROVE IInv'
  OBVIOUS
<1>1. /\ TablesOK(items, lists)
      /\ IsTable(lists, ListId, ListRow) /\ IsFiniteSet(DOMAIN lists)
      /\ DOMAIN lists # {}
  BY IInvIsTablesOK
<1>2. SUFFICES /\ TablesOK(items', lists')
               /\ IsTable(lists', ListId, ListRow) /\ IsFiniteSet(DOMAIN lists')
               /\ DOMAIN lists' # {}
  BY DEF IInv, TypeOK, SchemaOK, TablesOK, Sane, NoOrphans, NamesUnique,
         NotesUnchecked, SomeListLeft
<1>3. ASSUME NEW l \in ListId, NEW n \in Name, NEW i \in ItemId, PostItem(l, n, i)
      PROVE  TablesOK(items', lists') /\ lists' = lists
  BY <1>1, <1>3, CreateOrReviveKeepsSchema DEF PostItem
<1>4. ASSUME NEW l \in ListId, NEW i \in ItemId, NEW p \in Patch, PatchItem(l, i, p)
      PROVE  TablesOK(items', lists') /\ lists' = lists
  BY <1>1, <1>4, UpdateItemKeepsSchema, StoreAssumption DEF PatchItem
<1>5. ASSUME NEW l \in ListId, NEW i \in ItemId, RemoveItem(l, i)
      PROVE  TablesOK(items', lists') /\ lists' = lists
  <2>1. lists' = lists
    BY <1>5 DEF RemoveItem
  <2>2. \A X : TablesOK(Without(items, X), lists)
    BY <1>1, RemoveKeepsSchema DEF TablesOK
  <2>3. items' = items \/ items' = Without(items, {i})
    BY <1>5 DEF RemoveItem, DeleteItem
  <2> QED BY <1>1, <2>1, <2>2, <2>3
<1>6. ASSUME NEW n \in ListName, NEW l \in ListId, PostList(n, l)
      PROVE  /\ TablesOK(items', lists')
             /\ IsTable(lists', ListId, ListRow) /\ IsFiniteSet(DOMAIN lists')
             /\ DOMAIN lists' # {}
  <2> DEFINE row == [name |-> n, born |-> Now(lists)]
  <2>1. \A k \in DOMAIN lists : lists[k].born \in Nat
    BY <1>1 DEF IsTable, ListRow
  <2>2. row \in ListRow
    BY <1>1, <2>1, NowIsLater DEF ListRow
  <2>3. lists' = lists \/ lists' = With(lists, l, row)
    BY <1>6 DEF PostList, CreateList
  <2> HIDE DEF row
  <2>4. CASE lists' = With(lists, l, row)
    <3>1. /\ IsTable(lists', ListId, ListRow)
          /\ DOMAIN lists' = DOMAIN lists \cup {l}
          /\ IsFiniteSet(DOMAIN lists \cup {l})
      BY <1>1, <2>2, <2>4, ListRowWritten
    <3>2. items' = items
      BY <1>6 DEF PostList
    <3> QED BY <1>1, <3>1, <3>2 DEF TablesOK
  <2>5. CASE lists' = lists
    BY <1>1, <1>6, <2>5 DEF PostList
  <2> QED BY <2>3, <2>4, <2>5
<1>7. ASSUME NEW l \in ListId, NEW n \in ListName, PatchList(l, n)
      PROVE  /\ TablesOK(items', lists')
             /\ IsTable(lists', ListId, ListRow) /\ DOMAIN lists' = DOMAIN lists
  <2>1. IsTable(lists', ListId, ListRow) /\ DOMAIN lists' = DOMAIN lists
    BY <1>1, <1>7 DEF PatchList, RenameList, IsTable, ListRow
  <2>2. items' = items
    BY <1>7 DEF PatchList
  <2> QED BY <1>1, <2>1, <2>2 DEF TablesOK
<1>8. ASSUME NEW l \in ListId, RemoveList(l)
      PROVE  /\ TablesOK(items', lists')
             /\ IsTable(lists', ListId, ListRow) /\ IsFiniteSet(DOMAIN lists')
             /\ DOMAIN lists' # {}
  <2>1. CASE items' = items /\ lists' = lists
    BY <1>1, <2>1
  <2>2. CASE /\ l \in DOMAIN lists /\ ~(Cardinality(DOMAIN lists) <= 1)
             /\ items' = Without(items, ItemsOf(items, l))
             /\ lists' = Without(lists, {l})
    <3>1. DOMAIN lists' = DOMAIN lists \ {l} /\ IsTable(lists', ListId, ListRow)
      BY <1>1, <2>2 DEF Without, IsTable
    <3>2. TablesOK(items', lists')
      <4>1. \A i \in DOMAIN items \ ItemsOf(items, l) : items[i].list \in DOMAIN lists'
        BY <1>1, <3>1 DEF TablesOK, ItemsOf
      <4> QED BY <1>1, <2>2, <4>1, RemoveKeepsSchema
    <3>3. IsFiniteSet(DOMAIN lists')
      BY <1>1, <3>1, FS_RemoveElement
    <3>4. DOMAIN lists' # {}
      <4>1. Cardinality(DOMAIN lists \ {l}) = Cardinality(DOMAIN lists) - 1
        BY <1>1, <2>2, FS_RemoveElement
      <4>2. Cardinality(DOMAIN lists) \in Nat
        BY <1>1, FS_CardinalityType
      <4>3. Cardinality({}) = 0
        BY FS_EmptySet
      <4> QED BY <2>2, <3>1, <4>1, <4>2, <4>3
    <3> QED BY <3>1, <3>2, <3>3, <3>4
  <2> QED BY <1>8, <2>1, <2>2 DEF RemoveList, DeleteList
<1>9. CASE UNCHANGED vars
  BY <1>1, <1>9 DEF vars
<1> QED
  <2>1. CASE Request
    BY <1>1, <1>3, <1>4, <1>5, <1>6, <1>7, <1>8, <2>1 DEF Request
  <2> QED BY <1>9, <2>1 DEF Next

\* The tables keep their types, for every number of items, lists and names and
\* every sequence of requests.
THEOREM TypeCorrect == Spec => []TypeOK
<1>1. IInv => TypeOK
  BY DEF IInv
<1> QED BY <1>1, InitIInv, NextIInv, PTL DEF Spec

\* No item is orphaned, no two items of a list share a name, no note is checked
\* and some list is left, whatever requests came in what order.
THEOREM SchemaHolds == Spec => []SchemaOK
<1>1. IInv => SchemaOK
  BY DEF IInv
<1> QED BY <1>1, InitIInv, NextIInv, PTL DEF Spec

\* A PATCH that does not name one row as both neighbours never fails with an
\* internal error, whatever positions the table has come to hold.
THEOREM NeverInternal == Spec => []UpdateNeverInternal
<1>1. IInv => UpdateNeverInternal
  <2> SUFFICES ASSUME IInv, NEW i \in DOMAIN items, NEW p \in Patch,
                      p.reorder # Nil =>
                        p.reorder.after = Nil \/ p.reorder.after # p.reorder.before
               PROVE  UpdateItem(items, items[i].list, i, p).err # "internal"
    BY DEF UpdateNeverInternal
  <2>1. Sane(items)
    BY DEF IInv, TypeOK, Sane
  <2>2. p.reorder # Nil =>
          ComputePosition(items, items[i].list, i, p.reorder).err # "internal"
    BY <2>1, ComputePositionNeverInternal
  <2>3. \A pos \in Int : NoteNotChecked(PatchedRow(items[i], p, pos))
    <3>1. /\ Given(p.note, items[i].note) \in BOOLEAN
          /\ items[i] \in ItemRow
      BY <2>1, SaneRows, RowAssumption, StoreAssumption DEF Given, Patches
    <3> QED BY <3>1 DEF PatchedRow, NoteNotChecked, ItemRow
  <2>4. /\ items[i].pos \in Int
        /\ p.reorder # Nil =>
             ComputePosition(items, items[i].list, i, p.reorder).pos \in Int
    BY <2>1, SaneRows, ComputePositionAnswer
  <2> QED BY <2>2, <2>3, <2>4 DEF UpdateItem
<1> QED BY <1>1, InitIInv, NextIInv, PTL DEF Spec

\* A new item lands below every item of its list, whatever slots checked items
\* and notes retain.
THEOREM NewItemsGoLast == Spec => []NewItemLast
<1>1. IInv => NewItemLast
  <2> SUFFICES ASSUME IInv,
                      NEW l \in DOMAIN lists, NEW n \in Name, NEW i \in ItemId,
                      i \notin DOMAIN items,
                      CreateOrRevive(items, lists, l, n, i).row = i,
                      NEW j \in ItemsOf(items, l)
               PROVE  SlotBefore(CreateOrRevive(items, lists, l, n, i).items, j, i)
    BY DEF NewItemLast
  <2>1. Sane(items) /\ l \in ListId
    BY DEF IInv, TypeOK, Sane, IsTable
  <2> DEFINE row == NewItem(items, l, n)
  <2>2. CreateOrRevive(items, lists, l, n, i).items = With(items, i, row)
    <3>1. Nil # i
      BY RowAssumption, StoreAssumption
    <3>2. Holders(items, l, n) = {}
      BY DEF CreateOrRevive, Holders, ItemsOf
    <3> QED BY <3>1, <3>2 DEF CreateOrRevive
  <2>3. j \in DOMAIN items /\ j # i /\ items[j].pos \in Int
    BY <2>1, SaneRows DEF ItemsOf
  <2>4. row \in ItemRow /\ items[j].pos < row.pos
    <3>1. row.pos = MaxPosition(items, l) + PositionGap
      BY DEF NewItem
    <3>2. items[j].pos <= MaxPosition(items, l) /\ MaxPosition(items, l) \in Int
      BY <2>1, MaxPositionBounds
    <3>3. row \in ItemRow
      BY <2>1, NewItemType
    <3> HIDE DEF row
    <3> QED BY <2>3, <3>1, <3>2, <3>3, GapAssumption
  <2> HIDE DEF row
  <2>5. With(items, i, row)[i] = row /\ With(items, i, row)[j] = items[j]
    BY <2>3 DEF With
  <2> QED BY <2>2, <2>4, <2>5 DEF SlotBefore
<1> QED BY <1>1, InitIInv, NextIInv, PTL DEF Spec

-----------------------------------------------------------------------------
\* What a step does to the items

\* A step leaves the items, removes items of one list, or writes one row over
\* the table or over a renormalization of the row's list.
LEMMA StepShape ==
  ASSUME IInv, Next
  PROVE  \E l \in ListId :
           \/ items' = items
           \/ \E X \in SUBSET ItemsOf(items, l) : items' = Without(items, X)
           \/ \E base \in {items, Renormalize(items, l)}, i \in ItemId, row \in ItemRow :
                /\ items' = With(base, i, row)
                /\ row.list = l
                /\ i \in DOMAIN items => items[i].list = l
<1> DEFINE Shape(l) ==
      \/ items' = items
      \/ \E X \in SUBSET ItemsOf(items, l) : items' = Without(items, X)
      \/ \E base \in {items, Renormalize(items, l)}, i \in ItemId, row \in ItemRow :
           /\ items' = With(base, i, row)
           /\ row.list = l
           /\ i \in DOMAIN items => items[i].list = l
<1>1. Sane(items)
  BY DEF IInv, TypeOK, Sane
<1>2. DOMAIN items \subseteq ItemId
  BY DEF IInv, TypeOK, IsTable
<1>3. ASSUME NEW l \in ListId, NEW n \in Name, NEW i \in ItemId, PostItem(l, n, i)
      PROVE  Shape(l)
  <2>1. CASE items' = With(items, i, NewItem(items, l, n)) /\ i \notin DOMAIN items
    <3>1. NewItem(items, l, n) \in ItemRow /\ NewItem(items, l, n).list = l
      BY <1>1, NewItemType DEF NewItem
    <3> QED BY <2>1, <3>1
  <2>2. ASSUME NEW j \in Holders(items, l, n), items' = With(items, j, Revived(items[j]))
        PROVE  Shape(l)
    <3>1. j \in DOMAIN items /\ items[j].list = l /\ j \in ItemId
      BY <1>2, <2>2 DEF Holders, ItemsOf
    <3>2. Revived(items[j]) \in ItemRow /\ Revived(items[j]).list = l
      BY <1>1, <3>1, RevivedRow
    <3> QED BY <2>2, <3>1, <3>2
  <2>3. \/ items' = items
        \/ \E j \in Holders(items, l, n) : items' = With(items, j, Revived(items[j]))
        \/ items' = With(items, i, NewItem(items, l, n)) /\ i \notin DOMAIN items
    <3>1. items' = CreateOrRevive(items, lists, l, n, i).items
      BY <1>3 DEF PostItem
    <3> DEFINE new == CreateOrRevive(items, lists, l, n, i).items
    <3>2. \/ new = items
          \/ \E j \in Holders(items, l, n) : new = With(items, j, Revived(items[j]))
          \/ new = With(items, i, NewItem(items, l, n)) /\ i \notin DOMAIN items
      BY DEF CreateOrRevive
    <3> QED BY <3>1, <3>2
  <2> QED BY <2>1, <2>2, <2>3
<1>4. ASSUME NEW l \in ListId, NEW i \in ItemId, NEW p \in Patch, PatchItem(l, i, p)
      PROVE  Shape(l)
  <2>1. items' = UpdateItem(items, l, i, p).items
    BY <1>4 DEF PatchItem
  <2>2. InList(items, l, i) => items[i].list = l
    BY DEF InList, ItemsOf
  <2> QED BY <1>1, <2>1, <2>2, UpdateItemCases, StoreAssumption
<1>5. ASSUME NEW l \in ListId, NEW i \in ItemId, RemoveItem(l, i)
      PROVE  Shape(l)
  <2>1. items' = items \/ (items' = Without(items, {i}) /\ i \in ItemsOf(items, l))
    BY <1>5 DEF RemoveItem, DeleteItem, InList
  <2> QED BY <2>1
<1>6. ASSUME NEW l \in ListId, RemoveList(l)
      PROVE  Shape(l)
  <2>1. items' = items \/ items' = Without(items, ItemsOf(items, l))
    BY <1>6 DEF RemoveList, DeleteList
  <2> QED BY <2>1
<1>7. ASSUME NEW l \in ListId, NEW n \in ListName, PostList(n, l) \/ PatchList(l, n)
      PROVE  Shape(l)
  BY <1>7 DEF PostList, PatchList
<1> QED BY <1>3, <1>4, <1>5, <1>6, <1>7 DEF Next, Request

\* A step on one list leaves every row of the others as it was.
THEOREM ListsAreIsolated == Spec => ListIsolation
<1> DEFINE Isolated(l) ==
      \A i \in DOMAIN items \cup DOMAIN items' :
        \/ /\ i \in DOMAIN items /\ i \in DOMAIN items'
           /\ items'[i] = items[i]
        \/ /\ i \in DOMAIN items => items[i].list = l
           /\ i \in DOMAIN items' => items'[i].list = l
<1>1. ASSUME IInv, Next PROVE \E l \in ListId : Isolated(l)
  <2>1. Sane(items)
    BY <1>1 DEF IInv, TypeOK, Sane
  <2>2. PICK l \in ListId :
           \/ items' = items
           \/ \E X \in SUBSET ItemsOf(items, l) : items' = Without(items, X)
           \/ \E base \in {items, Renormalize(items, l)}, i \in ItemId, row \in ItemRow :
                /\ items' = With(base, i, row)
                /\ row.list = l
                /\ i \in DOMAIN items => items[i].list = l
    BY <1>1, StepShape
  <2>3. CASE items' = items
    BY <2>3
  <2>4. ASSUME NEW X \in SUBSET ItemsOf(items, l), items' = Without(items, X)
        PROVE  Isolated(l)
    BY <2>4 DEF Without, ItemsOf
  <2>5. ASSUME NEW base \in {items, Renormalize(items, l)},
               NEW i \in ItemId, NEW row \in ItemRow,
               items' = With(base, i, row), row.list = l,
               i \in DOMAIN items => items[i].list = l
        PROVE  Isolated(l)
    <3>1. /\ DOMAIN base = DOMAIN items
          /\ \A j \in DOMAIN items : base[j].list = items[j].list
          /\ \A j \in DOMAIN items \ ItemsOf(items, l) : base[j] = items[j]
      BY <2>1, RenormalizeFields
    <3>2. /\ DOMAIN items' = DOMAIN items \cup {i}
          /\ items'[i] = row
          /\ \A j \in DOMAIN items \ {i} : items'[j] = base[j]
      BY <2>5, <3>1 DEF With
    <3> QED BY <2>5, <3>1, <3>2 DEF ItemsOf
  <2> QED BY <2>2, <2>3, <2>4, <2>5
<1>2. IInv /\ [Next]_vars => [\E l \in ListId : Isolated(l)]_vars
  BY <1>1
<1> QED BY <1>2, InitIInv, NextIInv, PTL DEF Spec, ListIsolation

\* A step moves one row at most: the order of the others is kept among the rows
\* of equal status, for every table a renormalization may rewrite.
THEOREM SectionOrderIsKept == Spec => SectionOrderKept
<1> DEFINE Kept(m) ==
      \A i, j \in Bystanders(m) :
        items[i].list = items[j].list /\ items[i].checked = items[j].checked
          => (SlotBefore(items, i, j) <=> SlotBefore(items', i, j))
<1>1. ASSUME IInv, Next PROVE \E m \in ItemId \cup {Nil} : Kept(m)
  <2>1. Sane(items)
    BY <1>1 DEF IInv, TypeOK, Sane
  <2>2. PICK l \in ListId :
           \/ items' = items
           \/ \E X \in SUBSET ItemsOf(items, l) : items' = Without(items, X)
           \/ \E base \in {items, Renormalize(items, l)}, i \in ItemId, row \in ItemRow :
                /\ items' = With(base, i, row)
                /\ row.list = l
                /\ i \in DOMAIN items => items[i].list = l
    BY <1>1, StepShape
  <2>3. CASE items' = items
    <3>1. Kept(Nil)
      BY <2>3
    <3> QED BY <3>1
  <2>4. ASSUME NEW X \in SUBSET ItemsOf(items, l), items' = Without(items, X)
        PROVE  Kept(Nil)
    BY <2>4 DEF Without, Bystanders, SlotBefore
  <2>5. ASSUME NEW base \in {items, Renormalize(items, l)},
               NEW m \in ItemId, NEW row \in ItemRow,
               items' = With(base, m, row)
        PROVE  Kept(m)
    <3> SUFFICES ASSUME NEW i \in Bystanders(m), NEW j \in Bystanders(m),
                        items[i].list = items[j].list,
                        items[i].checked = items[j].checked
                 PROVE  SlotBefore(items, i, j) <=> SlotBefore(items', i, j)
      OBVIOUS
    <3>1. i \in DOMAIN items /\ j \in DOMAIN items /\ i # m /\ j # m
      BY DEF Bystanders
    <3>2. items'[i] = base[i] /\ items'[j] = base[j]
      <4>1. DOMAIN base = DOMAIN items
        BY <2>1, RenormalizeFields
      <4> QED BY <2>5, <3>1, <4>1 DEF With
    <3>3. SlotBefore(items', i, j) <=> SlotBefore(base, i, j)
      BY <3>2 DEF SlotBefore
    <3>4. CASE base = items
      BY <3>3, <3>4
    <3>5. CASE base = Renormalize(items, l) /\ items[i].list # l
      <4>1. base[i] = items[i] /\ base[j] = items[j]
        BY <2>1, <3>1, <3>5 DEF Renormalize
      <4> QED BY <3>3, <4>1 DEF SlotBefore
    <3>6. CASE base = Renormalize(items, l) /\ items[i].list = l
      <4>1. i \in ItemsOf(items, l) /\ j \in ItemsOf(items, l)
        BY <3>1, <3>6 DEF ItemsOf
      <4>2. SlotBefore(items, i, j) <=> SlotBefore(Renormalize(items, l), i, j)
        BY <2>1, <4>1, RenormalizeKeepsOrder
      <4> QED BY <3>3, <3>6, <4>2
    <3> QED BY <3>4, <3>5, <3>6
  <2> QED BY <2>2, <2>3, <2>4, <2>5
<1>2. IInv /\ [Next]_vars => [\E m \in ItemId \cup {Nil} : Kept(m)]_vars
  BY <1>1
<1> QED BY <1>2, InitIInv, NextIInv, PTL DEF Spec, SectionOrderKept

-----------------------------------------------------------------------------
\* Where a dropped row lands

\* A position computed for a drop location separates the rows above from those
\* below.
LEMMA TrySeparates ==
  ASSUME NEW table, Sane(table), NEW l, NEW m, NEW t,
         DropLocation(table, l, m, t),
         TryComputePosition(table, l, m, t).err = "none",
         NEW k \in Section(table, l) \ {m}
  PROVE  LET pos == TryComputePosition(table, l, m, t).pos
         IN  IF AtOrAbove(table, k, t) THEN table[k].pos < pos ELSE pos < table[k].pos
<1> DEFINE others == Section(table, l) \ {m}
           a == t.after
           b == t.before
           pos == TryComputePosition(table, l, m, t).pos
<1>1. \A j \in others : /\ j \in DOMAIN table /\ j \in Nat /\ j # Nil
                        /\ table[j].pos \in Int /\ table[j].born \in Nat
  <2>1. others \subseteq DOMAIN table
    BY DEF Section, ItemsOf
  <2>2. DOMAIN table \subseteq ItemId
    BY DEF Sane, IsTable
  <2> QED BY <2>1, <2>2, SaneRows, RowAssumption, StoreAssumption
<1>2. /\ a # Nil => a \in others
      /\ b # Nil => b \in others
      /\ \A j \in others :
           \/ /\ AtOrAbove(table, j, t)
              /\ ~(j = b \/ (b # Nil /\ SlotBefore(table, b, j)))
           \/ /\ ~AtOrAbove(table, j, t)
              /\ j = b \/ (b # Nil /\ SlotBefore(table, b, j))
  BY DEF DropLocation, AtOrBelow
<1>3. \A j \in others :
        /\ AtOrAbove(table, j, t) => a # Nil /\ table[j].pos <= table[a].pos
        /\ ~AtOrAbove(table, j, t) => b # Nil /\ table[b].pos <= table[j].pos
  BY <1>1, <1>2 DEF AtOrAbove, SlotBefore
<1>4. ASSUME a # Nil PROVE table[a].pos < pos
  <2>1. CASE b = Nil
    BY <1>1, <1>2, <1>4, <2>1, GapAssumption DEF TryComputePosition
  <2>2. CASE b # Nil
    <3>1. ~AtOrAbove(table, b, t)
      BY <1>2, <2>2
    <3>2. table[a].pos <= table[b].pos
      BY <1>1, <1>2, <1>4, <2>2, <3>1 DEF AtOrAbove, SlotBefore
    <3>3. /\ pos = Midpoint(table[a].pos, table[b].pos)
          /\ ~TooClose(pos, table[a].pos) /\ ~TooClose(pos, table[b].pos)
      BY <1>4, <2>2 DEF TryComputePosition
    <3> QED BY <1>1, <1>2, <1>4, <2>2, <3>2, <3>3, MidpointBetween
  <2> QED BY <2>1, <2>2
<1>5. ASSUME b # Nil PROVE pos < table[b].pos
  <2>1. CASE a = Nil
    BY <1>1, <1>2, <1>5, <2>1, GapAssumption DEF TryComputePosition
  <2>2. CASE a # Nil
    <3>1. ~AtOrAbove(table, b, t)
      BY <1>2, <1>5
    <3>2. table[a].pos <= table[b].pos
      BY <1>1, <1>2, <1>5, <2>2, <3>1 DEF AtOrAbove, SlotBefore
    <3>3. /\ pos = Midpoint(table[a].pos, table[b].pos)
          /\ ~TooClose(pos, table[a].pos) /\ ~TooClose(pos, table[b].pos)
      BY <1>5, <2>2 DEF TryComputePosition
    <3> QED BY <1>1, <1>2, <1>5, <2>2, <3>2, <3>3, MidpointBetween
  <2> QED BY <2>1, <2>2
<1>6. pos \in Int
  BY TryComputePositionType
<1> HIDE DEF pos
<1> QED BY <1>1, <1>2, <1>3, <1>4, <1>5, <1>6 DEF pos

\* A renormalization changes neither the section of a list nor what is a drop
\* location in it.
LEMMA DropLocationKept ==
  ASSUME NEW table, Sane(table), NEW l, NEW m, NEW t, DropLocation(table, l, m, t)
  PROVE  LET new == Renormalize(table, l)
         IN  /\ Section(new, l) = Section(table, l)
             /\ DropLocation(new, l, m, t)
             /\ \A k \in Section(table, l) \ {m} :
                  AtOrAbove(new, k, t) <=> AtOrAbove(table, k, t)
<1> DEFINE new == Renormalize(table, l)
           others == Section(table, l) \ {m}
<1>1. Section(new, l) = Section(table, l)
  <2>1. /\ DOMAIN new = DOMAIN table /\ ItemsOf(new, l) = ItemsOf(table, l)
        /\ \A i \in DOMAIN table : /\ new[i].checked = table[i].checked
                                   /\ new[i].note = table[i].note
    BY RenormalizeFields
  <2> HIDE DEF new
  <2> QED BY <2>1 DEF Section, ItemsOf
<1>2. \A j, k \in others : SlotBefore(new, j, k) <=> SlotBefore(table, j, k)
  <2>1. \A j \in others : j \in ItemsOf(table, l) /\ table[j].checked = FALSE
    BY SaneRows DEF Section, ItemsOf
  <2> QED BY <2>1, RenormalizeKeepsOrder
<1>3. {t.after, t.before} \ {Nil} \subseteq others
  BY DEF DropLocation
<1> HIDE DEF new
<1>4. \A k \in others : /\ AtOrAbove(new, k, t) <=> AtOrAbove(table, k, t)
                        /\ AtOrBelow(new, k, t) <=> AtOrBelow(table, k, t)
  BY <1>2, <1>3 DEF AtOrAbove, AtOrBelow
<1>5. DropLocation(new, l, m, t)
  BY <1>1, <1>4 DEF DropLocation
<1> QED BY <1>1, <1>4, <1>5 DEF new

\* computePosition answers every drop location with a position that separates
\* the rows above from those below, in the table it leaves.
LEMMA ComputeSeparates ==
  ASSUME NEW table, Sane(table), NEW l, NEW m \in Section(table, l), NEW t,
         DropLocation(table, l, m, t)
  PROVE  LET c == ComputePosition(table, l, m, t)
         IN  /\ c.err = "none"
             /\ \A k \in Section(table, l) \ {m} :
                  IF AtOrAbove(table, k, t) THEN c.items[k].pos < c.pos
                                            ELSE c.pos < c.items[k].pos
<1> DEFINE new == Renormalize(table, l)
           c == ComputePosition(table, l, m, t)
<1>1. Sane(new) /\ ItemsOf(new, l) = ItemsOf(table, l)
  BY RenormalizeFields
<1>2. /\ Section(new, l) = Section(table, l)
      /\ DropLocation(new, l, m, t)
      /\ \A k \in Section(table, l) \ {m} : AtOrAbove(new, k, t) <=> AtOrAbove(table, k, t)
  BY DropLocationKept
<1>3. \A n \in Named(m, t) : InList(table, l, n) /\ InList(new, l, n)
  <2>1. Named(m, t) \subseteq Section(table, l)
    BY DEF Named, DropLocation
  <2> HIDE DEF new
  <2> QED BY <1>1, <2>1 DEF InList, Section
<1>4. t.after = Nil \/ t.after # t.before
  BY DEF DropLocation, AtOrAbove, AtOrBelow
<1>5. /\ TryComputePosition(table, l, m, t).err \in {"none", "exhausted"}
      /\ TryComputePosition(new, l, m, t).err \in {"none", "exhausted"}
  BY <1>3 DEF TryComputePosition
<1>6. TryComputePosition(new, l, m, t).err = "none"
  BY <1>4, <1>5, RenormalizeMakesRoom
<1>7. CASE TryComputePosition(table, l, m, t).err = "none"
  <2>1. /\ c.err = "none" /\ c.items = table
        /\ c.pos = TryComputePosition(table, l, m, t).pos
    BY <1>7 DEF ComputePosition
  <2> QED BY <1>7, <2>1, TrySeparates
<1>8. CASE TryComputePosition(table, l, m, t).err = "exhausted"
  <2>1. /\ c.err = "none" /\ c.items = new
        /\ c.pos = TryComputePosition(new, l, m, t).pos
    BY <1>6, <1>8 DEF ComputePosition
  <2>2. \A k \in Section(new, l) \ {m} :
          IF AtOrAbove(new, k, t) THEN new[k].pos < c.pos ELSE c.pos < new[k].pos
    <3> HIDE DEF new
    <3> QED BY <1>1, <1>2, <1>6, <2>1, TrySeparates
  <2> HIDE DEF new, c
  <2>3. c.err = "none" /\ \A k \in Section(table, l) \ {m} :
          IF AtOrAbove(table, k, t) THEN c.items[k].pos < c.pos
                                    ELSE c.pos < c.items[k].pos
    BY <1>2, <2>1, <2>2
  <2> QED BY <2>3 DEF c
<1> QED BY <1>5, <1>7, <1>8

\* The body of a drop names neighbours and nothing else.
Body(t) == [name |-> Nil, checked |-> Nil, note |-> Nil, reorder |-> t]

\* Such a reorder is answered, separates the rows above its place from those
\* below, and keeps the others in their order.
LEMMA DropAnswered ==
  ASSUME IInv, NEW l, NEW m \in Section(items, l), NEW t, t # Nil,
         DropLocation(items, l, m, t)
  PROVE  LET r == UpdateItem(items, l, m, Body(t))
             S == Section(items, l)
         IN  /\ r.err = "none"
             /\ Sane(r.items) /\ Section(r.items, l) = S
             /\ \A k \in S \ {m} : IF AtOrAbove(items, k, t)
                                   THEN SlotBefore(r.items, k, m)
                                   ELSE SlotBefore(r.items, m, k)
             /\ \A j, k \in S \ {m} : SlotBefore(r.items, j, k) <=> SlotBefore(items, j, k)
<1> DEFINE p == Body(t)
           S == Section(items, l)
           c == ComputePosition(items, l, m, t)
           row == PatchedRow(items[m], p, c.pos)
           r == UpdateItem(items, l, m, p)
<1>1. Sane(items) /\ m \in ItemsOf(items, l) /\ m \in DOMAIN items /\ items[m].list = l
  BY DEF IInv, TypeOK, Sane, Section, ItemsOf
<1>2. /\ c.err = "none"
      /\ \A k \in S \ {m} : IF AtOrAbove(items, k, t) THEN c.items[k].pos < c.pos
                                                      ELSE c.pos < c.items[k].pos
  BY <1>1, ComputeSeparates
<1>3. c.pos \in Int /\ c.items \in {items, Renormalize(items, l)}
  BY <1>1, ComputePositionAnswer
<1> HIDE DEF c
<1>4. /\ Sane(c.items) /\ DOMAIN c.items = DOMAIN items
      /\ \A i \in DOMAIN items : /\ c.items[i].list = items[i].list
                                 /\ c.items[i].checked = items[i].checked
                                 /\ c.items[i].note = items[i].note
  BY <1>1, <1>3, RenormalizeFields
<1>5. items[m] \in ItemRow /\ ~items[m].checked /\ ~items[m].note
  BY <1>1, SaneRows DEF Section
<1>6. /\ row \in ItemRow /\ row.pos = c.pos /\ row.name = items[m].name /\ row.list = l
      /\ ~row.checked /\ ~row.note /\ NoteNotChecked(row)
  BY <1>1, <1>3, <1>5 DEF PatchedRow, Given, NoteNotChecked, ItemRow, Body
<1>7. Holders(items, l, row.name) \ {m} = {}
  <2>1. row.name = items[m].name
    BY <1>6
  <2> HIDE DEF row
  <2>2. \A i \in Holders(items, l, row.name) :
          i \in DOMAIN items /\ items[i].list = l /\ items[i].name = items[m].name
    BY <2>1 DEF Holders, ItemsOf
  <2> QED BY <1>1, <2>2 DEF IInv, SchemaOK, NamesUnique
<1>8. r.err = "none" /\ r.items = With(c.items, m, row)
  <2> HIDE DEF row
  <2>1. r = IF c.err # "none" THEN [err |-> c.err, items |-> items]
            ELSE IF ~NoteNotChecked(row) THEN [err |-> "internal", items |-> items]
            ELSE IF Holders(items, l, row.name) \ {m} # {}
            THEN [err |-> "conflict", items |-> items]
            ELSE [err |-> "none", items |-> With(c.items, m, row)]
    BY <1>1 DEF UpdateItem, InList, c, row, Body
  <2> QED BY <1>2, <1>6, <1>7, <2>1
<1> HIDE DEF row, r
<1>9. /\ Sane(r.items) /\ DOMAIN r.items = DOMAIN items
      /\ r.items[m] = row /\ \A k \in DOMAIN items \ {m} : r.items[k] = c.items[k]
  <2> DEFINE T == c.items
             R == With(T, m, row)
  <2>1. m \in ItemId /\ Sane(T) /\ row \in ItemRow
    BY <1>1, <1>4, <1>6 DEF Sane, IsTable
  <2>2. /\ Sane(R) /\ DOMAIN R = DOMAIN T \cup {m}
        /\ R[m] = row /\ \A j \in DOMAIN T \ {m} : R[j] = T[j]
    <3> HIDE DEF T
    <3> QED BY <2>1, WithSane
  <2> QED BY <1>1, <1>4, <1>8, <2>2
<1>10. Section(r.items, l) = S
  BY <1>1, <1>4, <1>5, <1>6, <1>9 DEF Section, ItemsOf
<1>11. \A k \in S \ {m} : IF AtOrAbove(items, k, t) THEN SlotBefore(r.items, k, m)
                                                    ELSE SlotBefore(r.items, m, k)
  BY <1>2, <1>6, <1>9 DEF SlotBefore, Section, ItemsOf
<1>12. ASSUME NEW j \in S \ {m}, NEW k \in S \ {m}
       PROVE  SlotBefore(r.items, j, k) <=> SlotBefore(items, j, k)
  <2>1. /\ j \in ItemsOf(items, l) /\ k \in ItemsOf(items, l)
        /\ items[j].checked = FALSE /\ items[k].checked = FALSE
    BY <1>1, SaneRows DEF Section, ItemsOf
  <2>2. SlotBefore(Renormalize(items, l), j, k) <=> SlotBefore(items, j, k)
    BY <1>1, <2>1, RenormalizeKeepsOrder
  <2>3. r.items[j] = c.items[j] /\ r.items[k] = c.items[k]
    BY <1>9, <2>1 DEF ItemsOf
  <2>4. SlotBefore(r.items, j, k) <=> SlotBefore(c.items, j, k)
    BY <2>3 DEF SlotBefore
  <2> QED BY <1>3, <2>2, <2>4
<1> QED BY <1>8, <1>9, <1>10, <1>11, <1>12 DEF r

\* A row dropped at a drop location lands there, whatever the gap, the ties and
\* the hidden rows.
THEOREM DroppedRowsLand == Spec => []ReorderLandsWhereDropped
<1>1. IInv => ReorderLandsWhereDropped
  <2> SUFFICES ASSUME IInv, NEW m \in DOMAIN items, NEW p \in Patch,
                      p = Body(p.reorder), p.reorder # Nil,
                      m \in Section(items, items[m].list),
                      DropLocation(items, items[m].list, m, p.reorder)
               PROVE  LET l == items[m].list
                          t == p.reorder
                          r == UpdateItem(items, l, m, p)
                      IN  /\ r.err = "none"
                          /\ \A k \in Section(items, l) \ {m} :
                               IF AtOrAbove(items, k, t)
                               THEN SlotBefore(r.items, k, m)
                               ELSE SlotBefore(r.items, m, k)
    BY DEF ReorderLandsWhereDropped, Body
  <2> QED BY DropAnswered
<1> QED BY <1>1, InitIInv, NextIInv, PTL DEF Spec

-----------------------------------------------------------------------------
\* Drops

\* The neighbours that a drop names are those at its place among the others.
LEMMA DropNamesAPlace ==
  ASSUME NEW table, Sane(table), NEW l,
         NEW from \in 1 .. Cardinality(Section(table, l)),
         NEW to \in 1 .. Cardinality(Section(table, l)), from # to
  PROVE  LET S == Section(table, l)
             s == Ordered(S, SlotOrder(table, S))
             q == ArrayMove(s, from, to)
             t == [after |-> At(q, to - 1), before |-> At(q, to + 1)]
         IN  /\ t # Nil
             /\ DropLocation(table, l, s[from], t)
             /\ \A x \in (1 .. Cardinality(S)) \ {to} : AtOrAbove(table, q[x], t) <=> x < to
<1> DEFINE S == Section(table, l)
           s == Ordered(S, SlotOrder(table, S))
           n == Cardinality(S)
           q == ArrayMove(s, from, to)
           m == s[from]
           t == [after |-> At(q, to - 1), before |-> At(q, to + 1)]
<1>1. /\ S \in SUBSET DOMAIN table /\ DOMAIN table \subseteq ItemId /\ Nil \notin ItemId
  BY RowAssumption DEF Section, ItemsOf, Sane, IsTable
<1>2. /\ Orders(SlotOrder(table, S), S) /\ IsFiniteSet(S)
      /\ \A i, j \in S : <<i, j>> \in SlotOrder(table, S) <=> SlotBefore(table, i, j)
  BY <1>1, SlotsAreOrdered
<1>3. /\ n \in Nat /\ q \in [1 .. n -> S] /\ m \in S /\ q[to] = m
      /\ \A x \in (1 .. n) \ {to} : q[x] # m
      /\ \A x, y \in (1 .. n) \ {to} : x < y => <<q[x], q[y]>> \in SlotOrder(table, S)
      /\ \A k \in S \ {m} : \E x \in (1 .. n) \ {to} : q[x] = k
  <2> DEFINE R == SlotOrder(table, S)
  <2>1. IsFiniteSet(S) /\ Orders(R, S) /\ from \in 1 .. Cardinality(S) /\ to \in 1 .. Cardinality(S)
    BY <1>2
  <2>2. MovesOne(S, R, from, to)
    <3> HIDE DEF S, R
    <3> QED BY <2>1, MovedOrder
  <2> HIDE DEF S
  <2> QED BY <2>2 DEF MovesOne, ArrayMove
<1>4. from \in 1 .. n /\ to \in 1 .. n
  OBVIOUS
<1> HIDE DEF S, s, n, q
<1>5. \A x, y \in (1 .. n) \ {to} : x < y =>
        SlotBefore(table, q[x], q[y]) /\ ~SlotBefore(table, q[y], q[x]) /\ q[x] # q[y]
  <2> SUFFICES ASSUME NEW x \in (1 .. n) \ {to}, NEW y \in (1 .. n) \ {to}, x < y
               PROVE  SlotBefore(table, q[x], q[y]) /\ ~SlotBefore(table, q[y], q[x])
                      /\ q[x] # q[y]
    OBVIOUS
  <2>1. q[x] \in S /\ q[y] \in S /\ <<q[x], q[y]>> \in SlotOrder(table, S)
    BY <1>3
  <2>2. <<q[y], q[x]>> \notin SlotOrder(table, S) /\ q[x] # q[y]
    BY <1>2, <2>1 DEF Orders
  <2> QED BY <1>2, <2>1, <2>2
<1>6. /\ t.after = IF to > 1 THEN q[to - 1] ELSE Nil
      /\ t.before = IF to < n THEN q[to + 1] ELSE Nil
      /\ \A x \in 1 .. n : q[x] \in S /\ q[x] # Nil /\ q[x] \in ItemId
  BY <1>1, <1>3, <1>4 DEF At
<1>7. t # Nil
  <2>1. t.after \in ItemId \cup {Nil} /\ t.before \in ItemId \cup {Nil}
    BY <1>3, <1>4, <1>6
  <2>2. t \in Targets(ItemId)
    BY <2>1 DEF Targets
  <2> QED BY <2>2, RowAssumption
<1>8. ASSUME NEW x \in (1 .. n) \ {to}
      PROVE  (AtOrAbove(table, q[x], t) <=> x < to) /\ (AtOrBelow(table, q[x], t) <=> x > to)
  <2> HIDE DEF t
  <2>1. CASE x < to
    <3>1. to - 1 \in (1 .. n) \ {to} /\ t.after = q[to - 1] /\ t.after # Nil
      BY <1>3, <1>4, <1>6, <2>1
    <3>2. x = to - 1 \/ x < to - 1
      BY <1>3, <1>4, <2>1
    <3>3. AtOrAbove(table, q[x], t)
      BY <1>5, <3>1, <3>2 DEF AtOrAbove
    <3>4. ~AtOrBelow(table, q[x], t)
      <4>1. CASE to < n
        <5>1. to + 1 \in (1 .. n) \ {to} /\ t.before = q[to + 1] /\ x < to + 1
          BY <1>3, <1>4, <1>6, <2>1, <4>1
        <5> QED BY <1>5, <5>1 DEF AtOrBelow
      <4>2. CASE ~(to < n)
        BY <1>6, <4>2 DEF AtOrBelow
      <4> QED BY <4>1, <4>2
    <3> QED BY <1>3, <1>4, <2>1, <3>3, <3>4
  <2>2. CASE x > to
    <3>1. to + 1 \in (1 .. n) \ {to} /\ t.before = q[to + 1] /\ t.before # Nil
      BY <1>3, <1>4, <1>6, <2>2
    <3>2. x = to + 1 \/ to + 1 < x
      BY <1>3, <1>4, <2>2
    <3>3. AtOrBelow(table, q[x], t)
      BY <1>5, <3>1, <3>2 DEF AtOrBelow
    <3>4. ~AtOrAbove(table, q[x], t)
      <4>1. CASE to > 1
        <5>1. to - 1 \in (1 .. n) \ {to} /\ t.after = q[to - 1] /\ to - 1 < x
          BY <1>3, <1>4, <1>6, <2>2, <4>1
        <5> QED BY <1>5, <5>1 DEF AtOrAbove
      <4>2. CASE ~(to > 1)
        BY <1>6, <4>2 DEF AtOrAbove
      <4> QED BY <4>1, <4>2
    <3> QED BY <1>3, <1>4, <2>2, <3>3, <3>4
  <2> QED BY <1>3, <1>4, <2>1, <2>2
<1>9. \A k \in S \ {m} : ~(AtOrAbove(table, k, t) <=> AtOrBelow(table, k, t))
  <2> SUFFICES ASSUME NEW k \in S \ {m}
               PROVE  ~(AtOrAbove(table, k, t) <=> AtOrBelow(table, k, t))
    OBVIOUS
  <2>1. PICK x \in (1 .. n) \ {to} : q[x] = k
    BY <1>3
  <2>2. (AtOrAbove(table, k, t) <=> x < to) /\ (AtOrBelow(table, k, t) <=> x > to)
    BY <1>8, <2>1
  <2> QED BY <1>3, <1>4, <2>1, <2>2
<1>10. {t.after, t.before} \ {Nil} \subseteq S \ {m}
  <2>1. t.after = Nil \/ (to - 1 \in (1 .. n) \ {to} /\ t.after = q[to - 1])
    BY <1>3, <1>4, <1>6
  <2>2. t.before = Nil \/ (to + 1 \in (1 .. n) \ {to} /\ t.before = q[to + 1])
    BY <1>3, <1>4, <1>6
  <2> HIDE DEF t
  <2> QED BY <1>3, <2>1, <2>2
<1>11. /\ t # Nil /\ DropLocation(table, l, m, t)
       /\ \A x \in (1 .. n) \ {to} : AtOrAbove(table, q[x], t) <=> x < to
  <2> HIDE DEF t, m
  <2> QED BY <1>7, <1>8, <1>9, <1>10 DEF DropLocation, S
<1> QED BY <1>11 DEF S, s, n, q

\* The list is served as the user ordered it.
LEMMA DropServed ==
  ASSUME IInv, NEW l \in DOMAIN lists, Mirrored(l), NEW d \in Drops(l)
  PROVE  /\ Answer(l, d).err = "none"
         /\ Served(Answer(l, d).items, l) = Dropped(l, d)
<1> DEFINE S == Section(items, l)
           n == Cardinality(S)
           s == Ordered(S, SlotOrder(items, S))
           from == d[1]
           to == d[2]
           q == ArrayMove(s, from, to)
           m == s[from]
           t == [after |-> At(q, to - 1), before |-> At(q, to + 1)]
           r == Answer(l, d)
<1>1. Sane(items) /\ S \in SUBSET DOMAIN items
  BY DEF IInv, TypeOK, Sane, Section, ItemsOf
<1>2. /\ Orders(SlotOrder(items, S), S) /\ IsFiniteSet(S)
      /\ \A i, j \in S : <<i, j>> \in SlotOrder(items, S) <=> SlotBefore(items, i, j)
  BY <1>1, SlotsAreOrdered
<1>3. Shown(items, l) = s
  BY DEF Mirrored, Served
<1>4. from \in 1 .. n /\ to \in 1 .. n /\ from # to
  <2>1. DOMAIN s = 1 .. n
    BY DEF Ordered
  <2> QED BY <1>3, <2>1 DEF Drops
<1>5. Dropped(l, d) = q /\ Dragged(l, d) = m /\ DropBody(l, d) = Body(t)
  BY <1>3 DEF Dropped, Dragged, DropBody, Plan, PlanReorder, Body
<1>6. /\ t # Nil /\ DropLocation(items, l, m, t)
      /\ \A x \in (1 .. n) \ {to} : AtOrAbove(items, q[x], t) <=> x < to
  BY <1>1, <1>4, DropNamesAPlace
<1>7. /\ n \in Nat /\ q \in [1 .. n -> S] /\ m \in S /\ q[to] = m
      /\ \A x \in (1 .. n) \ {to} : q[x] # m
      /\ \A x, y \in (1 .. n) \ {to} : x < y => <<q[x], q[y]>> \in SlotOrder(items, S)
  <2>1. MovesOne(S, SlotOrder(items, S), from, to)
    BY <1>2, <1>4, MovedOrder
  <2> QED BY <2>1 DEF MovesOne, ArrayMove
<1>8. r = UpdateItem(items, l, m, Body(t))
  BY <1>5 DEF Answer
<1> HIDE DEF S, n, s, from, to, q, m, t, r
<1>9. /\ r.err = "none" /\ Sane(r.items) /\ Section(r.items, l) = S
      /\ \A k \in S \ {m} : IF AtOrAbove(items, k, t) THEN SlotBefore(r.items, k, m)
                                                      ELSE SlotBefore(r.items, m, k)
      /\ \A j, k \in S \ {m} : SlotBefore(r.items, j, k) <=> SlotBefore(items, j, k)
  BY <1>6, <1>7, <1>8, DropAnswered DEF S
<1>10. /\ Orders(SlotOrder(r.items, S), S)
       /\ \A i, j \in S : <<i, j>> \in SlotOrder(r.items, S) <=> SlotBefore(r.items, i, j)
  <2>1. S \in SUBSET DOMAIN r.items
    BY <1>9 DEF Section, ItemsOf
  <2> QED BY <1>9, <2>1, SlotsAreOrdered
<1>11. ASSUME NEW x \in 1 .. n, NEW y \in 1 .. n, x < y
       PROVE  <<q[x], q[y]>> \in SlotOrder(r.items, S)
  <2>1. q[x] \in S /\ q[y] \in S
    BY <1>7
  <2>2. CASE x = to
    <3>1. q[y] \in S \ {m} /\ ~AtOrAbove(items, q[y], t)
      BY <1>4, <1>6, <1>7, <1>11, <2>2
    <3> QED BY <1>7, <1>9, <1>10, <2>1, <2>2, <3>1
  <2>3. CASE y = to
    <3>1. q[x] \in S \ {m} /\ AtOrAbove(items, q[x], t)
      BY <1>4, <1>6, <1>7, <1>11, <2>3
    <3> QED BY <1>7, <1>9, <1>10, <2>1, <2>3, <3>1
  <2>4. CASE x # to /\ y # to
    <3>1. q[x] \in S \ {m} /\ q[y] \in S \ {m} /\ SlotBefore(items, q[x], q[y])
      BY <1>2, <1>7, <1>11, <2>1, <2>4
    <3> QED BY <1>9, <1>10, <2>1, <3>1
  <2> QED BY <2>2, <2>3, <2>4
<1>12. q = Ordered(S, SlotOrder(r.items, S))
  BY <1>2, <1>7, <1>10, <1>11, OrderedIsUnique DEF n
<1> QED BY <1>5, <1>9, <1>12 DEF Served, r

\* A drop is served where it was dropped, whatever positions, ties, hidden rows
\* and exhausted gaps requests have led to.
THEOREM DropsAreServed == Spec => []DropIsServed
<1>1. IInv => DropIsServed
  BY DropServed DEF DropIsServed
<1> QED BY <1>1, InitIInv, NextIInv, PTL DEF Spec

-----------------------------------------------------------------------------
\* What the client shows at once

\* A time on the clock is its two digits.
LEMMA Digits ==
  ASSUME NEW t \in 0 .. Radix * Radix - 1
  PROVE  /\ t \div Radix \in Int /\ t % Radix \in 0 .. Radix - 1
         /\ t = Radix * (t \div Radix) + (t % Radix)
         /\ t \div Radix < Radix
<1>1. Radix \in Nat \ {0, 1} /\ Radix * Radix \in Int
  BY RadixAssumption
<1>2. t \in Nat
  BY <1>1
<1>3. /\ t \div Radix \in Int /\ t % Radix \in 0 .. Radix - 1
      /\ t = Radix * (t \div Radix) + (t % Radix)
  BY <1>1, <1>2
<1>4. t \div Radix < Radix
  <2> DEFINE q == t \div Radix
             e == t % Radix
  <2>1. q \in Int /\ e \in Nat /\ t = Radix * q + e /\ t < Radix * Radix
    BY <1>1, <1>3
  <2> HIDE DEF q, e
  <2>2. ASSUME q >= Radix PROVE FALSE
    <3>1. Radix * (q - Radix) >= 0
      <4> DEFINE g == q - Radix
      <4>1. g \in Nat
        BY <1>1, <2>1, <2>2
      <4> HIDE DEF g
      <4>2. Radix * g \in Nat
        BY <1>1, <4>1
      <4> QED BY <4>2 DEF g
    <3>2. Radix * (q - Radix) = Radix * q - Radix * Radix
      BY <1>1, <2>1
    <3>3. Radix * q \in Int
      BY <1>1, <2>1
    <3> QED BY <1>1, <2>1, <3>1, <3>2, <3>3
  <2> QED BY <1>1, <2>1, <2>2 DEF q
<1> QED BY <1>3, <1>4

\* Times are printed apart.
LEMMA PrintedApart ==
  ASSUME NEW s \in Times, NEW t \in Times,
         Printed(s)[1] = Printed(t)[1], Printed(s)[2] = Printed(t)[2]
  PROVE  s = t
<1>1. s \in 0 .. Radix * Radix - 1 /\ t \in 0 .. Radix * Radix - 1
  BY RadixAssumption
<1> DEFINE a == s \div Radix
           b == t \div Radix
           c == s % Radix
           e == t % Radix
<1>2. /\ a \in Int /\ c \in 0 .. Radix - 1 /\ s = Radix * a + c /\ a < Radix
      /\ b \in Int /\ e \in 0 .. Radix - 1 /\ t = Radix * b + e /\ b < Radix
  <2>1. a \in Int /\ c \in 0 .. Radix - 1 /\ s = Radix * a + c /\ a < Radix
    BY <1>1, Digits
  <2>2. b \in Int /\ e \in 0 .. Radix - 1 /\ t = Radix * b + e /\ b < Radix
    BY <1>1, Digits
  <2> QED BY <2>1, <2>2
<1>3. /\ Printed(s) = IF s = 0 THEN <<Radix, Radix>> ELSE <<a, IF c = 0 THEN Radix ELSE c>>
      /\ Printed(t) = IF t = 0 THEN <<Radix, Radix>> ELSE <<b, IF e = 0 THEN Radix ELSE e>>
  BY DEF Printed
<1>4. Radix \in Nat
  BY RadixAssumption
<1> HIDE DEF a, b, c, e
<1>5. CASE s = 0 \/ t = 0
  BY <1>2, <1>3, <1>4, <1>5
<1>6. CASE s # 0 /\ t # 0
  <2>1. a = b /\ c = e
    BY <1>2, <1>3, <1>4, <1>6
  <2> QED BY <1>2, <2>1
<1> QED BY <1>5, <1>6

LEMMA PrintedInts ==
  ASSUME NEW t \in Times
  PROVE  Printed(t)[1] \in Int /\ Printed(t)[2] \in Int
<1>1. Radix \in Nat \ {0} /\ t \in 0 .. Radix * Radix - 1
  BY RadixAssumption
<1> QED BY <1>1, Digits DEF Printed

\* So the order in which the client shows rows leaves nothing open either.
LEMMA PositionsAreOrdered ==
  ASSUME NEW table, Sane(table), Fits(table), NEW S \in SUBSET DOMAIN table
  PROVE  /\ Orders(PositionOrder(table, S), S)
         /\ IsFiniteSet(S)
         /\ \A i, j \in S : <<i, j>> \in PositionOrder(table, S) <=> ByPosition(table, i, j)
<1>1. IsFiniteSet(S)
  BY FS_Subset DEF Sane
<1>2. \A i, j \in S : <<i, j>> \in PositionOrder(table, S) <=> ByPosition(table, i, j)
  BY DEF PositionOrder
<1>3. \A i \in S : i \in Nat /\ table[i].pos \in Int /\ table[i].born \in Times
  BY SaneRows DEF Fits
<1>4. /\ \A s \in Times : ~PrintedBefore(s, s)
      /\ \A s, t \in Times : s = t \/ PrintedBefore(s, t) \/ PrintedBefore(t, s)
      /\ \A s, t, u \in Times : PrintedBefore(s, t) /\ PrintedBefore(t, u) => PrintedBefore(s, u)
  <2>1. \A s \in Times : ~PrintedBefore(s, s)
    BY PrintedInts DEF PrintedBefore
  <2>2. \A s, t \in Times : s = t \/ PrintedBefore(s, t) \/ PrintedBefore(t, s)
    BY PrintedInts, PrintedApart DEF PrintedBefore
  <2>3. \A s, t, u \in Times : PrintedBefore(s, t) /\ PrintedBefore(t, u) => PrintedBefore(s, u)
    BY PrintedInts DEF PrintedBefore
  <2> QED BY <2>1, <2>2, <2>3
<1> HIDE DEF PositionOrder
<1>5. \A i \in S : ~ByPosition(table, i, i)
  BY <1>3, <1>4 DEF ByPosition
<1>6. \A i, j \in S : i = j \/ ByPosition(table, i, j) \/ ByPosition(table, j, i)
  BY <1>3, <1>4 DEF ByPosition
<1>7. \A i, j, k \in S :
        ByPosition(table, i, j) /\ ByPosition(table, j, k) => ByPosition(table, i, k)
  BY <1>3, <1>4 DEF ByPosition
<1> QED BY <1>1, <1>2, <1>5, <1>6, <1>7 DEF Orders

\* The position a drop guesses, in a list of rows that lie as shown.
LEMMA DropShown ==
  ASSUME IInv, Fits(items), NEW l \in DOMAIN lists, NEW d \in Drops(l),
         ~Tied(Plan(l, d).patch.after, Plan(l, d).patch.before)
  PROVE  ShownAtOnce(l, d) = Dropped(l, d)
<1> DEFINE S == Section(items, l)
           R == PositionOrder(items, S)
           n == Cardinality(S)
           s == Ordered(S, R)
           from == d[1]
           to == d[2]
           q == ArrayMove(s, from, to)
           m == s[from]
           above == At(q, to - 1)
           below == At(q, to + 1)
           g == Plan(l, d).position
           new == Optimistic(items, m, g)
<1>1. /\ Sane(items) /\ S \in SUBSET DOMAIN items
      /\ DOMAIN items \subseteq ItemId /\ Nil \notin ItemId
  BY RowAssumption DEF IInv, TypeOK, Sane, Section, ItemsOf, IsTable
<1>2. /\ Orders(R, S) /\ IsFiniteSet(S)
      /\ \A i, j \in S : <<i, j>> \in R <=> ByPosition(items, i, j)
  BY <1>1, PositionsAreOrdered
<1>3. Shown(items, l) = s
  BY DEF Shown
<1>4. from \in 1 .. n /\ to \in 1 .. n /\ from # to
  <2>1. DOMAIN s = 1 .. n
    BY DEF Ordered
  <2> QED BY <1>3, <2>1 DEF Drops
<1>5. /\ Dropped(l, d) = q /\ Dragged(l, d) = m
      /\ Plan(l, d).patch.after = above /\ Plan(l, d).patch.before = below
      /\ g = IF above # Nil /\ below # Nil THEN items[above].pos + items[below].pos
             ELSE IF below # Nil THEN 2 * (items[below].pos - PositionGap)
             ELSE IF above # Nil THEN 2 * (items[above].pos + PositionGap)
             ELSE 2 * items[m].pos
  BY <1>3 DEF Dropped, Dragged, Plan, PlanReorder
<1>6. /\ n \in Nat /\ q \in [1 .. n -> S] /\ m \in S /\ q[to] = m
      /\ \A x \in (1 .. n) \ {to} : q[x] # m
      /\ \A x, y \in (1 .. n) \ {to} : x < y => <<q[x], q[y]>> \in R
  <2>1. MovesOne(S, R, from, to)
    <3> HIDE DEF S, R
    <3> QED BY <1>2, <1>4, MovedOrder
  <2> HIDE DEF S, R
  <2> QED BY <2>1 DEF MovesOne, ArrayMove
<1>7. ShownAtOnce(l, d) = Ordered(Section(new, l), PositionOrder(new, Section(new, l)))
  BY <1>5 DEF ShownAtOnce, Shown
<1>8. above = (IF to > 1 THEN q[to - 1] ELSE Nil) /\ below = (IF to < n THEN q[to + 1] ELSE Nil)
  <2> HIDE DEF S, R, n, s, q, from, to
  <2> QED BY <1>4, <1>6 DEF At
<1> HIDE DEF S, R, n, s, from, to, q, m, above, below, g
<1>9. \A x \in 1 .. n : /\ q[x] \in S /\ q[x] # Nil /\ q[x] \in DOMAIN items
                        /\ items[q[x]] \in ItemRow /\ items[q[x]].pos \in Int
  BY <1>1, <1>6, SaneRows
<1>10. ASSUME NEW x \in (1 .. n) \ {to}, NEW y \in (1 .. n) \ {to}, x < y
       PROVE  items[q[x]].pos <= items[q[y]].pos
  <2>1. <<q[x], q[y]>> \in R /\ q[x] \in S /\ q[y] \in S
    BY <1>6, <1>9, <1>10
  <2>2. ByPosition(items, q[x], q[y])
    BY <1>2, <2>1
  <2>3. items[q[x]].pos \in Int /\ items[q[y]].pos \in Int
    BY <1>9
  <2> QED BY <2>2, <2>3 DEF ByPosition
<1>11. /\ g \in Int
       /\ \A x \in (1 .. n) \ {to} : IF x < to THEN 2 * items[q[x]].pos < g
                                               ELSE g < 2 * items[q[x]].pos
  <2>1. /\ PositionGap \in Nat \ {0} /\ (to > 1 => to - 1 \in (1 .. n) \ {to})
        /\ (to < n => to + 1 \in (1 .. n) \ {to})
    BY <1>4, <1>6, GapAssumption
  <2>2. /\ to > 1 => above # Nil /\ items[above].pos \in Int
                     /\ \A x \in (1 .. n) \ {to} : x < to => items[q[x]].pos <= items[above].pos
        /\ to < n => below # Nil /\ items[below].pos \in Int
                     /\ \A x \in (1 .. n) \ {to} : x > to => items[below].pos <= items[q[x]].pos
    <3>1. ASSUME to > 1, NEW x \in (1 .. n) \ {to}, x < to
          PROVE  items[q[x]].pos <= items[q[to - 1]].pos
      <4>1. x = to - 1 \/ x < to - 1
        BY <1>4, <1>6, <3>1
      <4> QED BY <1>9, <1>10, <2>1, <3>1, <4>1
    <3>2. ASSUME to < n, NEW x \in (1 .. n) \ {to}, x > to
          PROVE  items[q[to + 1]].pos <= items[q[x]].pos
      <4>1. x = to + 1 \/ to + 1 < x
        BY <1>4, <1>6, <3>2
      <4> QED BY <1>9, <1>10, <2>1, <3>2, <4>1
    <3> QED BY <1>8, <1>9, <2>1, <3>1, <3>2
  <2>3. CASE to > 1 /\ to < n
    <3>1. items[above].pos # items[below].pos
      BY <1>5, <2>2, <2>3 DEF Tied
    <3>2. items[above].pos < items[below].pos
      <4>1. above = q[to - 1] /\ below = q[to + 1] /\ to - 1 < to + 1
        BY <1>4, <1>8, <2>3
      <4>2. items[above].pos <= items[below].pos
        BY <1>10, <2>1, <2>3, <4>1
      <4> QED BY <2>2, <2>3, <3>1, <4>2
    <3>3. g = items[above].pos + items[below].pos
      BY <1>5, <2>2, <2>3
    <3>4. g \in Int
      BY <2>2, <2>3, <3>3
    <3>5. ASSUME NEW x \in (1 .. n) \ {to}
          PROVE  IF x < to THEN 2 * items[q[x]].pos < g ELSE g < 2 * items[q[x]].pos
      <4>1. items[q[x]].pos \in Int /\ items[above].pos \in Int /\ items[below].pos \in Int
        BY <1>9, <2>2, <2>3
      <4>2. CASE x < to
        BY <2>2, <2>3, <3>2, <3>3, <4>1, <4>2
      <4>3. CASE x > to
        BY <2>2, <2>3, <3>2, <3>3, <4>1, <4>3
      <4> QED BY <1>4, <1>6, <4>2, <4>3
    <3> QED BY <3>4, <3>5
  <2>4. CASE to > 1 /\ ~(to < n)
    <3>1. g = 2 * (items[above].pos + PositionGap)
      BY <1>5, <1>8, <2>2, <2>4
    <3>2. \A x \in (1 .. n) \ {to} : x < to
      BY <1>4, <1>6, <2>4
    <3>3. g \in Int /\ items[above].pos \in Int
      BY <2>1, <2>2, <2>4, <3>1
    <3>4. ASSUME NEW x \in (1 .. n) \ {to}
          PROVE  2 * items[q[x]].pos < g
      <4>1. items[q[x]].pos \in Int /\ items[q[x]].pos <= items[above].pos
        BY <1>9, <2>2, <2>4, <3>2
      <4> QED BY <2>1, <3>1, <3>3, <4>1
    <3> QED BY <3>2, <3>3, <3>4
  <2>5. CASE ~(to > 1) /\ to < n
    <3>1. g = 2 * (items[below].pos - PositionGap)
      BY <1>5, <1>8, <2>2, <2>5
    <3>2. \A x \in (1 .. n) \ {to} : x > to
      BY <1>4, <1>6, <2>5
    <3>3. g \in Int /\ items[below].pos \in Int
      BY <2>1, <2>2, <2>5, <3>1
    <3>4. ASSUME NEW x \in (1 .. n) \ {to}
          PROVE  ~(x < to) /\ g < 2 * items[q[x]].pos
      <4>1. items[q[x]].pos \in Int /\ items[below].pos <= items[q[x]].pos
        BY <1>9, <2>2, <2>5, <3>2
      <4>2. ~(x < to)
        BY <1>4, <1>6, <3>2
      <4> QED BY <2>1, <3>1, <3>3, <4>1, <4>2
    <3> QED BY <3>3, <3>4
  <2> QED BY <1>4, <1>6, <2>3, <2>4, <2>5
<1>12. /\ Sane(new) /\ Fits(new) /\ DOMAIN new = DOMAIN items /\ Section(new, l) = S
       /\ \A i \in DOMAIN items : /\ new[i].pos = IF i = m THEN g ELSE 2 * items[i].pos
                                  /\ new[i].born = items[i].born
  <2>1. /\ DOMAIN new = DOMAIN items
        /\ \A i \in DOMAIN items :
             new[i] = [items[i] EXCEPT !.pos = IF i = m THEN g ELSE 2 * items[i].pos]
    BY DEF Optimistic
  <2>2. \A i \in DOMAIN items : items[i] \in ItemRow /\ items[i].pos \in Int
    BY <1>1, SaneRows
  <2>3. new = [i \in DOMAIN new |-> new[i]]
    BY DEF Optimistic
  <2> HIDE DEF new
  <2>4. ASSUME NEW i \in DOMAIN items
        PROVE  /\ new[i] \in ItemRow
               /\ new[i].list = items[i].list /\ new[i].checked = items[i].checked
               /\ new[i].note = items[i].note /\ new[i].born = items[i].born
               /\ new[i].pos = IF i = m THEN g ELSE 2 * items[i].pos
    <3>1. (IF i = m THEN g ELSE 2 * items[i].pos) \in Int
      BY <1>11, <2>2
    <3> QED BY <2>1, <2>2, <3>1 DEF ItemRow
  <2>5. Sane(new)
    BY <1>1, <2>1, <2>3, <2>4 DEF Sane, IsTable
  <2> QED BY <2>1, <2>4, <2>5 DEF Fits, Section, ItemsOf, S
<1> HIDE DEF new
<1>13. /\ Orders(PositionOrder(new, S), S)
       /\ \A i, j \in S : <<i, j>> \in PositionOrder(new, S) <=> ByPosition(new, i, j)
  BY <1>1, <1>12, PositionsAreOrdered
<1>14. ASSUME NEW x \in 1 .. n, NEW y \in 1 .. n, x < y
       PROVE  <<q[x], q[y]>> \in PositionOrder(new, S)
  <2>1. ByPosition(new, q[x], q[y])
    <3>1. CASE x = to
      <4>1. q[x] = m /\ q[y] # m /\ g < 2 * items[q[y]].pos
        BY <1>4, <1>6, <1>11, <1>14, <3>1
      <4> QED BY <1>9, <1>12, <4>1 DEF ByPosition
    <3>2. CASE y = to
      <4>1. q[y] = m /\ q[x] # m /\ 2 * items[q[x]].pos < g
        BY <1>4, <1>6, <1>11, <1>14, <3>2
      <4> QED BY <1>9, <1>12, <4>1 DEF ByPosition
    <3>3. CASE x # to /\ y # to
      <4>1. q[x] # m /\ q[y] # m /\ ByPosition(items, q[x], q[y])
        BY <1>2, <1>6, <1>9, <1>14, <3>3
      <4> QED BY <1>9, <1>12, <4>1 DEF ByPosition
    <3> QED BY <3>1, <3>2, <3>3
  <2> QED BY <1>9, <1>13, <2>1
<1>15. q = Ordered(S, PositionOrder(new, S))
  BY <1>2, <1>6, <1>13, <1>14, OrderedIsUnique DEF n
<1> QED BY <1>5, <1>7, <1>12, <1>15

\* A drop between rows that do not tie is shown at once where it was dropped,
\* whatever the list has come to (planReorder, applyReorderOptimistic).
THEOREM DropsAreShown == Spec => []DropIsShown
<1>1. Init => Fits(items)
  BY DEF Init, Fits
<1>2. Fits(items) /\ [Next]_vars => Fits(items)'
  BY DEF Next, vars, Fits
<1>3. IInv /\ Fits(items) => DropIsShown
  BY DropShown DEF DropIsShown
<1> QED BY <1>1, <1>2, <1>3, InitIInv, NextIInv, PTL DEF Spec
=============================================================================
