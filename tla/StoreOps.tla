------------------------------ MODULE StoreOps ------------------------------
(***************************************************************************)
(* The store methods of items.go and lists.go, each as the function from   *)
(* the tables it starts with to its error and the tables it leaves, which  *)
(* is what a transaction that runs alone does.  Names are compared as      *)
(* citext compares them: a Name is a case-folded name.                     *)
(*                                                                         *)
(* err is "none" or the store's error: "not_found" (ErrNotFound),          *)
(* "list_not_found" (ErrListNotFound), "conflict" (ErrNameConflict),       *)
(* "last_list" (ErrLastList) and "internal" (any other).                   *)
(***************************************************************************)
EXTENDS Position

CONSTANTS
  ItemId,  \* item uuids, as naturals
  ListId,  \* list uuids
  Name     \* case-folded item names

ASSUME RowAssumption ==
  /\ ItemId \subseteq Nat
  /\ ListId # {}
  /\ Nil \notin ItemId /\ Nil \notin Name /\ Nil \notin BOOLEAN
  /\ Nil \notin Targets(ItemId)

ItemRow == [list : ListId, name : Name, checked : BOOLEAN, note : BOOLEAN,
            pos : Int, born : Nat]

IsTable(t, Id, Row) == DOMAIN t \subseteq Id /\ t \in [DOMAIN t -> Row]

-----------------------------------------------------------------------------

\* The row with the latest created_at is older than a row created now.
Now(table) ==
  IF DOMAIN table = {} THEN 1
  ELSE 1 + (CHOOSE t \in {table[x].born : x \in DOMAIN table} :
              \A x \in DOMAIN table : table[x].born <= t)

\* Mutant: the maximum over the rows shown as unchecked.
MaxPositionShown(items, l) ==
  LET shown == {i \in ItemsOf(items, l) : ~items[i].checked}
  IN  IF shown = {} THEN 0
      ELSE CHOOSE p \in {items[i].pos : i \in shown} :
             \A i \in shown : items[i].pos <= p

\* COALESCE(MAX(position), 0) over all the items of a list.
MaxPosition(items, l) ==
  IF ItemsOf(items, l) = {} THEN 0
  ELSE CHOOSE p \in {items[i].pos : i \in ItemsOf(items, l)} :
         \A i \in ItemsOf(items, l) : items[i].pos <= p

\* A table with the row of x inserted, or replaced.
With(table, x, row) ==
  [y \in DOMAIN table \cup {x} |-> IF y = x THEN row ELSE table[y]]

Without(table, X) == [y \in DOMAIN table \ X |-> table[y]]

\* The rows of a list that hold a name.
Holders(items, l, n) == {i \in ItemsOf(items, l) : items[i].name = n}

-----------------------------------------------------------------------------
\* items.go

NewItem(items, l, n) ==
  [list |-> l, name |-> n, checked |-> FALSE, note |-> FALSE,
   pos |-> MaxPosition(items, l) + PositionGap, born |-> Now(items)]

\* The plain unchecked item a row is turned back into, where it is.
Revived(row) == [row EXCEPT !.checked = FALSE, !.note = FALSE]

\* CreateOrRevive.  The unique name is looked at first (it is the arbiter of
\* ON CONFLICT), then the primary key, and the foreign key when the statement
\* ends.  row is the id of the item answered.
CreateOrRevive(items, lists, l, n, i) ==
  IF Holders(items, l, n) # {}
  THEN LET r == CHOOSE j \in Holders(items, l, n) : TRUE
       IN  [err   |-> "none", row |-> r,
            items |-> With(items, r, Revived(items[r]))]
  ELSE IF i \in DOMAIN items
  THEN [err |-> "conflict", row |-> Nil, items |-> items]
  ELSE IF l \notin DOMAIN lists
  THEN [err |-> "list_not_found", row |-> Nil, items |-> items]
  ELSE [err   |-> "none", row |-> i,
        items |-> With(items, i, NewItem(items, l, n))]

\* The fields of a PATCH body: Nil where the body omits one.
Patches(names, ids) ==
  [name : names \cup {Nil}, checked : BOOLEAN \cup {Nil},
   note : BOOLEAN \cup {Nil}, reorder : Targets(ids) \cup {Nil}]

Given(field, current) == IF field = Nil THEN current ELSE field

\* Mutant: a check in the body turns the row's around.
PatchedRowFlips(row, p, pos) ==
  LET note == Given(p.note, row.note)
  IN  [row EXCEPT !.checked = (row.checked # (p.checked = TRUE)) /\ ~note,
                  !.note    = note,
                  !.pos     = pos]

\* The row Update writes: a note is never checked.
PatchedRow(row, p, pos) ==
  LET note == Given(p.note, row.note)
  IN  [row EXCEPT !.name    = Given(p.name, row.name),
                  !.checked = Given(p.checked, row.checked) /\ ~note,
                  !.note    = note,
                  !.pos     = pos]

\* The CHECK constraint of migration 000003.
NoteNotChecked(row) == ~(row.note /\ row.checked)

\* Update: rename, check, note and reorder in one transaction.
UpdateItem(items, l, i, p) ==
  IF ~InList(items, l, i)
  THEN [err |-> "not_found", items |-> items]
  ELSE LET placed == IF p.reorder = Nil
                     THEN [err |-> "none", pos |-> items[i].pos, items |-> items]
                     ELSE ComputePosition(items, l, i, p.reorder)
           row    == PatchedRow(items[i], p, placed.pos)
       IN  IF placed.err # "none"
           THEN [err |-> placed.err, items |-> items]
           ELSE IF ~NoteNotChecked(row)
           THEN [err |-> "internal", items |-> items]
           ELSE IF Holders(items, l, row.name) \ {i} # {}
           THEN [err |-> "conflict", items |-> items]
           ELSE [err |-> "none", items |-> With(placed.items, i, row)]

DeleteItem(items, l, i) ==
  IF InList(items, l, i)
  THEN [err |-> "none", items |-> Without(items, {i})]
  ELSE [err |-> "not_found", items |-> items]

-----------------------------------------------------------------------------
\* lists.go

CreateList(lists, n, l) ==
  IF l \in DOMAIN lists \/ \E k \in DOMAIN lists : lists[k].name = n
  THEN [err |-> "conflict", lists |-> lists]
  ELSE [err |-> "none", lists |-> With(lists, l, [name |-> n, born |-> Now(lists)])]

RenameList(lists, l, n) ==
  IF l \notin DOMAIN lists
  THEN [err |-> "list_not_found", lists |-> lists]
  ELSE IF \E k \in DOMAIN lists \ {l} : lists[k].name = n
  THEN [err |-> "conflict", lists |-> lists]
  ELSE [err |-> "none", lists |-> [lists EXCEPT ![l].name = n]]

\* Mutant: no last-list guard.
DeleteListAny(items, lists, l) ==
  IF l \notin DOMAIN lists
  THEN [err |-> "list_not_found", items |-> items, lists |-> lists]
  ELSE [err   |-> "none",
        items |-> Without(items, ItemsOf(items, l)),
        lists |-> Without(lists, {l})]

\* DeleteList: the foreign key cascades to the items.
DeleteList(items, lists, l) ==
  IF l \notin DOMAIN lists
  THEN [err |-> "list_not_found", items |-> items, lists |-> lists]
  ELSE IF Cardinality(DOMAIN lists) <= 1
  THEN [err |-> "last_list", items |-> items, lists |-> lists]
  ELSE [err   |-> "none",
        items |-> Without(items, ItemsOf(items, l)),
        lists |-> Without(lists, {l})]
=============================================================================
