------------------------------- MODULE Store -------------------------------
(***************************************************************************)
(* The PostgreSQL store behind the API, one action per method of           *)
(* backend/internal/store, each transaction running alone.  The concurrent *)
(* interleavings of their statements are the subject of ListTxn.           *)
(*                                                                         *)
(* A request whose body the handlers refuse (no uuid, a blank name)        *)
(* never reaches a method, so the inputs are the well-formed ones.  Patch  *)
(* is the set of PATCH bodies considered; Positions and Times bound the    *)
(* positions and creation times of a run and may be Int and Nat.           *)
(***************************************************************************)
EXTENDS StoreOps

CONSTANTS
  ListName,   \* case-folded list names
  Patch,      \* the PATCH bodies a client may send
  Positions,  \* bound: the positions a step may leave in the table
  Times       \* bound: the creation times a step may leave in the tables

ASSUME StoreAssumption ==
  /\ ListName # {}
  /\ Patch \subseteq Patches(Name, ItemId)
  /\ Positions \subseteq Int
  /\ Times \subseteq Nat /\ 1 \in Times

VARIABLES
  items,  \* table items: the ids present, each with its row
  lists   \* table lists

vars == <<items, lists>>

ListRow == [name : ListName, born : Nat]

Fits(table) == \A x \in DOMAIN table : table[x].born \in Times

PositionsFit == \A i \in DOMAIN items : items[i].pos \in Positions

-----------------------------------------------------------------------------

\* Migration 000002 seeds one list, which owns the items there were: none.
Init ==
  /\ items = [i \in {} |-> Nil]
  /\ \E l \in ListId, n \in ListName :
       lists = [k \in {l} |-> [name |-> n, born |-> 1]]

\* POST /lists/{listId}/items
PostItem(l, n, i) ==
  /\ items' = CreateOrRevive(items, lists, l, n, i).items
  /\ UNCHANGED lists

\* PATCH /lists/{listId}/items/{id}
PatchItem(l, i, p) ==
  /\ items' = UpdateItem(items, l, i, p).items
  /\ UNCHANGED lists

\* DELETE /lists/{listId}/items/{id}
RemoveItem(l, i) ==
  /\ items' = DeleteItem(items, l, i).items
  /\ UNCHANGED lists

\* POST /lists
PostList(n, l) ==
  /\ lists' = CreateList(lists, n, l).lists
  /\ UNCHANGED items

\* PATCH /lists/{listId}
PatchList(l, n) ==
  /\ lists' = RenameList(lists, l, n).lists
  /\ UNCHANGED items

\* DELETE /lists/{listId}
RemoveList(l) ==
  LET r == DeleteList(items, lists, l)
  IN  items' = r.items /\ lists' = r.lists

Request ==
  \/ \E l \in ListId, n \in Name, i \in ItemId : PostItem(l, n, i)
  \/ \E l \in ListId, i \in ItemId, p \in Patch : PatchItem(l, i, p)
  \/ \E l \in ListId, i \in ItemId : RemoveItem(l, i)
  \/ \E l \in ListId, n \in ListName : PostList(n, l)
  \/ \E l \in ListId, n \in ListName : PatchList(l, n)
  \/ \E l \in ListId : RemoveList(l)

Next == Request /\ PositionsFit' /\ Fits(items)' /\ Fits(lists)'

Spec == Init /\ [][Next]_vars

-----------------------------------------------------------------------------
\* Invariants

\* The tables hold rows of the schema's columns under known ids.
TypeOK ==
  /\ IsTable(items, ItemId, ItemRow)
  /\ IsTable(lists, ListId, ListRow)

NoOrphans == \A i \in DOMAIN items : items[i].list \in DOMAIN lists

NamesUnique ==
  \A i, j \in DOMAIN items :
    items[i].list = items[j].list /\ items[i].name = items[j].name => i = j

NotesUnchecked == \A i \in DOMAIN items : NoteNotChecked(items[i])

SomeListLeft == DOMAIN lists # {}

\* After any requests in any order: every item belongs to a list that exists,
\* no two items of a list share a name, no note is checked, and there is a list
\* to show.
SchemaOK == NoOrphans /\ NamesUnique /\ NotesUnchecked /\ SomeListLeft

\* No PATCH answers 500 unless it names one row as both neighbours, as no tab does:
\* when a midpoint is too close to its neighbours, one renormalization makes room
\* for it, and no combination of fields trips the CHECK constraint.
UpdateNeverInternal ==
  \A i \in DOMAIN items, p \in Patch :
    (p.reorder # Nil => p.reorder.after = Nil \/ p.reorder.after # p.reorder.before)
      => UpdateItem(items, items[i].list, i, p).err # "internal"

\* The rows a list shows in its unchecked section.
Section(table, l) ==
  {i \in ItemsOf(table, l) : ~table[i].checked /\ ~table[i].note}

\* k is the row a target names "after", or above it; "before", or below it.
AtOrAbove(table, k, t) ==
  k = t.after \/ (t.after # Nil /\ SlotBefore(table, k, t.after))

AtOrBelow(table, k, t) ==
  k = t.before \/ (t.before # Nil /\ SlotBefore(table, t.before, k))

\* t names the neighbours at a place between the rows of the section, m aside.
DropLocation(table, l, m, t) ==
  LET others == Section(table, l) \ {m}
  IN  /\ {t.after, t.before} \ {Nil} \subseteq others
      /\ \A k \in others : ~(AtOrAbove(table, k, t) <=> AtOrBelow(table, k, t))

\* A dropped row lands where it was dropped: a reorder naming the neighbours at
\* a drop location succeeds, and leaves the moved row after every row that was
\* at or above the one named "after" and before every row that was at or below
\* the one named "before", however small the gap and whatever ties or hidden
\* rows there are.
ReorderLandsWhereDropped ==
  \A m \in DOMAIN items, p \in Patch :
    LET l == items[m].list
        t == p.reorder
        r == UpdateItem(items, l, m, p)
    IN  /\ t # Nil
        /\ p = [name |-> Nil, checked |-> Nil, note |-> Nil, reorder |-> t]
        /\ m \in Section(items, l)
        /\ DropLocation(items, l, m, t)
        => /\ r.err = "none"
           /\ \A k \in Section(items, l) \ {m} :
                IF AtOrAbove(items, k, t)
                THEN SlotBefore(r.items, k, m)
                ELSE SlotBefore(r.items, m, k)

\* A new item goes to the bottom: after every item of its list, the slots
\* that checked items and notes retain included.
NewItemLast ==
  \A l \in DOMAIN lists, n \in Name, i \in ItemId :
    LET r == CreateOrRevive(items, lists, l, n, i)
    IN  i \notin DOMAIN items /\ r.row = i
          => \A j \in ItemsOf(items, l) : SlotBefore(r.items, j, i)

-----------------------------------------------------------------------------
\* Action properties

\* No request on one list touches the items of another.
ListIsolation ==
  [][\E l \in ListId :
       \A i \in DOMAIN items \cup DOMAIN items' :
         \/ /\ i \in DOMAIN items /\ i \in DOMAIN items'
            /\ items'[i] = items[i]
         \/ /\ i \in DOMAIN items => items[i].list = l
            /\ i \in DOMAIN items' => items'[i].list = l]_vars

\* The rows that two states share, apart from one that may have been moved.
Bystanders(m) == (DOMAIN items \cap DOMAIN items') \ {m}

\* A request moves at most one row: the rest of a list's unchecked rows and
\* notes keep their order, and so do its checked rows among themselves, also
\* when a renormalization rewrites every position of the list.
SectionOrderKept ==
  [][\E m \in ItemId \cup {Nil} :
       \A i, j \in Bystanders(m) :
         items[i].list = items[j].list /\ items[i].checked = items[j].checked
           => (SlotBefore(items, i, j) <=> SlotBefore(items', i, j))]_vars

\* What DESIGN.md says of renormalization: the relative order of every item is
\* kept, checked ones included, so an item unchecked later reappears where it
\* was among the items that are still there.
SlotOrderKept ==
  [][\E m \in ItemId \cup {Nil} :
       \A i, j \in Bystanders(m) :
         items[i].list = items[j].list
           => (SlotBefore(items, i, j) <=> SlotBefore(items', i, j))]_vars
=============================================================================
