----------------------------- MODULE SyncProofs -----------------------------
(***************************************************************************)
(* Theorems about Sync, for any number of tabs, items, names, edits and    *)
(* lost answers.  IInv is the inductive invariant, in five parts: every    *)
(* table and snapshot meets the schema's promises; what a refetch carries  *)
(* was once on the server; an add names the row under its id; a request    *)
(* that was just served would change nothing; and the rows a tab shows, or *)
(* an edit of it needs, were once on the server or are waited for behind   *)
(* the add that brings them.                                               *)
(*                                                                         *)
(* At the end: the requests are ones that the store takes, and mutations   *)
(* run out.                                                                *)
(***************************************************************************)
EXTENDS Sync, PositionProofs

Tables == UNION {[D -> ItemRow] : D \in SUBSET ItemId}

Edits ==
  [kind : {"add", "update", "delete"}, item : ItemId, name : Name \cup {Nil},
   patch : Patches(Name, ItemId), pos : Int \cup {Nil}]

Entries == [edit : Edits, previous : Tables]

Stages == {"sent", "answered", "settling", "cancelled"}

\* A table of the list, over ids that were given.
Fine(table, U) == TablesOK(table, Lists) /\ DOMAIN table \subseteq U

\* An edit names its row if it adds it, and else never; a drop is beside two
\* other rows.
Sound(m, U) ==
  /\ m.item \in U
  /\ m.kind = "add" => m.name \in Name
  /\ m.kind # "update" => m.patch.reorder = Nil
  /\ m.patch.name = Nil
  /\ m.patch.reorder # Nil =>
       /\ m.item \notin {m.patch.reorder.after, m.patch.reorder.before}
       /\ m.patch.reorder.after # m.patch.reorder.before

Typed ==
  /\ used \subseteq ItemId /\ deleted \cup merged \subseteq used
  /\ Fine(items, used)
  /\ shown \in [Clients -> Tables] /\ \A c \in Clients : Fine(shown[c], used)
  /\ queue \in [Clients -> Seq(Entries)]
  /\ \A c \in Clients : \A k \in DOMAIN queue[c] :
       Fine(queue[c][k].previous, used) /\ Sound(queue[c][k].edit, used)
  /\ stage \in [Clients -> Stages]
  /\ \A c \in Clients : queue[c] = <<>> => stage[c] = "sent"
  /\ DOMAIN err = Clients /\ DOMAIN replayed = Clients

IsAdd(c, k, i) == queue[c][k].edit.kind = "add" /\ queue[c][k].edit.item = i

\* Two adds of an id are of one name, and a row under the id has that name.
AddsNamed ==
  /\ \A c, d \in Clients : \A k \in DOMAIN queue[c], j \in DOMAIN queue[d], i \in used :
       IsAdd(c, k, i) /\ IsAdd(d, j, i) => queue[c][k].edit.name = queue[d][j].edit.name
  /\ \A c \in Clients : \A k \in DOMAIN queue[c], i \in DOMAIN items :
       IsAdd(c, k, i) => items[i].name = queue[c][k].edit.name

ServedAgain ==
  \A c \in Clients : replayed[c] =>
    /\ queue[c] # <<>> /\ Stored(items, First(c)).items = items
    /\ stage[c] \in {"sent", "answered"}

\* The server has the row, or had it, or resolved it to another.
Known(i) == i \in DOMAIN items \cup deleted \cup merged

Followed ==
  /\ \A c \in Clients : \A k \in DOMAIN queue[c] : \A i \in Needed(queue[c][k].edit) :
       Known(i) \/ \E j \in 1 .. k - 1 : IsAdd(c, j, i)
  /\ \A c \in Clients : \A i \in DOMAIN shown[c] :
       Known(i) \/ \E j \in DOMAIN queue[c] : IsAdd(c, j, i)
  /\ \A c \in Clients : \A k \in DOMAIN queue[c] : \A i \in DOMAIN queue[c][k].previous :
       Known(i) \/ \E j \in DOMAIN queue[c] : IsAdd(c, j, i)
  /\ \A c \in Clients : \A i \in used :
       queue[c] # <<>> /\ stage[c] # "sent" /\ IsAdd(c, 1, i) => Known(i)

\* What a refetch carries is a table of the server's, maybe an older one.
Carries ==
  /\ carried \in [Clients -> SUBSET Tables]
  /\ \A c \in Clients : \A T \in carried[c] :
       Fine(T, used) /\ \A i \in DOMAIN T : Known(i)

IInv == Typed /\ Carries /\ AddsNamed /\ ServedAgain /\ Followed

-----------------------------------------------------------------------------
\* Tables of the list

LEMMA ListFacts ==
  /\ DOMAIN Lists = {TheList} /\ TheList \in ListId
  /\ Nil \notin ItemId /\ Nil \notin Name /\ Nil \notin BOOLEAN
  /\ ItemId \subseteq Nat
BY RowAssumption, SyncAssumption DEF Lists

LEMMA FineFacts ==
  ASSUME NEW U, NEW T, Fine(T, U)
  PROVE  /\ Sane(T) /\ T \in Tables /\ DOMAIN T \subseteq U
         /\ \A i \in DOMAIN T :
              /\ i \in ItemId /\ T[i] \in ItemRow /\ T[i].list = TheList
              /\ T[i].name \in Name /\ T[i].checked \in BOOLEAN /\ T[i].note \in BOOLEAN
              /\ T[i].pos \in Int /\ T[i].born \in Nat
              /\ NoteNotChecked(T[i]) /\ InList(T, TheList, i)
         /\ \A i, j \in DOMAIN T : T[i].name = T[j].name => i = j
         /\ ItemsOf(T, TheList) = DOMAIN T
<1>1. Sane(T) /\ DOMAIN T \subseteq U
  BY DEF Fine, TablesOK
<1>2. T \in Tables
  BY <1>1 DEF Sane, IsTable, Tables
<1>3. \A i \in DOMAIN T : T[i].list = TheList /\ NoteNotChecked(T[i]) /\ InList(T, TheList, i)
  BY ListFacts DEF Fine, TablesOK, InList, ItemsOf
<1>4. \A i, j \in DOMAIN T : T[i].name = T[j].name => i = j
  BY <1>3 DEF Fine, TablesOK
<1>5. ItemsOf(T, TheList) = DOMAIN T
  BY <1>3 DEF ItemsOf
<1>6. \A i \in DOMAIN T : i \in ItemId
  BY <1>1 DEF Sane, IsTable
<1> QED BY <1>1, <1>2, <1>3, <1>4, <1>5, <1>6, SaneRows

LEMMA FineGrows ==
  ASSUME NEW U, NEW T, Fine(T, U), NEW V, U \subseteq V
  PROVE  Fine(T, V)
BY DEF Fine

\* Rows whose check, note and position alone are changed.
LEMMA RewrittenIsFine ==
  ASSUME NEW U, NEW T, Fine(T, U), NEW R, DOMAIN R = DOMAIN T,
         R = [i \in DOMAIN R |-> R[i]],
         \A i \in DOMAIN T : /\ R[i] \in ItemRow /\ R[i].list = T[i].list
                             /\ R[i].name = T[i].name /\ NoteNotChecked(R[i])
  PROVE  Fine(R, U)
<1>1. Sane(R)
  BY DEF Fine, TablesOK, Sane, IsTable
<1> QED BY <1>1 DEF Fine, TablesOK

LEMMA NewIdIsNew ==
  ASSUME used \subseteq ItemId, used # ItemId
  PROVE  NewId \in ItemId \ used
<1>1. PICK k \in ItemId \ used : TRUE
  OBVIOUS
<1> DEFINE D == {i \in ItemId \ used : i <= k}
           f == [i \in D |-> -i]
<1>2. ItemId \subseteq Nat
  BY ListFacts
<1>3. IsFiniteSet(D) /\ D # {}
  <2>1. D \in SUBSET (0 .. k) /\ k \in D
    <3>1. k \in Nat
      BY <1>1, <1>2
    <3>2. \A i \in D : i \in 0 .. k
      BY <1>2, <3>1
    <3>3. k \in D
      BY <1>1, <3>1
    <3> HIDE DEF D
    <3> QED BY <3>2, <3>3
  <2>2. IsFiniteSet(0 .. k)
    BY <1>1, <1>2, FS_Interval
  <2> QED BY <2>1, <2>2, FS_Subset
<1>4. \A x \in D : f[x] \in Int
  BY <1>2
<1>5. PICK i \in D : \A j \in D : f[j] <= f[i]
  <2> HIDE DEF D, f
  <2> QED BY <1>3, <1>4, FiniteMax
<1>6. i \in ItemId \ used /\ \A j \in ItemId \ used : i <= j
  <2>1. \A j \in D : i <= j
    BY <1>2, <1>5
  <2>2. i \in ItemId \ used /\ i <= k
    BY <1>5
  <2> QED BY <1>1, <1>2, <2>1, <2>2
<1> QED BY <1>6 DEF NewId

-----------------------------------------------------------------------------
\* What a tab sends

\* A drop goes beside two different rows of the table, neither of them the row
\* that is dropped.
LEMMA PlannedFacts ==
  ASSUME NEW U, NEW T, Fine(T, U),
         NEW from \in DOMAIN Unchecked(T), NEW to \in DOMAIN Unchecked(T), from # to
  PROVE  LET m == Planned(T, from, to)
             t == m.patch.reorder
         IN  /\ m \in Edits /\ m.kind = "update" /\ m.item \in DOMAIN T
             /\ m.patch.name = Nil /\ m.patch.checked = Nil /\ m.patch.note = Nil
             /\ t # Nil /\ m.pos \in Int
             /\ {t.after, t.before} \ {Nil} \subseteq DOMAIN T
             /\ m.item \notin {t.after, t.before} /\ t.after # t.before
<1> DEFINE S == {i \in DOMAIN T : ~T[i].checked /\ ~T[i].note}
           R == SlotOrder(T, S)
           n == Cardinality(S)
           s == Unchecked(T)
           q == InsertAt(RemoveAt(s, from), to, s[from])
           above == IF to = 1 THEN Nil ELSE q[to - 1]
           below == IF to = Len(s) THEN Nil ELSE q[to + 1]
           t == [after |-> above, before |-> below]
           pos == IF above # Nil /\ below # Nil THEN Midpoint(T[above].pos, T[below].pos)
                  ELSE IF below # Nil THEN T[below].pos - PositionGap
                  ELSE T[above].pos + PositionGap
           m == Planned(T, from, to)
<1>1. /\ Sane(T) /\ S \in SUBSET DOMAIN T
      /\ \A i \in DOMAIN T : i \in ItemId /\ T[i].pos \in Int
  BY FineFacts
<1>2. Nil \notin ItemId /\ PositionGap \in Nat
  BY ListFacts, GapAssumption
<1>3. s = Ordered(S, R)
  BY DEF Unchecked
<1>4. IsFiniteSet(S) /\ Orders(R, S)
  BY <1>1, SlotsAreOrdered
<1>5. /\ n \in Nat /\ DOMAIN s = 1 .. n /\ Len(s) = n
      /\ from \in 1 .. n /\ to \in 1 .. n
  <2>1. n \in Nat /\ s \in [1 .. n -> S]
    <3> HIDE DEF S, R
    <3> QED BY <1>3, <1>4, OrderedFacts
  <2> HIDE DEF n, s
  <2>2. DOMAIN s = 1 .. n
    BY <2>1
  <2>3. Len(s) = n
    BY <2>1, <2>2, LenProperties
  <2> QED BY <2>1, <2>2, <2>3 DEF s
<1>6. /\ q \in [1 .. n -> S] /\ s[from] \in S
      /\ \A x \in (1 .. n) \ {to} : q[x] # s[from]
      /\ \A x, y \in (1 .. n) \ {to} : x < y => <<q[x], q[y]>> \in R
  <2>1. MovesOne(S, R, from, to)
    <3> HIDE DEF S, R, s
    <3> QED BY <1>4, <1>5, MovedOrder
  <2> HIDE DEF S, R
  <2> QED BY <1>3, <2>1 DEF MovesOne
<1>7. m = Update(s[from], [NoPatch EXCEPT !.reorder = t], pos)
  BY DEF Planned
<1> HIDE DEF S, n, s, q, m
<1>8. /\ above # Nil => above \in S /\ above # s[from]
      /\ below # Nil => below \in S /\ below # s[from]
      /\ above # below
      /\ s[from] \in DOMAIN T /\ s[from] # Nil
  <2>1. above = Nil \/ (to - 1 \in (1 .. n) \ {to} /\ above = q[to - 1])
    BY <1>5
  <2>2. below = Nil \/ (to + 1 \in (1 .. n) \ {to} /\ below = q[to + 1])
    BY <1>5
  <2>3. \A i \in S : i # Nil /\ i \in DOMAIN T
    BY <1>1, <1>2
  <2>4. above # below
    <3>1. CASE to # 1 /\ to # n
      <4>1. /\ to - 1 \in (1 .. n) \ {to} /\ above = q[to - 1]
            /\ to + 1 \in (1 .. n) \ {to} /\ below = q[to + 1] /\ to - 1 < to + 1
        BY <1>5, <3>1
      <4>2. <<above, below>> \in R /\ above \in S
        BY <1>6, <4>1
      <4> QED BY <1>4, <4>2 DEF Orders
    <3>2. CASE to = 1
      <4>1. to + 1 \in 1 .. n /\ below = q[to + 1] /\ above = Nil
        BY <1>5, <3>2
      <4> QED BY <1>6, <2>3, <4>1
    <3>3. CASE to = n /\ to # 1
      <4>1. to - 1 \in 1 .. n /\ above = q[to - 1] /\ below = Nil
        BY <1>5, <3>3
      <4> QED BY <1>6, <2>3, <4>1
    <3> QED BY <3>1, <3>2, <3>3
  <2> HIDE DEF above, below
  <2> QED BY <1>6, <2>1, <2>2, <2>3, <2>4
<1> HIDE DEF above, below
<1>9. /\ above \in DOMAIN T \cup {Nil} /\ below \in DOMAIN T \cup {Nil}
      /\ t \in Targets(ItemId) /\ t # Nil
  <2>1. above \in DOMAIN T \cup {Nil} /\ below \in DOMAIN T \cup {Nil}
    BY <1>1, <1>8
  <2>2. t \in Targets(ItemId)
    BY <1>1, <2>1 DEF Targets
  <2> QED BY <2>1, <2>2, RowAssumption
<1>10. pos \in Int
  BY <1>1, <1>2, <1>8, <1>9 DEF Midpoint
<1> HIDE DEF t, pos
<1>11. /\ m.kind = "update" /\ m.item = s[from] /\ m.pos = pos
       /\ m.patch = [name |-> Nil, checked |-> Nil, note |-> Nil, reorder |-> t]
  BY <1>7 DEF Update, NoPatch
<1>12. m \in Edits
  <2>1. m.patch \in Patches(Name, ItemId)
    BY <1>9, <1>11 DEF Patches
  <2>2. m = [kind |-> "update", item |-> s[from], name |-> Nil, patch |-> m.patch, pos |-> pos]
    BY <1>7 DEF Update
  <2>3. s[from] \in ItemId
    BY <1>1, <1>8
  <2> QED BY <1>10, <2>1, <2>2, <2>3 DEF Edits
<1>13. t.after = above /\ t.before = below
  BY DEF t
<1> QED BY <1>8, <1>9, <1>10, <1>11, <1>12, <1>13 DEF m

\* A row written under a free name, or over the row of its name.
Wrote(U, T, j, row) ==
  /\ Fine(With(T, j, row), U)
  /\ DOMAIN With(T, j, row) = DOMAIN T \cup {j}
  /\ With(T, j, row)[j] = row
  /\ \A i \in DOMAIN T \ {j} : With(T, j, row)[i] = T[i]

LEMMA WrittenIsFine ==
  ASSUME NEW U \in SUBSET ItemId, NEW T, Fine(T, U), NEW j \in U, NEW row \in ItemRow,
         row.list = TheList, NoteNotChecked(row),
         \A i \in DOMAIN T \ {j} : T[i].name # row.name
  PROVE  Wrote(U, T, j, row)
<1>1. Holders(T, row.list, row.name) \ {j} = {} /\ row.list \in DOMAIN Lists
  BY FineFacts, ListFacts DEF Holders
<1>2. TablesOK(T, Lists) /\ j \in ItemId
  BY DEF Fine
<1>3. TablesOK(With(T, j, row), Lists)
  BY <1>1, <1>2, WriteKeepsSchema
<1>4. /\ DOMAIN With(T, j, row) = DOMAIN T \cup {j} /\ With(T, j, row)[j] = row
      /\ \A i \in DOMAIN T \ {j} : With(T, j, row)[i] = T[i]
  BY DEF With
<1> QED BY <1>3, <1>4 DEF Fine, Wrote

\* Reviving the row of a name.
LEMMA RevivedIsFine ==
  ASSUME NEW U \in SUBSET ItemId, NEW T, Fine(T, U), NEW j \in DOMAIN T
  PROVE  /\ Fine(With(T, j, Revived(T[j])), U)
         /\ DOMAIN With(T, j, Revived(T[j])) = DOMAIN T
         /\ \A i \in DOMAIN T : With(T, j, Revived(T[j]))[i].name = T[i].name
<1> DEFINE row == Revived(T[j])
<1>1. Sane(T) /\ j \in U /\ \A i, k \in DOMAIN T : T[i].name = T[k].name => i = k
  BY FineFacts
<1>2. /\ row \in ItemRow /\ row.list = TheList /\ row.name = T[j].name /\ NoteNotChecked(row)
  BY <1>1, RevivedRow, FineFacts DEF NoteNotChecked
<1> HIDE DEF row
<1>3. /\ Fine(With(T, j, row), U) /\ DOMAIN With(T, j, row) = DOMAIN T \cup {j}
      /\ With(T, j, row)[j] = row
      /\ \A i \in DOMAIN T \ {j} : With(T, j, row)[i] = T[i]
  BY <1>1, <1>2, WrittenIsFine DEF Wrote
<1> QED BY <1>2, <1>3 DEF row

\* A new row.
LEMMA NewItemRow ==
  ASSUME NEW U, NEW T, Fine(T, U), NEW n \in Name
  PROVE  LET row == NewItem(T, TheList, n)
         IN  /\ row \in ItemRow /\ row.list = TheList /\ row.name = n
             /\ ~row.checked /\ ~row.note /\ NoteNotChecked(row)
<1>1. NewItem(T, TheList, n) \in ItemRow
  BY FineFacts, ListFacts, NewItemType
<1> QED BY <1>1 DEF NewItem, NoteNotChecked

\* What the patch of an update leaves.
PatchesOne(T, m, R) ==
  /\ DOMAIN R = DOMAIN T /\ R = [i \in DOMAIN R |-> R[i]]
  /\ \A i \in DOMAIN T \ {m.item} : R[i] = T[i]
  /\ R[m.item] = [T[m.item] EXCEPT !.checked = Given(m.patch.checked, @),
                                   !.note    = Given(m.patch.note, @),
                                   !.pos     = Given(m.pos, @)]

LEMMA UpdatePatchFacts ==
  ASSUME NEW U, NEW T, Fine(T, U), NEW m, m.item \in DOMAIN T
  PROVE  PatchesOne(T, m, UpdatePatch(T, m))
<1>1. T = [i \in DOMAIN T |-> T[i]] /\ T[m.item] \in ItemRow
  BY FineFacts DEF Sane, IsTable
<1> QED BY <1>1 DEF UpdatePatch, ItemRow, PatchesOne

\* An edit of a table that is fine is sound, needs rows of the table, and leaves
\* a table that is fine.
EditLeaves(U, T, m) ==
  /\ m \in Edits
  /\ m.kind # "add" => m.item \in DOMAIN T
  /\ Sound(m, U \cup {m.item})
  /\ Needed(m) \subseteq DOMAIN T
  /\ Fine(Patched(T, m), U \cup {m.item})
  /\ DOMAIN Patched(T, m) \subseteq DOMAIN T \cup {m.item}

LEMMA AddLeaves ==
  ASSUME NEW U \in SUBSET ItemId, NEW T, Fine(T, U), NEW i \in ItemId \ U, NEW n \in Name
  PROVE  EditLeaves(U, T, Add(n, i))
<1> DEFINE m == Add(n, i)
<1>1. NoPatch \in Patches(Name, ItemId)
  BY DEF NoPatch, Patches
<1>2. /\ m \in Edits /\ m.kind = "add" /\ m.item = i /\ m.name = n
      /\ m.patch.name = Nil /\ m.patch.reorder = Nil
  BY <1>1 DEF Add, NoPatch, Edits
<1> HIDE DEF m
<1>3. Sound(m, U \cup {i}) /\ Needed(m) = {}
  BY <1>2 DEF Sound, Needed
<1>4. Patched(T, m) = AddPatch(T, m)
  BY <1>2 DEF Patched
<1>5. U \cup {i} \in SUBSET ItemId /\ Fine(T, U \cup {i})
  BY FineGrows
<1>6. CASE findByName(T, n) = {}
  <2> DEFINE row == [NewItem(T, TheList, n) EXCEPT !.pos = maxPosition(T) + PositionGap]
  <2>1. AddPatch(T, m) = With(T, i, row)
    BY <1>2, <1>6 DEF AddPatch
  <2>2. maxPosition(T) + PositionGap \in Int
    <3>1. MaxPosition(T, TheList) \in Int
      BY FineFacts, MaxPositionBounds
    <3> QED BY <3>1, GapAssumption DEF maxPosition
  <2>3. row \in ItemRow /\ row.list = TheList /\ row.name = n /\ NoteNotChecked(row)
    BY <2>2, NewItemRow DEF NoteNotChecked, ItemRow
  <2>4. \A j \in DOMAIN T \ {i} : T[j].name # n
    BY <1>6, FineFacts DEF findByName, Holders
  <2> HIDE DEF row
  <2>5. Fine(With(T, i, row), U \cup {i}) /\ DOMAIN With(T, i, row) = DOMAIN T \cup {i}
    <3> DEFINE V == U \cup {i}
    <3>1. V \in SUBSET ItemId /\ Fine(T, V) /\ i \in V
      BY <1>5
    <3> HIDE DEF V
    <3>2. Wrote(V, T, i, row)
      <4>1. \A k \in DOMAIN T \ {i} : T[k].name # row.name
        BY <2>3, <2>4
      <4> QED BY <2>3, <3>1, <4>1, WrittenIsFine
    <3> QED BY <3>2 DEF V, Wrote
  <2> QED BY <1>2, <1>3, <1>4, <2>1, <2>5 DEF EditLeaves, m
<1>7. CASE findByName(T, n) # {}
  <2> DEFINE j == CHOOSE k \in findByName(T, n) : TRUE
  <2>1. j \in DOMAIN T
    BY <1>7, FineFacts DEF findByName, Holders
  <2>2. AddPatch(T, m) = With(T, j, Revived(T[j]))
    BY <1>2, <1>7 DEF AddPatch
  <2> HIDE DEF j
  <2>3. Fine(With(T, j, Revived(T[j])), U) /\ DOMAIN With(T, j, Revived(T[j])) = DOMAIN T
    BY <2>1, RevivedIsFine
  <2>4. Fine(With(T, j, Revived(T[j])), U \cup {i})
    BY <2>3, FineGrows
  <2> QED BY <1>2, <1>3, <1>4, <2>2, <2>3, <2>4 DEF EditLeaves, m
<1> QED BY <1>6, <1>7

\* The fields of an update that keep a table fine.
LEMMA UpdateLeaves ==
  ASSUME NEW U \in SUBSET ItemId, NEW T, Fine(T, U), NEW j \in DOMAIN T,
         NEW p \in Patches(Name, ItemId), NEW pos \in Int \cup {Nil},
         Sound(Update(j, p, pos), U), Needed(Update(j, p, pos)) \subseteq DOMAIN T,
         \/ ~T[j].note /\ p.note = Nil /\ p.checked \in BOOLEAN
         \/ p.note \in BOOLEAN /\ p.checked = FALSE
         \/ p.note = Nil /\ p.checked = Nil
  PROVE  EditLeaves(U, T, Update(j, p, pos))
<1> DEFINE m == Update(j, p, pos)
           R == UpdatePatch(T, m)
<1>1. m \in Edits /\ m.kind = "update" /\ m.item = j /\ m.patch = p /\ m.pos = pos
  <2>1. j \in ItemId
    BY FineFacts
  <2> QED BY <2>1 DEF Update, Edits
<1> HIDE DEF m
<1>2. Patched(T, m) = R
  BY <1>1 DEF Patched
<1>3. /\ DOMAIN R = DOMAIN T /\ R = [i \in DOMAIN R |-> R[i]]
      /\ \A i \in DOMAIN T \ {j} : R[i] = T[i]
      /\ R[j] = [T[j] EXCEPT !.checked = Given(p.checked, @),
                             !.note    = Given(p.note, @),
                             !.pos     = Given(pos, @)]
  <2>1. m.item \in DOMAIN T
    BY <1>1
  <2>2. PatchesOne(T, m, R)
    BY <2>1, UpdatePatchFacts
  <2> HIDE DEF R
  <2> QED BY <1>1, <2>2 DEF PatchesOne
<1> HIDE DEF R
<1>4. R[j] \in ItemRow /\ R[j].list = T[j].list /\ R[j].name = T[j].name /\ NoteNotChecked(R[j])
  <2>1. /\ T[j] \in ItemRow /\ T[j].pos \in Int /\ T[j].checked \in BOOLEAN
        /\ T[j].note \in BOOLEAN /\ NoteNotChecked(T[j])
    BY FineFacts
  <2>2. /\ Given(p.checked, T[j].checked) \in BOOLEAN /\ Given(p.note, T[j].note) \in BOOLEAN
        /\ Given(pos, T[j].pos) \in Int
        /\ ~(Given(p.checked, T[j].checked) /\ Given(p.note, T[j].note))
    BY <2>1, ListFacts DEF Given, NoteNotChecked
  <2> QED BY <1>3, <2>1, <2>2 DEF ItemRow, NoteNotChecked
<1>5. \A i \in DOMAIN T : /\ R[i] \in ItemRow /\ R[i].list = T[i].list
                          /\ R[i].name = T[i].name /\ NoteNotChecked(R[i])
  BY <1>3, <1>4, FineFacts
<1>6. Fine(R, U)
  BY <1>3, <1>5, RewrittenIsFine
<1>7. U \cup {j} = U
  BY FineFacts
<1> QED BY <1>1, <1>2, <1>3, <1>6, <1>7 DEF EditLeaves, m

LEMMA DeleteLeaves ==
  ASSUME NEW U \in SUBSET ItemId, NEW T, Fine(T, U), NEW j \in DOMAIN T
  PROVE  EditLeaves(U, T, Delete(j))
<1> DEFINE m == Delete(j)
<1>1. j \in ItemId /\ j \in U /\ NoPatch \in Patches(Name, ItemId)
  BY FineFacts DEF NoPatch, Patches
<1>2. /\ m \in Edits /\ m.kind = "delete" /\ m.item = j
      /\ m.patch.name = Nil /\ m.patch.reorder = Nil
  BY <1>1 DEF Delete, NoPatch, Edits
<1> HIDE DEF m
<1>3. Sound(m, U) /\ Needed(m) = {j} /\ Patched(T, m) = Without(T, {j})
  BY <1>1, <1>2 DEF Sound, Needed, Patched
<1>4. TablesOK(Without(T, {j}), Lists)
  BY RemoveKeepsSchema DEF Fine, TablesOK
<1>5. DOMAIN Without(T, {j}) = DOMAIN T \ {j}
  BY DEF Without
<1>6. Fine(Without(T, {j}), U) /\ U \cup {j} = U
  BY <1>1, <1>4, <1>5 DEF Fine
<1> QED BY <1>2, <1>3, <1>5, <1>6 DEF EditLeaves, m

LEMMA EditFacts ==
  ASSUME NEW U \in SUBSET ItemId, NEW T, Fine(T, U), NEW i \in ItemId \ U,
         NEW m \in EditsOf(T, i)
  PROVE  /\ EditLeaves(U, T, m)
         /\ m.kind = "add" => m.item = i
<1>1. ASSUME NEW n \in Name, m = Add(n, i)
      PROVE  EditLeaves(U, T, m) /\ m.item = i
  BY <1>1, AddLeaves DEF Add
<1>2. ASSUME NEW j \in DOMAIN T, ~T[j].note,
             m = Update(j, [NoPatch EXCEPT !.checked = ~T[j].checked], Nil)
      PROVE  EditLeaves(U, T, m) /\ m.kind # "add"
  <2> DEFINE p == [NoPatch EXCEPT !.checked = ~T[j].checked]
  <2>1. /\ p \in Patches(Name, ItemId) /\ p.note = Nil /\ p.checked \in BOOLEAN
        /\ p.name = Nil /\ p.reorder = Nil /\ j \in U
    BY FineFacts DEF NoPatch, Patches
  <2> HIDE DEF p
  <2>2. Sound(Update(j, p, Nil), U) /\ Needed(Update(j, p, Nil)) \subseteq DOMAIN T
    BY <2>1 DEF Sound, Needed, Update
  <2>3. EditLeaves(U, T, Update(j, p, Nil))
    BY <1>2, <2>1, <2>2, UpdateLeaves
  <2> QED BY <1>2, <2>3 DEF p, Update
<1>3. ASSUME NEW j \in DOMAIN T,
             m = Update(j, [NoPatch EXCEPT !.note = ~T[j].note, !.checked = FALSE], Nil)
      PROVE  EditLeaves(U, T, m) /\ m.kind # "add"
  <2> DEFINE p == [NoPatch EXCEPT !.note = ~T[j].note, !.checked = FALSE]
  <2>1. /\ p \in Patches(Name, ItemId) /\ p.note \in BOOLEAN /\ p.checked = FALSE
        /\ p.name = Nil /\ p.reorder = Nil /\ j \in U
    BY FineFacts DEF NoPatch, Patches
  <2> HIDE DEF p
  <2>2. Sound(Update(j, p, Nil), U) /\ Needed(Update(j, p, Nil)) \subseteq DOMAIN T
    BY <2>1 DEF Sound, Needed, Update
  <2>3. EditLeaves(U, T, Update(j, p, Nil))
    BY <2>1, <2>2, UpdateLeaves
  <2> QED BY <1>3, <2>3 DEF p, Update
<1>4. ASSUME NEW j \in DOMAIN T, m = Delete(j)
      PROVE  EditLeaves(U, T, m) /\ m.kind # "add"
  BY <1>4, DeleteLeaves DEF Delete
<1>5. ASSUME NEW from \in DOMAIN Unchecked(T), NEW to \in DOMAIN Unchecked(T), from # to,
             m = Planned(T, from, to)
      PROVE  EditLeaves(U, T, m) /\ m.kind # "add"
  <2> DEFINE t == m.patch.reorder
  <2>1. /\ m \in Edits /\ m.kind = "update" /\ m.item \in DOMAIN T
        /\ m.patch.name = Nil /\ m.patch.checked = Nil /\ m.patch.note = Nil
        /\ t # Nil /\ m.pos \in Int
        /\ {t.after, t.before} \ {Nil} \subseteq DOMAIN T
        /\ m.item \notin {t.after, t.before} /\ t.after # t.before
    BY <1>5, PlannedFacts
  <2>2. m = Update(m.item, m.patch, m.pos) /\ m.patch \in Patches(Name, ItemId)
    <3>1. m.name = Nil
      BY <1>5 DEF Planned, Update
    <3> QED BY <2>1, <3>1 DEF Edits, Update
  <2>3. Sound(m, U) /\ Needed(m) \subseteq DOMAIN T
    <3>1. m.item \in U
      BY <2>1, FineFacts
    <3> QED BY <2>1, <3>1 DEF Sound, Needed
  <2> QED BY <2>1, <2>2, <2>3, UpdateLeaves
<1>6. \/ \E n \in Name : m = Add(n, i)
      \/ \E j \in DOMAIN T : ~T[j].note
           /\ m = Update(j, [NoPatch EXCEPT !.checked = ~T[j].checked], Nil)
      \/ \E j \in DOMAIN T :
           m = Update(j, [NoPatch EXCEPT !.note = ~T[j].note, !.checked = FALSE], Nil)
      \/ \E j \in DOMAIN T : m = Delete(j)
      \/ \E from, to \in DOMAIN Unchecked(T) : from # to /\ m = Planned(T, from, to)
  BY DEF EditsOf, Adds, Toggles, Converts, Deletes, Drops
<1> QED BY <1>1, <1>2, <1>3, <1>4, <1>5, <1>6

-----------------------------------------------------------------------------
\* What the server makes of it

\* The table stays fine, its rows keep their names, and only the row of an add
\* comes to it.
Serves(U, T, m, R) ==
  /\ Fine(R, U)
  /\ \A i \in DOMAIN R :
       IF i \in DOMAIN T THEN R[i].name = T[i].name
       ELSE m.kind = "add" /\ i = m.item /\ R[i].name = m.name

LEMMA StoredAdd ==
  ASSUME NEW U \in SUBSET ItemId, NEW T, Fine(T, U), NEW m, Sound(m, U), m.kind = "add"
  PROVE  LET r == Stored(T, m)
         IN  /\ Serves(U, T, m, r.items)
             /\ r.err = "none" /\ r.row = m.item => m.item \in DOMAIN r.items
             /\ r.err # "none" => /\ m.item \in DOMAIN T
                                  /\ \A j \in DOMAIN T : T[j].name # m.name
<1> DEFINE i == m.item
           n == m.name
           H == Holders(T, TheList, n)
           r == Stored(T, m)
<1>1. /\ i \in U /\ n \in Name /\ TheList \in DOMAIN Lists
      /\ r = CreateOrRevive(T, Lists, TheList, n, i)
  BY ListFacts DEF Sound, Stored
<1>2. H \subseteq DOMAIN T /\ \A j \in H : T[j].name = n
  BY DEF Holders, ItemsOf
<1>3. \A j \in DOMAIN T : T[j].name = n => j \in H
  BY FineFacts DEF Holders
<1>4. CASE H # {}
  <2> DEFINE j == CHOOSE k \in H : TRUE
  <2>1. j \in H /\ j \in DOMAIN T
    BY <1>2, <1>4
  <2>2. r.err = "none" /\ r.row = j /\ r.items = With(T, j, Revived(T[j]))
    BY <1>1, <1>4 DEF CreateOrRevive
  <2> HIDE DEF j, r, H
  <2>3. /\ Fine(r.items, U) /\ DOMAIN r.items = DOMAIN T
        /\ \A k \in DOMAIN T : r.items[k].name = T[k].name
    BY <2>1, <2>2, RevivedIsFine
  <2> QED BY <2>1, <2>2, <2>3 DEF Serves, r
<1>5. CASE H = {} /\ i \in DOMAIN T
  <2>1. r.err = "conflict" /\ r.items = T
    BY <1>1, <1>5 DEF CreateOrRevive
  <2> HIDE DEF r, H
  <2> QED BY <1>3, <1>5, <2>1 DEF Serves, r
<1>6. CASE H = {} /\ i \notin DOMAIN T
  <2> DEFINE row == NewItem(T, TheList, n)
  <2>1. r.err = "none" /\ r.items = With(T, i, row)
    BY <1>1, <1>6 DEF CreateOrRevive
  <2>2. row \in ItemRow /\ row.list = TheList /\ row.name = n /\ NoteNotChecked(row)
    BY <1>1, NewItemRow
  <2> HIDE DEF row, r, H
  <2>3. \A j \in DOMAIN T \ {i} : T[j].name # row.name
    BY <1>3, <1>6, <2>2
  <2>4. Wrote(U, T, i, row)
    BY <1>1, <2>2, <2>3, WrittenIsFine
  <2> QED BY <1>6, <2>1, <2>2, <2>4 DEF Serves, Wrote, r
<1> QED BY <1>4, <1>5, <1>6

LEMMA StoredUpdate ==
  ASSUME NEW U \in SUBSET ItemId, NEW T, Fine(T, U), NEW m \in Edits, Sound(m, U),
         m.kind = "update"
  PROVE  LET r == Stored(T, m)
         IN  /\ Serves(U, T, m, r.items)
             /\ DOMAIN r.items = DOMAIN T
<1> DEFINE r == Stored(T, m)
           i == m.item
           p == m.patch
<1>1. /\ r = UpdateItem(T, TheList, i, p) /\ p \in Patches(Name, ItemId) /\ p.name = Nil
  BY DEF Sound, Stored, Edits
<1>2. TablesOK(T, Lists) /\ Sane(T) /\ DOMAIN T \subseteq U
  BY DEF Fine, TablesOK
<1>3. TablesOK(r.items, Lists)
  BY <1>1, <1>2, UpdateItemKeepsSchema
<1>4. CASE r.items = T
  BY <1>2, <1>3, <1>4 DEF Serves, Fine
<1>5. ASSUME InList(T, TheList, i),
             NEW base \in {T, Renormalize(T, TheList)}, NEW pos \in Int,
             r.items = With(base, i, PatchedRow(T[i], p, pos))
      PROVE  Serves(U, T, m, r.items) /\ DOMAIN r.items = DOMAIN T
  <2>1. i \in DOMAIN T /\ T[i] \in ItemRow
    BY <1>5, FineFacts DEF InList, ItemsOf
  <2>2. DOMAIN base = DOMAIN T /\ \A j \in DOMAIN T : base[j].name = T[j].name
    BY <1>2, <1>5, RenormalizeFields
  <2>3. PatchedRow(T[i], p, pos).name = T[i].name
    BY <1>1, <2>1 DEF PatchedRow, Given, ItemRow
  <2>4. /\ DOMAIN r.items = DOMAIN T
        /\ r.items[i] = PatchedRow(T[i], p, pos)
        /\ \A j \in DOMAIN T \ {i} : r.items[j] = base[j]
    BY <1>5, <2>1, <2>2 DEF With
  <2> HIDE DEF r
  <2> QED BY <1>2, <1>3, <2>1, <2>2, <2>3, <2>4 DEF Serves, Fine
<1>6. \/ r.items = T
      \/ /\ InList(T, TheList, i)
         /\ \E base \in {T, Renormalize(T, TheList)}, pos \in Int :
              r.items = With(base, i, PatchedRow(T[i], p, pos))
  <2>1. LET s == UpdateItem(T, TheList, i, p)
        IN  \/ s.items = T
            \/ /\ InList(T, TheList, i)
               /\ \E base \in {T, Renormalize(T, TheList)}, pos \in Int :
                    LET row == PatchedRow(T[i], p, pos)
                    IN  /\ s.items = With(base, i, row)
                        /\ Holders(T, TheList, row.name) \ {i} = {}
                        /\ NoteNotChecked(row)
                        /\ row \in ItemRow
                        /\ row.list = TheList
                        /\ p.reorder = Nil => base = T /\ pos = T[i].pos
    BY <1>1, <1>2, UpdateItemCases
  <2> HIDE DEF r, i, p
  <2> QED BY <1>1, <2>1
<1> HIDE DEF r
<1> QED BY <1>4, <1>5, <1>6 DEF r

LEMMA StoredDelete ==
  ASSUME NEW U \in SUBSET ItemId, NEW T, Fine(T, U), NEW m, m.kind = "delete"
  PROVE  LET r == Stored(T, m)
         IN  /\ Serves(U, T, m, r.items)
             /\ r.err # "none" => m.item \notin DOMAIN T
<1> DEFINE r == Stored(T, m)
<1>1. r = DeleteItem(T, TheList, m.item)
  BY DEF Stored
<1>2. CASE ~InList(T, TheList, m.item)
  <2>1. r.items = T /\ m.item \notin DOMAIN T
    BY <1>1, <1>2, FineFacts DEF DeleteItem
  <2> QED BY <2>1 DEF Serves
<1>3. CASE InList(T, TheList, m.item)
  <2> DEFINE R == Without(T, {m.item})
  <2>1. r.err = "none" /\ r.items = R
    BY <1>1, <1>3 DEF DeleteItem
  <2>2. TablesOK(R, Lists)
    BY RemoveKeepsSchema DEF Fine, TablesOK
  <2>3. DOMAIN R = DOMAIN T \ {m.item} /\ \A j \in DOMAIN R : R[j] = T[j]
    BY DEF Without
  <2> HIDE DEF R
  <2>4. Serves(U, T, m, R)
    BY <2>2, <2>3 DEF Serves, Fine
  <2> QED BY <2>1, <2>4
<1> QED BY <1>2, <1>3

LEMMA StoredFacts ==
  ASSUME NEW U \in SUBSET ItemId, NEW T, Fine(T, U), NEW m \in Edits, Sound(m, U)
  PROVE  Serves(U, T, m, Stored(T, m).items)
<1>1. m.kind \in {"add", "update", "delete"}
  BY DEF Edits
<1> QED BY <1>1, StoredAdd, StoredUpdate, StoredDelete

-----------------------------------------------------------------------------
\* Queues

LEMMA QueueFacts ==
  ASSUME NEW q \in Seq(Entries)
  PROVE  /\ Len(q) \in Nat /\ DOMAIN q = 1 .. Len(q)
         /\ \A k \in DOMAIN q : q[k] \in Entries
         /\ q # <<>> => /\ Head(q) = q[1] /\ 1 \in DOMAIN q
                        /\ Tail(q) \in Seq(Entries)
                        /\ DOMAIN Tail(q) = 1 .. Len(q) - 1
                        /\ \A k \in 1 .. Len(q) - 1 :
                             k + 1 \in DOMAIN q /\ Tail(q)[k] = q[k + 1]
<1>1. Len(q) \in Nat /\ DOMAIN q = 1 .. Len(q) /\ \A k \in DOMAIN q : q[k] \in Entries
  BY LenProperties, ElementOfSeq
<1>2. ASSUME q # <<>>
      PROVE  /\ Head(q) = q[1] /\ 1 \in DOMAIN q
             /\ Tail(q) \in Seq(Entries)
             /\ DOMAIN Tail(q) = 1 .. Len(q) - 1
             /\ \A k \in 1 .. Len(q) - 1 : k + 1 \in DOMAIN q /\ Tail(q)[k] = q[k + 1]
  <2>1. /\ Tail(q) \in Seq(Entries) /\ Len(Tail(q)) = Len(q) - 1
        /\ \A k \in 1 .. Len(Tail(q)) : Tail(q)[k] = q[k + 1]
    BY <1>2, HeadTailProperties
  <2>2. DOMAIN Tail(q) = 1 .. Len(q) - 1
    BY <2>1, LenProperties
  <2>3. Len(q) # 0
    BY <1>2, EmptySeq
  <2>4. Head(q) = q[1]
    BY <1>2
  <2> QED BY <1>1, <2>1, <2>2, <2>3, <2>4
<1> QED BY <1>1, <1>2

LEMMA AppendFacts ==
  ASSUME NEW q \in Seq(Entries), NEW e \in Entries
  PROVE  /\ Append(q, e) \in Seq(Entries) /\ Append(q, e) # <<>>
         /\ DOMAIN Append(q, e) = 1 .. Len(q) + 1
         /\ Append(q, e)[Len(q) + 1] = e
         /\ \A k \in 1 .. Len(q) : Append(q, e)[k] = q[k]
         /\ q # <<>> => Head(Append(q, e)) = Head(q)
<1>1. /\ Append(q, e) \in Seq(Entries) /\ Len(Append(q, e)) = Len(q) + 1
      /\ Append(q, e)[Len(q) + 1] = e
      /\ \A k \in 1 .. Len(q) : Append(q, e)[k] = q[k]
  BY AppendProperties
<1>2. DOMAIN Append(q, e) = 1 .. Len(q) + 1
  BY <1>1, LenProperties
<1>3. Append(q, e) # <<>>
  BY <1>1, LenProperties
<1>4. ASSUME q # <<>> PROVE Head(Append(q, e)) = Head(q)
  <2>1. Head(q) = q[1] /\ 1 \in 1 .. Len(q)
    BY <1>4, QueueFacts
  <2>2. Head(Append(q, e)) = Append(q, e)[1]
    BY <1>1, <1>3, QueueFacts
  <2> QED BY <1>1, <2>1, <2>2
<1> QED BY <1>1, <1>2, <1>3, <1>4

\* The edits a tab makes, with what its cache, its queue and the ids given come
\* to be.
LEMMA EditStep ==
  ASSUME Typed, NEW c \in Clients, Edit(c)
  PROVE  \E m \in Edits, previous \in Tables :
           /\ EditLeaves(used, shown[c], m)
           /\ m.kind = "add" => m.item \notin used
           /\ shown' = [shown EXCEPT ![c] = Patched(shown[c], m)]
           /\ Fine(previous, used \cup {m.item})
           /\ DOMAIN previous \subseteq DOMAIN shown[c]
           /\ queue' = [queue EXCEPT ![c] =
                Append(queue[c], [edit |-> m, previous |-> previous])]
           /\ used' = used \cup {m.item} /\ used' \subseteq ItemId
<1>1. /\ used \in SUBSET ItemId /\ Fine(shown[c], used)
      /\ shown \in [Clients -> Tables] /\ queue \in [Clients -> Seq(Entries)]
  BY DEF Typed
<1>2. used # ItemId
  BY DEF Edit
<1>3. NewId \in ItemId \ used
  BY <1>1, <1>2, NewIdIsNew
<1>4. PICK m \in EditsOf(shown[c], NewId) :
        /\ shown' = [shown EXCEPT ![c] = Patched(@, m)]
        /\ queue' = [queue EXCEPT ![c] =
             Enqueued(@, [edit     |-> m,
                          previous |-> IF m.patch.reorder = Nil THEN shown[c] ELSE shown'[c]])]
        /\ used' = IF m.kind = "add" THEN used \cup {m.item} ELSE used
  BY DEF Edit
<1>5. EditLeaves(used, shown[c], m) /\ (m.kind = "add" => m.item = NewId)
  <2> DEFINE T == shown[c]
             i == NewId
  <2>1. used \in SUBSET ItemId /\ Fine(T, used) /\ i \in ItemId \ used /\ m \in EditsOf(T, i)
    BY <1>1, <1>3, <1>4
  <2> HIDE DEF T, i
  <2>2. EditLeaves(used, T, m) /\ (m.kind = "add" => m.item = i)
    BY <2>1, EditFacts, ZenonT(60)
  <2> QED BY <2>2 DEF T, i
<1>6. /\ m \in Edits /\ Fine(Patched(shown[c], m), used \cup {m.item})
      /\ m.kind # "add" => m.item \in used
      /\ m.kind # "update" => m.patch.reorder = Nil
      /\ DOMAIN Patched(shown[c], m) \subseteq DOMAIN shown[c] \cup {m.item}
      /\ m.kind # "add" => m.item \in DOMAIN shown[c]
  BY <1>1, <1>5, FineFacts DEF EditLeaves, Sound
<1> DEFINE previous == IF m.patch.reorder = Nil THEN shown[c] ELSE shown'[c]
<1>7. shown'[c] = Patched(shown[c], m)
  BY <1>1, <1>4
<1>8. Fine(previous, used \cup {m.item}) /\ DOMAIN previous \subseteq DOMAIN shown[c]
  <2>1. Fine(shown[c], used \cup {m.item})
    BY <1>1, FineGrows
  <2> QED BY <1>6, <1>7, <2>1
<1>9. previous \in Tables
  BY <1>8, FineFacts
<1>10. used' = used \cup {m.item} /\ m.item \in ItemId
  BY <1>4, <1>6 DEF Edits
<1>11. queue' = [queue EXCEPT ![c] = Append(queue[c], [edit |-> m, previous |-> previous])]
  BY <1>1, <1>4 DEF Enqueued
<1> HIDE DEF previous
<1> QED BY <1>1, <1>3, <1>4, <1>5, <1>6, <1>8, <1>9, <1>10, <1>11

-----------------------------------------------------------------------------
\* Types

LEMMA SoundGrows ==
  ASSUME NEW U, NEW m, Sound(m, U), NEW V, U \subseteq V
  PROVE  Sound(m, V)
BY DEF Sound

LEMMA InitTyped == Init => Typed
<1> SUFFICES ASSUME Init PROVE Typed
  OBVIOUS
<1>1. /\ items \in Starts /\ used = DOMAIN items /\ deleted = {} /\ merged = {}
      /\ shown = [c \in Clients |-> items] /\ queue = [c \in Clients |-> <<>>]
      /\ stage = [c \in Clients |-> "sent"] /\ err = [c \in Clients |-> "none"]
      /\ replayed = [c \in Clients |-> FALSE]
  BY DEF Init
<1>2. /\ IsFiniteSet(DOMAIN items) /\ IsTable(items, ItemId, ItemRow)
      /\ \A i \in DOMAIN items : items[i].list = TheList /\ NoteNotChecked(items[i])
      /\ \A i, j \in DOMAIN items : items[i].name = items[j].name => i = j
  BY <1>1, SyncAssumption
<1>3. Fine(items, used) /\ used \subseteq ItemId
  BY <1>1, <1>2, ListFacts DEF Fine, TablesOK, Sane, IsTable
<1>4. items \in Tables
  BY <1>3, FineFacts
<1>5. <<>> \in Seq(Entries) /\ DOMAIN (<<>>) = {}
  BY EmptySeq
<1> QED BY <1>1, <1>3, <1>4, <1>5 DEF Typed, Stages

LEMMA EditTyped ==
  ASSUME Typed, NEW c \in Clients, Edit(c)
  PROVE  Typed'
<1>1. PICK m \in Edits, previous \in Tables :
        /\ EditLeaves(used, shown[c], m)
        /\ shown' = [shown EXCEPT ![c] = Patched(shown[c], m)]
        /\ Fine(previous, used \cup {m.item})
        /\ queue' = [queue EXCEPT ![c] =
             Append(queue[c], [edit |-> m, previous |-> previous])]
        /\ used' = used \cup {m.item} /\ used' \subseteq ItemId
  BY EditStep
<1> DEFINE e == [edit |-> m, previous |-> previous]
           q == queue[c]
           P == Patched(shown[c], m)
<1>2. /\ shown \in [Clients -> Tables] /\ queue \in [Clients -> Seq(Entries)]
      /\ q \in Seq(Entries) /\ e \in Entries /\ e.edit = m /\ e.previous = previous
  BY DEF Typed, Entries
<1>3. Sound(m, used') /\ Fine(P, used') /\ Fine(previous, used') /\ used \subseteq used'
  BY <1>1 DEF EditLeaves
<1>4. Fine(items', used')
  <2>1. items' = items
    BY DEF Edit
  <2> QED BY <1>3, <2>1, FineGrows DEF Typed
<1>5. P \in Tables
  BY <1>3, FineFacts
<1>6. shown'[c] = P /\ \A d \in Clients \ {c} : shown'[d] = shown[d]
  BY <1>1, <1>2
<1>7. queue'[c] = Append(q, e) /\ \A d \in Clients \ {c} : queue'[d] = queue[d]
  BY <1>1, <1>2
<1>8. /\ Append(q, e) \in Seq(Entries) /\ Append(q, e) # <<>>
      /\ DOMAIN Append(q, e) = 1 .. Len(q) + 1
      /\ Append(q, e)[Len(q) + 1] = e
      /\ \A k \in 1 .. Len(q) : Append(q, e)[k] = q[k]
      /\ Len(q) \in Nat /\ DOMAIN q = 1 .. Len(q)
  <2> HIDE DEF q, e
  <2> QED BY <1>2, AppendFacts, QueueFacts
<1>9. shown' \in [Clients -> Tables] /\ queue' \in [Clients -> Seq(Entries)]
  BY <1>1, <1>2, <1>5, <1>8
<1> HIDE DEF e, q, P
<1>10. ASSUME NEW d \in Clients PROVE Fine(shown'[d], used')
  BY <1>3, <1>6, FineGrows DEF Typed
<1>11. ASSUME NEW d \in Clients, NEW k \in DOMAIN queue'[d]
       PROVE  Fine(queue'[d][k].previous, used') /\ Sound(queue'[d][k].edit, used')
  <2>1. ASSUME NEW j \in DOMAIN queue[d]
        PROVE  Fine(queue[d][j].previous, used') /\ Sound(queue[d][j].edit, used')
    <3>1. Fine(queue[d][j].previous, used) /\ Sound(queue[d][j].edit, used)
      BY DEF Typed
    <3> QED BY <1>3, <3>1, FineGrows, SoundGrows
  <2>2. CASE d # c
    BY <1>7, <2>1, <2>2
  <2>3. CASE d = c /\ k = Len(q) + 1
    BY <1>2, <1>3, <1>7, <1>8, <2>3
  <2>4. CASE d = c /\ k \in 1 .. Len(q)
    BY <1>7, <1>8, <2>1, <2>4 DEF q
  <2> QED BY <1>7, <1>8, <2>2, <2>3, <2>4
<1>12. /\ stage' \in [Clients -> Stages]
       /\ \A d \in Clients : queue'[d] = <<>> => stage'[d] = "sent"
  <2>1. stage' = [stage EXCEPT ![c] = IF @ = "settling" THEN "cancelled" ELSE @]
    BY DEF Edit
  <2> QED BY <1>7, <1>8, <2>1 DEF Typed, Stages
<1>13. /\ deleted' \cup merged' \subseteq used'
       /\ DOMAIN err' = Clients /\ DOMAIN replayed' = Clients
  BY <1>3 DEF Typed, Edit
<1> QED BY <1>1, <1>4, <1>9, <1>10, <1>11, <1>12, <1>13 DEF Typed

\* What the server is asked for, and what comes of it.
LEMMA ServeStep ==
  ASSUME Typed, NEW c \in Clients, Serve(c)
  PROVE  LET m == First(c)
         IN  /\ m = queue[c][1].edit /\ 1 \in DOMAIN queue[c]
             /\ m \in Edits /\ Sound(m, used)
             /\ items' = Stored(items, m).items
             /\ Serves(used, items, m, items')
<1>1. queue[c] \in Seq(Entries) /\ queue[c] # <<>> /\ Fine(items, used) /\ used \in SUBSET ItemId
  BY DEF Typed, Serve
<1>2. /\ Head(queue[c]) = queue[c][1] /\ 1 \in DOMAIN queue[c] /\ queue[c][1] \in Entries
  BY <1>1, QueueFacts
<1>3. First(c) = queue[c][1].edit /\ First(c) \in Edits /\ Sound(First(c), used)
  BY <1>2 DEF First, Typed, Entries
<1>4. items' = Stored(items, First(c)).items
  BY DEF Serve
<1>5. Serves(used, items, First(c), Stored(items, First(c)).items)
  BY <1>1, <1>3, StoredFacts
<1> QED BY <1>2, <1>3, <1>4, <1>5

LEMMA ServeTyped ==
  ASSUME Typed, NEW c \in Clients, Serve(c)
  PROVE  Typed'
<1> DEFINE m == First(c)
<1>1. /\ m \in Edits /\ Sound(m, used) /\ Fine(items', used)
  BY ServeStep DEF Serves
<1>2. /\ shown' = shown /\ queue' = queue /\ used' = used
      /\ stage' = [stage EXCEPT ![c] = "answered"] /\ queue[c] # <<>>
      /\ deleted' \subseteq deleted \cup DOMAIN items
      /\ merged' \subseteq merged \cup {m.item}
      /\ DOMAIN err' = DOMAIN err /\ DOMAIN replayed' = Clients
  BY DEF Serve
<1>3. deleted' \cup merged' \subseteq used'
  BY <1>1, <1>2 DEF Typed, Fine, Sound
<1>4. /\ stage' \in [Clients -> Stages]
      /\ \A d \in Clients : queue'[d] = <<>> => stage'[d] = "sent"
  BY <1>2 DEF Typed, Stages
<1> QED BY <1>1, <1>2, <1>3, <1>4 DEF Typed

LEMMA SettleStep ==
  ASSUME Typed, NEW c \in Clients, Settle(c)
  PROVE  /\ queue[c] # <<>> /\ queue' = [queue EXCEPT ![c] = Tail(queue[c])]
         /\ queue' \in [Clients -> Seq(Entries)]
         /\ \A d \in Clients \ {c} : queue'[d] = queue[d]
         /\ DOMAIN queue[c] = 1 .. Len(queue[c]) /\ Len(queue[c]) \in Nat
         /\ DOMAIN queue'[c] = 1 .. Len(queue[c]) - 1
         /\ \A k \in DOMAIN queue'[c] :
              k + 1 \in DOMAIN queue[c] /\ queue'[c][k] = queue[c][k + 1]
<1>1. queue[c] \in Seq(Entries) /\ queue[c] # <<>> /\ queue \in [Clients -> Seq(Entries)]
  BY DEF Typed, Settle
<1>2. queue' = [queue EXCEPT ![c] = Tail(queue[c])]
  BY DEF Settle
<1>3. /\ Tail(queue[c]) \in Seq(Entries)
      /\ Len(queue[c]) \in Nat /\ DOMAIN queue[c] = 1 .. Len(queue[c])
      /\ DOMAIN Tail(queue[c]) = 1 .. Len(queue[c]) - 1
      /\ \A k \in 1 .. Len(queue[c]) - 1 :
           k + 1 \in DOMAIN queue[c] /\ Tail(queue[c])[k] = queue[c][k + 1]
  BY <1>1, QueueFacts
<1> QED BY <1>1, <1>2, <1>3

\* What settles shows what its refetch carries, or what it showed.
LEMMA SettleShows ==
  ASSUME Typed, Carries, NEW c \in Clients, Settle(c)
  PROVE  /\ shown' \in [Clients -> Tables]
         /\ \A d \in Clients : shown'[d] = shown[d] \/ shown'[d] \in carried[d]
<1>1. shown \in [Clients -> Tables] /\ carried[c] \subseteq Tables
  BY DEF Typed, Carries
<1>2. \/ shown' \in {[shown EXCEPT ![c] = T] : T \in carried[c]}
      \/ shown' = shown
  BY DEF Settle
<1> QED BY <1>1, <1>2

LEMMA SettleTyped ==
  ASSUME Typed, Carries, NEW c \in Clients, Settle(c)
  PROVE  Typed'
<1>1. /\ queue' \in [Clients -> Seq(Entries)]
      /\ \A d \in Clients \ {c} : queue'[d] = queue[d]
      /\ \A k \in DOMAIN queue'[c] :
           k + 1 \in DOMAIN queue[c] /\ queue'[c][k] = queue[c][k + 1]
  BY SettleStep
<1>2. /\ stage' = [stage EXCEPT ![c] = "sent"] /\ err' = err /\ replayed' = replayed
      /\ items' = items /\ used' = used /\ deleted' = deleted /\ merged' = merged
  BY DEF Settle, history
<1>3. /\ shown' \in [Clients -> Tables]
      /\ \A d \in Clients : Fine(shown'[d], used)
  BY SettleShows DEF Typed, Carries
<1>4. \A d \in Clients : \A k \in DOMAIN queue'[d] :
        \E j \in DOMAIN queue[d] : queue'[d][k] = queue[d][j]
  BY <1>1
<1>5. /\ stage' \in [Clients -> Stages]
      /\ DOMAIN err' = Clients /\ DOMAIN replayed' = Clients
      /\ \A d \in Clients : queue'[d] = <<>> => stage'[d] = "sent"
  BY <1>1, <1>2 DEF Typed, Stages
<1> QED BY <1>1, <1>2, <1>3, <1>4, <1>5 DEF Typed

\* The steps that leave the server, the queues and the ids as they are.
LEMMA AnswerTyped ==
  ASSUME Typed, NEW c \in Clients, Answer(c) \/ AnswerLost(c) \/ Fetch(c) \/ Refetch(c)
  PROVE  /\ Typed'
         /\ items' = items /\ queue' = queue /\ used' = used
         /\ deleted' = deleted /\ merged' = merged
         /\ \A d \in Clients : replayed'[d] => replayed[d]
         /\ \A d \in Clients : \/ shown'[d] \in {shown[d], items}
                               \/ queue[d] # <<>> /\ shown'[d] = Head(queue[d]).previous
<1>1. /\ items' = items /\ queue' = queue /\ used' = used
      /\ deleted' = deleted /\ merged' = merged
      /\ DOMAIN err' = Clients /\ DOMAIN replayed' = Clients
      /\ \A d \in Clients : replayed'[d] => replayed[d]
  BY DEF Answer, AnswerLost, Fetch, Refetch, history, sending, Typed
<1>2. items \in Tables /\ Fine(items, used) /\ shown \in [Clients -> Tables]
  BY FineFacts DEF Typed
<1>3. ASSUME Answer(c)
      PROVE  /\ Head(queue[c]).previous \in Tables /\ Fine(Head(queue[c]).previous, used)
             /\ queue[c] # <<>>
  <2>1. queue[c] \in Seq(Entries) /\ queue[c] # <<>>
    BY <1>3 DEF Answer, Typed
  <2>2. Head(queue[c]) = queue[c][1] /\ 1 \in DOMAIN queue[c] /\ queue[c][1] \in Entries
    BY <2>1, QueueFacts
  <2> QED BY <2>1, <2>2 DEF Typed, Entries
<1>4. /\ shown' \in [Clients -> Tables]
      /\ \A d \in Clients : \/ shown'[d] \in {shown[d], items}
                            \/ queue[d] # <<>> /\ shown'[d] = Head(queue[d]).previous
      /\ \A d \in Clients : Fine(shown'[d], used)
  <2>1. CASE Answer(c)
    <3>1. shown' = shown \/ shown' = [shown EXCEPT ![c] = Head(queue[c]).previous]
      BY <2>1 DEF Answer
    <3> QED BY <1>2, <1>3, <2>1, <3>1 DEF Typed
  <2>2. CASE AnswerLost(c) \/ Fetch(c)
    BY <1>2, <2>2 DEF AnswerLost, Fetch, Typed
  <2>3. CASE Refetch(c)
    <3>1. shown' = [shown EXCEPT ![c] = items]
      BY <2>3 DEF Refetch
    <3> QED BY <1>2, <3>1 DEF Typed
  <2> QED BY <2>1, <2>2, <2>3
<1>5. /\ stage' \in [Clients -> Stages]
      /\ \A d \in Clients : queue'[d] = <<>> => stage'[d] = "sent"
  <2>1. CASE Answer(c)
    <3>1. stage' = [stage EXCEPT ![c] = "settling"] /\ stage[c] = "answered"
      BY <2>1 DEF Answer
    <3> QED BY <1>1, <1>3, <2>1, <3>1 DEF Typed, Stages
  <2>2. CASE AnswerLost(c)
    BY <1>1, <2>2 DEF AnswerLost, Typed, Stages
  <2>3. CASE Fetch(c) \/ Refetch(c)
    BY <1>1, <2>3 DEF Fetch, Refetch, sending, Typed
  <2> QED BY <2>1, <2>2, <2>3
<1> QED BY <1>1, <1>2, <1>4, <1>5 DEF Typed

LEMMA NextTyped ==
  ASSUME Typed, Carries, [Next]_vars
  PROVE  Typed'
<1>1. CASE UNCHANGED vars
  BY <1>1 DEF Typed, vars, sending, history, bounds
<1>2. ASSUME NEW c \in Clients, Edit(c) \/ Runs(c) \/ AnswerLost(c) \/ Refetch(c)
      PROVE  Typed'
  BY <1>2, EditTyped, ServeTyped, SettleTyped, AnswerTyped DEF Runs
<1> QED BY <1>1, <1>2 DEF Next

-----------------------------------------------------------------------------
\* Adds

\* The queue of a tab with an edit more.
Enqueues(c, m, previous) ==
  /\ \A d \in Clients \ {c} : queue'[d] = queue[d]
  /\ Len(queue[c]) \in Nat
  /\ DOMAIN queue[c] = 1 .. Len(queue[c])
  /\ DOMAIN queue'[c] = 1 .. Len(queue[c]) + 1
  /\ \A k \in DOMAIN queue[c] : queue'[c][k] = queue[c][k]
  /\ queue'[c][Len(queue[c]) + 1].edit = m
  /\ queue'[c][Len(queue[c]) + 1].previous = previous
  /\ queue[c] # <<>> => queue'[c] # <<>> /\ Head(queue'[c]) = Head(queue[c])

LEMMA EditEnqueues ==
  ASSUME Typed, NEW c \in Clients, Edit(c)
  PROVE  \E m \in Edits, previous \in Tables :
           /\ Enqueues(c, m, previous)
           /\ Sound(m, used \cup {m.item}) /\ Needed(m) \subseteq DOMAIN shown[c]
           /\ m.kind = "add" => m.item \notin used
           /\ \A d \in Clients \ {c} : shown'[d] = shown[d]
           /\ \A i \in DOMAIN shown'[c] :
                i \in DOMAIN shown[c] \/ (m.kind = "add" /\ i = m.item)
           /\ DOMAIN previous \subseteq DOMAIN shown[c]
           /\ used' = used \cup {m.item}
<1>1. PICK m \in Edits, previous \in Tables :
           /\ EditLeaves(used, shown[c], m)
           /\ m.kind = "add" => m.item \notin used
           /\ shown' = [shown EXCEPT ![c] = Patched(shown[c], m)]
           /\ DOMAIN previous \subseteq DOMAIN shown[c]
           /\ queue' = [queue EXCEPT ![c] =
                Append(queue[c], [edit |-> m, previous |-> previous])]
           /\ used' = used \cup {m.item}
  BY EditStep
<1> DEFINE e == [edit |-> m, previous |-> previous]
           q == queue[c]
<1>2. /\ q \in Seq(Entries) /\ e \in Entries /\ e.edit = m /\ e.previous = previous
      /\ queue \in [Clients -> Seq(Entries)] /\ shown \in [Clients -> Tables]
  BY DEF Typed, Entries
<1>3. queue' = [queue EXCEPT ![c] = Append(q, e)]
  BY <1>1
<1> HIDE DEF e
<1>4. /\ Append(q, e) # <<>>
      /\ DOMAIN Append(q, e) = 1 .. Len(q) + 1
      /\ Append(q, e)[Len(q) + 1] = e
      /\ \A k \in 1 .. Len(q) : Append(q, e)[k] = q[k]
      /\ q # <<>> => Head(Append(q, e)) = Head(q)
      /\ Len(q) \in Nat /\ DOMAIN q = 1 .. Len(q)
  <2> HIDE DEF q
  <2> QED BY <1>2, AppendFacts, QueueFacts
<1>5. Enqueues(c, m, previous)
  BY <1>2, <1>3, <1>4 DEF Enqueues
<1>6. /\ \A d \in Clients \ {c} : shown'[d] = shown[d]
      /\ \A i \in DOMAIN shown'[c] :
           i \in DOMAIN shown[c] \/ (m.kind = "add" /\ i = m.item)
  BY <1>1, <1>2 DEF EditLeaves
<1>7. Sound(m, used \cup {m.item}) /\ Needed(m) \subseteq DOMAIN shown[c]
  BY <1>1 DEF EditLeaves
<1> QED BY <1>1, <1>5, <1>6, <1>7

LEMMA NextAddsNamed ==
  ASSUME Typed, AddsNamed, [Next]_vars
  PROVE  AddsNamed'
<1>1. \A c \in Clients : \A k \in DOMAIN queue[c] : queue[c][k].edit.item \in used
  BY DEF Typed, Sound
<1>2. DOMAIN items \subseteq used
  BY DEF Typed, Fine
<1>3. ASSUME NEW c \in Clients, Edit(c)
      PROVE  AddsNamed'
  <2>1. PICK m \in Edits, previous \in Tables :
          /\ Enqueues(c, m, previous)
          /\ m.kind = "add" => m.item \notin used
    BY <1>3, EditEnqueues
  <2> DEFINE n == Len(queue[c]) + 1
  <2>2. \A d \in Clients : \A k \in DOMAIN queue'[d] :
          \/ k \in DOMAIN queue[d] /\ queue'[d][k] = queue[d][k]
          \/ d = c /\ k = n /\ queue'[d][k].edit = m
    BY <2>1 DEF Enqueues
  <2>3. items' = items
    BY <1>3 DEF Edit
  <2> HIDE DEF n
  <2>4. ASSUME NEW d \in Clients, NEW k \in DOMAIN queue'[d],
               NEW b \in Clients, NEW j \in DOMAIN queue'[b], NEW i,
               IsAdd(d, k, i)', IsAdd(b, j, i)'
        PROVE  queue'[d][k].edit.name = queue'[b][j].edit.name
    <3>1. CASE /\ k \in DOMAIN queue[d] /\ queue'[d][k] = queue[d][k]
               /\ j \in DOMAIN queue[b] /\ queue'[b][j] = queue[b][j]
      BY <1>1, <2>4, <3>1 DEF AddsNamed, IsAdd
    <3>2. CASE /\ k \in DOMAIN queue[d] /\ queue'[d][k] = queue[d][k]
               /\ queue'[b][j].edit = m
      BY <1>1, <2>1, <2>4, <3>2 DEF IsAdd
    <3>3. CASE /\ j \in DOMAIN queue[b] /\ queue'[b][j] = queue[b][j]
               /\ queue'[d][k].edit = m
      BY <1>1, <2>1, <2>4, <3>3 DEF IsAdd
    <3>4. CASE queue'[d][k].edit = m /\ queue'[b][j].edit = m
      BY <3>4
    <3> QED BY <2>2, <3>1, <3>2, <3>3, <3>4
  <2>5. ASSUME NEW d \in Clients, NEW k \in DOMAIN queue'[d], NEW i \in DOMAIN items',
               IsAdd(d, k, i)'
        PROVE  items'[i].name = queue'[d][k].edit.name
    BY <1>2, <2>1, <2>2, <2>3, <2>5 DEF AddsNamed, IsAdd
  <2> QED BY <2>4, <2>5 DEF AddsNamed
<1>4. ASSUME NEW c \in Clients, Serve(c)
      PROVE  AddsNamed'
  <2>1. /\ First(c) = queue[c][1].edit /\ 1 \in DOMAIN queue[c]
        /\ Serves(used, items, First(c), items')
    BY <1>4, ServeStep
  <2>2. queue' = queue /\ used' = used
    BY <1>4 DEF Serve
  <2>3. ASSUME NEW d \in Clients, NEW k \in DOMAIN queue[d], NEW i \in DOMAIN items',
               IsAdd(d, k, i)
        PROVE  items'[i].name = queue[d][k].edit.name
    <3>1. CASE i \in DOMAIN items
      BY <2>1, <2>3, <3>1 DEF AddsNamed, Serves
    <3>2. CASE i \notin DOMAIN items
      <4>1. IsAdd(c, 1, i) /\ items'[i].name = queue[c][1].edit.name /\ i \in used
        BY <1>1, <2>1, <2>3, <3>2 DEF Serves, IsAdd
      <4> QED BY <2>1, <2>3, <4>1 DEF AddsNamed
    <3> QED BY <3>1, <3>2
  <2> QED BY <2>2, <2>3 DEF AddsNamed, IsAdd
<1>5. ASSUME NEW c \in Clients, Settle(c)
      PROVE  AddsNamed'
  <2>1. /\ \A d \in Clients \ {c} : queue'[d] = queue[d]
        /\ \A k \in DOMAIN queue'[c] :
             k + 1 \in DOMAIN queue[c] /\ queue'[c][k] = queue[c][k + 1]
    BY <1>5, SettleStep
  <2>2. \A d \in Clients : \A k \in DOMAIN queue'[d] :
          \E j \in DOMAIN queue[d] : queue'[d][k] = queue[d][j]
    BY <2>1
  <2>3. items' = items /\ used' = used
    BY <1>5 DEF Settle, history
  <2>4. ASSUME NEW d \in Clients, NEW k \in DOMAIN queue'[d],
               NEW b \in Clients, NEW j \in DOMAIN queue'[b], NEW i \in used,
               IsAdd(d, k, i)', IsAdd(b, j, i)'
        PROVE  queue'[d][k].edit.name = queue'[b][j].edit.name
    <3>1. PICK x \in DOMAIN queue[d] : queue'[d][k] = queue[d][x]
      BY <2>2
    <3>2. PICK y \in DOMAIN queue[b] : queue'[b][j] = queue[b][y]
      BY <2>2
    <3> QED BY <2>4, <3>1, <3>2 DEF AddsNamed, IsAdd
  <2>5. ASSUME NEW d \in Clients, NEW k \in DOMAIN queue'[d], NEW i \in DOMAIN items,
               IsAdd(d, k, i)'
        PROVE  items[i].name = queue'[d][k].edit.name
    <3>1. PICK x \in DOMAIN queue[d] : queue'[d][k] = queue[d][x]
      BY <2>2
    <3> QED BY <2>5, <3>1 DEF AddsNamed, IsAdd
  <2> QED BY <2>3, <2>4, <2>5 DEF AddsNamed
<1>6. ASSUME NEW c \in Clients, Answer(c) \/ AnswerLost(c) \/ Fetch(c) \/ Refetch(c)
      PROVE  AddsNamed'
  <2>1. items' = items /\ queue' = queue /\ used' = used
    BY <1>6, AnswerTyped
  <2> QED BY <2>1 DEF AddsNamed, IsAdd
<1>7. CASE UNCHANGED vars
  BY <1>7 DEF AddsNamed, IsAdd, vars, sending, history
<1> QED BY <1>3, <1>4, <1>5, <1>6, <1>7 DEF Next, Runs

-----------------------------------------------------------------------------
\* Rows that are known, or waited for

\* What was once on the server stays known.
LEMMA ServeKnows ==
  ASSUME NEW c \in Clients, Serve(c), NEW i, Known(i)
  PROVE  Known(i)'
BY DEF Serve, Known

\* An add that is served makes its id known.
LEMMA ServedAddIsKnown ==
  ASSUME Typed, NEW c \in Clients, Serve(c), NEW i, First(c).kind = "add", First(c).item = i
  PROVE  Known(i)'
<1> DEFINE m == First(c)
           r == Stored(items, m)
<1>1. m \in Edits /\ Sound(m, used) /\ items' = r.items
  BY ServeStep
<1>2. used \in SUBSET ItemId /\ Fine(items, used)
  BY DEF Typed
<1>3. /\ merged' = IF m.kind = "add" /\ r.err = "none" /\ r.row # m.item
                   THEN merged \cup {m.item} ELSE merged
      /\ m.kind = "add" /\ m.item = i
  BY DEF Serve
<1>4. /\ r.err = "none" /\ r.row = i => i \in DOMAIN r.items
      /\ r.err # "none" => i \in DOMAIN items
  <2> HIDE DEF m
  <2> QED BY <1>1, <1>2, <1>3, StoredAdd
<1> HIDE DEF m, r
<1>5. CASE r.err = "none" /\ r.row = i
  BY <1>1, <1>4, <1>5 DEF Known
<1>6. CASE r.err = "none" /\ r.row # i
  BY <1>3, <1>6 DEF Known
<1>7. CASE r.err # "none"
  <2>1. Known(i)
    BY <1>4, <1>7 DEF Known
  <2> QED BY <2>1, ServeKnows
<1> QED BY <1>5, <1>6, <1>7

LEMMA EditFollowed ==
  ASSUME Typed, Followed, NEW c \in Clients, Edit(c)
  PROVE  Followed'
<1>1. PICK m \in Edits, previous \in Tables :
        /\ Enqueues(c, m, previous)
        /\ Needed(m) \subseteq DOMAIN shown[c]
        /\ m.kind = "add" => m.item \notin used
        /\ \A d \in Clients \ {c} : shown'[d] = shown[d]
        /\ \A i \in DOMAIN shown'[c] :
             i \in DOMAIN shown[c] \/ (m.kind = "add" /\ i = m.item)
        /\ DOMAIN previous \subseteq DOMAIN shown[c]
        /\ used' = used \cup {m.item}
  BY EditEnqueues
<1>0. PICK n : n = Len(queue[c]) + 1
  OBVIOUS
<1>2. /\ n \in Nat /\ n \in DOMAIN queue'[c] /\ DOMAIN queue[c] = 1 .. n - 1
      /\ queue'[c][n].edit = m /\ queue'[c][n].previous = previous
      /\ \A d \in Clients : \A k \in DOMAIN queue[d] :
           k \in DOMAIN queue'[d] /\ queue'[d][k] = queue[d][k]
      /\ \A d \in Clients : \A k \in DOMAIN queue'[d] :
           k \in DOMAIN queue[d] \/ (d = c /\ k = n)
      /\ \A d \in Clients : DOMAIN queue[d] \subseteq Nat
  <2>1. \A d \in Clients : DOMAIN queue[d] \subseteq Nat
    <3>1. \A d \in Clients : DOMAIN queue[d] = 1 .. Len(queue[d]) /\ Len(queue[d]) \in Nat
      BY QueueFacts DEF Typed
    <3> QED BY <3>1
  <2> QED BY <1>0, <1>1, <2>1 DEF Enqueues
<1>3. \A i : Known(i)' <=> Known(i)
  <2>1. items' = items /\ deleted' = deleted /\ merged' = merged
    BY DEF Edit
  <2> QED BY <2>1 DEF Known
<1>4. \A d \in Clients : \A k \in DOMAIN queue[d] : \A i :
        IsAdd(d, k, i) <=> IsAdd(d, k, i)'
  BY <1>2 DEF IsAdd
<1>5. ASSUME NEW d \in Clients, NEW i, Known(i) \/ \E j \in DOMAIN queue[d] : IsAdd(d, j, i)
      PROVE  Known(i)' \/ \E j \in DOMAIN queue'[d] : IsAdd(d, j, i)'
  BY <1>2, <1>3, <1>4, <1>5
<1>6. ASSUME NEW i \in DOMAIN shown[c]
      PROVE  Known(i) \/ \E j \in 1 .. n - 1 : IsAdd(c, j, i)
  BY <1>2 DEF Followed
<1>7. ASSUME NEW d \in Clients, NEW k \in DOMAIN queue'[d],
             NEW i \in Needed(queue'[d][k].edit)
      PROVE  Known(i)' \/ \E j \in 1 .. k - 1 : IsAdd(d, j, i)'
  <2>1. CASE k \in DOMAIN queue[d]
    <3>1. Known(i) \/ \E j \in 1 .. k - 1 : IsAdd(d, j, i)
      BY <1>2, <2>1 DEF Followed
    <3>2. \A j \in 1 .. k - 1 : j \in DOMAIN queue[d]
      <4>1. DOMAIN queue[d] = 1 .. Len(queue[d]) /\ Len(queue[d]) \in Nat
        BY QueueFacts DEF Typed
      <4> QED BY <2>1, <4>1
    <3> QED BY <1>3, <1>4, <3>1, <3>2
  <2>2. CASE d = c /\ k = n
    <3>1. i \in DOMAIN shown[c]
      BY <1>1, <1>2, <2>2
    <3>2. Known(i) \/ \E j \in 1 .. n - 1 : IsAdd(c, j, i)
      BY <1>6, <3>1
    <3> QED BY <1>2, <1>3, <1>4, <2>2, <3>2
  <2> QED BY <1>2, <2>1, <2>2
<1>8. ASSUME NEW d \in Clients, NEW i \in DOMAIN shown'[d]
      PROVE  Known(i)' \/ \E j \in DOMAIN queue'[d] : IsAdd(d, j, i)'
  <2>1. CASE i \in DOMAIN shown[d]
    BY <1>5, <2>1 DEF Followed
  <2>2. CASE d = c /\ m.kind = "add" /\ i = m.item
    <3>1. IsAdd(c, n, i)'
      BY <1>2, <2>2 DEF IsAdd
    <3> QED BY <1>2, <2>2, <3>1
  <2> QED BY <1>1, <2>1, <2>2
<1>9. ASSUME NEW d \in Clients, NEW k \in DOMAIN queue'[d],
             NEW i \in DOMAIN queue'[d][k].previous
      PROVE  Known(i)' \/ \E j \in DOMAIN queue'[d] : IsAdd(d, j, i)'
  <2>1. CASE k \in DOMAIN queue[d]
    <3>1. Known(i) \/ \E j \in DOMAIN queue[d] : IsAdd(d, j, i)
      BY <1>2, <2>1 DEF Followed
    <3> QED BY <1>5, <3>1
  <2>2. CASE d = c /\ k = n
    <3>1. i \in DOMAIN shown[d]
      BY <1>1, <1>2, <2>2
    <3>2. Known(i) \/ \E j \in DOMAIN queue[d] : IsAdd(d, j, i)
      BY <3>1 DEF Followed
    <3> QED BY <1>5, <3>2
  <2> QED BY <1>2, <2>1, <2>2
<1>10. ASSUME NEW d \in Clients, NEW i \in used', stage'[d] # "sent", IsAdd(d, 1, i)'
       PROVE  Known(i)'
  <2>1. stage[d] # "sent"
    BY <1>10 DEF Edit, Typed
  <2>2. queue[d] # <<>>
    BY <2>1 DEF Typed
  <2>3. 1 \in DOMAIN queue[d] /\ IsAdd(d, 1, i)
    <3>1. 1 \in DOMAIN queue[d]
      BY <2>2, QueueFacts DEF Typed
    <3> QED BY <1>4, <1>10, <3>1
  <2>4. i \in used
    BY <2>3 DEF Typed, Sound, IsAdd
  <2> QED BY <1>3, <2>1, <2>2, <2>3, <2>4 DEF Followed
<1> QED BY <1>7, <1>8, <1>9, <1>10 DEF Followed

LEMMA ServeFollowed ==
  ASSUME Typed, Followed, NEW c \in Clients, Serve(c)
  PROVE  Followed'
<1>1. /\ queue' = queue /\ shown' = shown /\ used' = used
      /\ stage' = [stage EXCEPT ![c] = "answered"] /\ stage \in [Clients -> Stages]
  BY DEF Serve, Typed
<1>2. \A i : Known(i) => Known(i)'
  BY ServeKnows
<1>3. \A d, k, i : IsAdd(d, k, i)' <=> IsAdd(d, k, i)
  BY <1>1 DEF IsAdd
<1>4. ASSUME NEW d \in Clients, NEW i \in used, queue[d] # <<>>, stage'[d] # "sent",
             IsAdd(d, 1, i)
      PROVE  Known(i)'
  <2>1. CASE d = c
    <3>1. First(c).kind = "add" /\ First(c).item = i
      BY <1>4, <2>1, ServeStep DEF IsAdd
    <3> QED BY <3>1, ServedAddIsKnown
  <2>2. CASE d # c
    BY <1>1, <1>2, <1>4, <2>2 DEF Followed
  <2> QED BY <2>1, <2>2
<1>5. ASSUME NEW d \in Clients, NEW k \in DOMAIN queue[d], NEW i \in Needed(queue[d][k].edit)
      PROVE  Known(i)' \/ \E j \in 1 .. k - 1 : IsAdd(d, j, i)'
  BY <1>2, <1>3 DEF Followed
<1>6. ASSUME NEW d \in Clients, NEW i,
             \/ i \in DOMAIN shown[d]
             \/ \E k \in DOMAIN queue[d] : i \in DOMAIN queue[d][k].previous
      PROVE  Known(i)' \/ \E j \in DOMAIN queue[d] : IsAdd(d, j, i)'
  BY <1>2, <1>3, <1>6 DEF Followed
<1> QED BY <1>1, <1>3, <1>4, <1>5, <1>6 DEF Followed

LEMMA SettleFollowed ==
  ASSUME Typed, Carries, Followed, NEW c \in Clients, Settle(c)
  PROVE  Followed'
<1>1. /\ queue[c] # <<>>
      /\ \A d \in Clients \ {c} : queue'[d] = queue[d]
      /\ DOMAIN queue[c] = 1 .. Len(queue[c]) /\ Len(queue[c]) \in Nat
      /\ DOMAIN queue'[c] = 1 .. Len(queue[c]) - 1
      /\ \A k \in DOMAIN queue'[c] :
           k + 1 \in DOMAIN queue[c] /\ queue'[c][k] = queue[c][k + 1]
  BY SettleStep
<1>2. /\ stage' = [stage EXCEPT ![c] = "sent"] /\ stage[c] # "sent"
      /\ items' = items /\ used' = used /\ deleted' = deleted /\ merged' = merged
  BY DEF Settle, history
<1>3. \A i : Known(i)' <=> Known(i)
  BY <1>2 DEF Known
<1>4. \A i : IsAdd(c, 1, i) => Known(i)
  <2>1. 1 \in DOMAIN queue[c]
    BY <1>1, QueueFacts DEF Typed
  <2>2. \A i : IsAdd(c, 1, i) => i \in used
    BY <2>1 DEF Typed, Sound, IsAdd
  <2> QED BY <1>1, <1>2, <2>2 DEF Followed
<1>5. ASSUME NEW i, NEW n \in 0 .. Len(queue[c]),
             Known(i) \/ \E j \in 1 .. n : IsAdd(c, j, i)
      PROVE  Known(i)' \/ \E j \in 1 .. n - 1 : IsAdd(c, j, i)'
  <2>1. CASE Known(i)
    BY <1>3, <2>1
  <2>2. ASSUME NEW j \in 1 .. n, IsAdd(c, j, i)
        PROVE  Known(i)' \/ \E x \in 1 .. n - 1 : IsAdd(c, x, i)'
    <3>1. CASE j = 1
      BY <1>3, <1>4, <2>2, <3>1
    <3>2. CASE j # 1
      <4>1. /\ j - 1 \in 1 .. n - 1 /\ j - 1 \in DOMAIN queue'[c]
            /\ queue'[c][j - 1] = queue[c][(j - 1) + 1] /\ (j - 1) + 1 = j
        BY <1>1, <2>2, <3>2
      <4>2. IsAdd(c, j - 1, i)'
        BY <2>2, <4>1 DEF IsAdd
      <4> QED BY <4>1, <4>2
    <3> QED BY <3>1, <3>2
  <2> QED BY <1>5, <2>1, <2>2
<1>6. ASSUME NEW d \in Clients, NEW k \in DOMAIN queue'[d],
             NEW i \in Needed(queue'[d][k].edit)
      PROVE  Known(i)' \/ \E j \in 1 .. k - 1 : IsAdd(d, j, i)'
  <2>1. CASE d # c
    <3>1. queue'[d] = queue[d]
      BY <1>1, <2>1
    <3>2. Known(i) \/ \E j \in 1 .. k - 1 : IsAdd(d, j, i)
      BY <3>1 DEF Followed
    <3> QED BY <1>3, <3>1, <3>2 DEF IsAdd
  <2>2. CASE d = c
    <3>1. k \in 0 .. Len(queue[c]) /\ k + 1 \in DOMAIN queue[c] /\ (k + 1) - 1 = k
          /\ i \in Needed(queue[c][k + 1].edit)
      BY <1>1, <2>2
    <3>2. Known(i) \/ \E j \in 1 .. (k + 1) - 1 : IsAdd(c, j, i)
      BY <3>1 DEF Followed
    <3>3. Known(i) \/ \E j \in 1 .. k : IsAdd(c, j, i)
      BY <3>1, <3>2
    <3> QED BY <1>5, <2>2, <3>1, <3>3
  <2> QED BY <2>1, <2>2
<1>7. ASSUME NEW d \in Clients, NEW i, Known(i) \/ \E j \in DOMAIN queue[d] : IsAdd(d, j, i)
      PROVE  Known(i)' \/ \E j \in DOMAIN queue'[d] : IsAdd(d, j, i)'
  <2>1. CASE d # c
    BY <1>1, <1>3, <1>7, <2>1 DEF IsAdd
  <2>2. CASE d = c
    <3>1. Len(queue[c]) \in 0 .. Len(queue[c])
      BY <1>1
    <3>2. Known(i) \/ \E j \in 1 .. Len(queue[c]) : IsAdd(c, j, i)
      BY <1>1, <1>7, <2>2
    <3>3. Known(i)' \/ \E j \in 1 .. Len(queue[c]) - 1 : IsAdd(c, j, i)'
      BY <1>5, <3>1, <3>2
    <3> QED BY <1>1, <2>2, <3>3
  <2> QED BY <2>1, <2>2
<1>8. ASSUME NEW d \in Clients, NEW i \in DOMAIN shown'[d]
      PROVE  Known(i)' \/ \E j \in DOMAIN queue'[d] : IsAdd(d, j, i)'
  <2>1. shown'[d] = shown[d] \/ shown'[d] \in carried[d]
    BY SettleShows
  <2>2. CASE shown'[d] = shown[d]
    BY <1>7, <2>2 DEF Followed
  <2>3. CASE shown'[d] \in carried[d]
    BY <1>3, <2>3 DEF Carries
  <2> QED BY <2>1, <2>2, <2>3
<1>9. ASSUME NEW d \in Clients, NEW k \in DOMAIN queue'[d],
             NEW i \in DOMAIN queue'[d][k].previous
      PROVE  Known(i)' \/ \E j \in DOMAIN queue'[d] : IsAdd(d, j, i)'
  <2>1. \E x \in DOMAIN queue[d] : queue'[d][k] = queue[d][x]
    BY <1>1
  <2>2. Known(i) \/ \E j \in DOMAIN queue[d] : IsAdd(d, j, i)
    BY <2>1 DEF Followed
  <2> QED BY <1>7, <2>2
<1>10. ASSUME NEW d \in Clients, NEW i \in used', queue'[d] # <<>>, stage'[d] # "sent",
              IsAdd(d, 1, i)'
       PROVE  Known(i)'
  <2>1. d # c /\ stage[d] # "sent"
    BY <1>2, <1>10 DEF Typed
  <2>2. queue'[d] = queue[d]
    BY <1>1, <2>1
  <2> QED BY <1>2, <1>3, <1>10, <2>1, <2>2 DEF Followed, IsAdd
<1> QED BY <1>6, <1>8, <1>9, <1>10 DEF Followed

LEMMA AnswerFollowed ==
  ASSUME Typed, Followed, NEW c \in Clients,
         Answer(c) \/ AnswerLost(c) \/ Fetch(c) \/ Refetch(c)
  PROVE  Followed'
<1>1. /\ items' = items /\ queue' = queue /\ used' = used
      /\ deleted' = deleted /\ merged' = merged
      /\ \A d \in Clients : \/ shown'[d] \in {shown[d], items}
                            \/ queue[d] # <<>> /\ shown'[d] = Head(queue[d]).previous
  BY AnswerTyped
<1>2. /\ \A i : Known(i)' <=> Known(i)
      /\ \A d, k, i : IsAdd(d, k, i)' <=> IsAdd(d, k, i)
  BY <1>1 DEF Known, IsAdd
<1>3. ASSUME NEW d \in Clients, NEW i \in DOMAIN shown'[d]
      PROVE  Known(i) \/ \E j \in DOMAIN queue[d] : IsAdd(d, j, i)
  <2>1. CASE shown'[d] = shown[d]
    BY <2>1 DEF Followed
  <2>2. CASE shown'[d] = items
    BY <2>2 DEF Known
  <2>3. CASE queue[d] # <<>> /\ shown'[d] = Head(queue[d]).previous
    <3>1. Head(queue[d]) = queue[d][1] /\ 1 \in DOMAIN queue[d]
      BY <2>3, QueueFacts DEF Typed
    <3> QED BY <2>3, <3>1 DEF Followed
  <2> QED BY <1>1, <2>1, <2>2, <2>3
<1>4. \A d \in Clients : stage'[d] # "sent" => stage[d] # "sent"
  BY DEF Answer, AnswerLost, Fetch, Refetch, sending, Typed
<1>5. ASSUME NEW d \in Clients, NEW k \in DOMAIN queue[d], NEW i \in Needed(queue[d][k].edit)
      PROVE  Known(i) \/ \E j \in 1 .. k - 1 : IsAdd(d, j, i)
  BY DEF Followed
<1>6. ASSUME NEW d \in Clients, NEW k \in DOMAIN queue[d], NEW i \in DOMAIN queue[d][k].previous
      PROVE  Known(i) \/ \E j \in DOMAIN queue[d] : IsAdd(d, j, i)
  BY DEF Followed
<1>7. ASSUME NEW d \in Clients, NEW i \in used, queue[d] # <<>>, stage'[d] # "sent",
             IsAdd(d, 1, i)
      PROVE  Known(i)
  BY <1>4, <1>7 DEF Followed
<1> QED BY <1>1, <1>2, <1>3, <1>5, <1>6, <1>7 DEF Followed

LEMMA NextFollowed ==
  ASSUME Typed, Carries, Followed, [Next]_vars
  PROVE  Followed'
<1>1. CASE UNCHANGED vars
  BY <1>1 DEF Followed, Known, IsAdd, vars, sending, history
<1>2. ASSUME NEW c \in Clients, Edit(c) \/ Runs(c) \/ AnswerLost(c) \/ Refetch(c)
      PROVE  Followed'
  BY <1>2, EditFollowed, ServeFollowed, SettleFollowed, AnswerFollowed DEF Runs
<1> QED BY <1>1, <1>2 DEF Next

-----------------------------------------------------------------------------
\* What refetches carry

LEMMA NextCarries ==
  ASSUME Typed, Carries, [Next]_vars
  PROVE  Carries'
<1>1. used \subseteq used' /\ \A i : Known(i) => Known(i)'
  <2>1. ASSUME NEW c \in Clients, Edit(c) PROVE used \subseteq used' /\ \A i : Known(i) => Known(i)'
    BY <2>1 DEF Edit, Known
  <2>2. ASSUME NEW c \in Clients, Serve(c) PROVE used \subseteq used' /\ \A i : Known(i) => Known(i)'
    BY <2>2, ServeKnows DEF Serve
  <2>3. ASSUME NEW c \in Clients, Answer(c) \/ AnswerLost(c) \/ Fetch(c) \/ Settle(c) \/ Refetch(c)
        PROVE  used \subseteq used' /\ \A i : Known(i) => Known(i)'
    BY <2>3 DEF Answer, AnswerLost, Fetch, Settle, Refetch, history, Known
  <2>4. CASE UNCHANGED vars
    BY <2>4 DEF vars, history, Known
  <2> QED BY <2>1, <2>2, <2>3, <2>4 DEF Next, Runs
<1>2. /\ carried \in [Clients -> SUBSET Tables]
      /\ items \in Tables /\ Fine(items, used) /\ \A i \in DOMAIN items : Known(i)
  BY FineFacts DEF Carries, Typed, Known
<1>3. /\ carried' \in [Clients -> SUBSET Tables]
      /\ \A c \in Clients : carried'[c] \subseteq carried[c] \cup {items}
  <2>1. CASE UNCHANGED carried
    BY <1>2, <2>1
  <2>2. ASSUME NEW c \in Clients,
               carried' = [carried EXCEPT ![c] = {}] \/ carried' = [carried EXCEPT ![c] = {items}]
        PROVE  /\ carried' \in [Clients -> SUBSET Tables]
               /\ \A d \in Clients : carried'[d] \subseteq carried[d] \cup {items}
    BY <1>2, <2>2
  <2>3. ASSUME NEW c \in Clients, Serve(c) \/ Answer(c) \/ AnswerLost(c) \/ Refetch(c)
        PROVE  UNCHANGED carried
    BY <2>3 DEF Serve, Answer, AnswerLost, Refetch
  <2>4. ASSUME NEW c \in Clients, Edit(c) \/ Settle(c)
        PROVE  carried' = [carried EXCEPT ![c] = {}]
    BY <2>4 DEF Edit, Settle
  <2>5. ASSUME NEW c \in Clients, Fetch(c)
        PROVE  carried' = [carried EXCEPT ![c] = {items}]
    BY <2>5 DEF Fetch
  <2>6. UNCHANGED vars => UNCHANGED carried
    BY DEF vars
  <2> QED BY <2>1, <2>2, <2>3, <2>4, <2>5, <2>6 DEF Next, Runs
<1>4. ASSUME NEW c \in Clients, NEW T \in carried'[c]
      PROVE  Fine(T, used') /\ \A i \in DOMAIN T : Known(i)'
  <2>1. Fine(T, used) /\ \A i \in DOMAIN T : Known(i)
    BY <1>2, <1>3 DEF Carries
  <2> QED BY <1>1, <2>1, FineGrows
<1> QED BY <1>3, <1>4 DEF Carries

-----------------------------------------------------------------------------
\* A request that is served twice

\* An edit that finds its row as it would leave it leaves the table alone.
LEMMA RevivedAlready ==
  ASSUME NEW U, NEW T, Fine(T, U), NEW m, m.kind = "add",
         NEW j \in DOMAIN T, T[j].name = m.name, Revived(T[j]) = T[j]
  PROVE  Stored(T, m).items = T
<1>1. Holders(T, TheList, m.name) = {j}
  BY FineFacts DEF Holders
<1>2. Stored(T, m).items = With(T, j, Revived(T[j]))
  BY <1>1 DEF Stored, CreateOrRevive
<1>3. T = [i \in DOMAIN T |-> T[i]]
  BY FineFacts DEF Sane, IsTable
<1> QED BY <1>2, <1>3 DEF With

LEMMA AddedTwice ==
  ASSUME NEW U \in SUBSET ItemId, NEW T, Fine(T, U), NEW m, Sound(m, U), m.kind = "add"
  PROVE  LET R == Stored(T, m).items IN Stored(R, m).items = R
<1> DEFINE n == m.name
           H == Holders(T, TheList, n)
           R == Stored(T, m).items
<1>1. /\ Fine(R, U) /\ n \in Name /\ TheList \in DOMAIN Lists
      /\ R = CreateOrRevive(T, Lists, TheList, n, m.item).items
  BY StoredAdd, ListFacts DEF Serves, Sound, Stored
<1>2. CASE H # {}
  <2> DEFINE j == CHOOSE k \in H : TRUE
  <2>1. j \in H /\ j \in DOMAIN T /\ T[j].name = n
    BY <1>2 DEF Holders, ItemsOf
  <2>2. R = With(T, j, Revived(T[j]))
    BY <1>1, <1>2 DEF CreateOrRevive
  <2> HIDE DEF j, R, H
  <2>3. R[j] = Revived(T[j]) /\ j \in DOMAIN R /\ R[j].name = n
    <3>1. R[j] = Revived(T[j]) /\ j \in DOMAIN R
      BY <2>1, <2>2 DEF With
    <3> QED BY <2>1, <3>1, RevivedRow, FineFacts
  <2>4. Revived(R[j]) = R[j]
    <3>1. T[j] \in ItemRow
      BY <2>1, FineFacts
    <3> QED BY <2>3, <3>1 DEF Revived, ItemRow
  <2> QED BY <1>1, <2>3, <2>4, RevivedAlready DEF n, R
<1>3. CASE H = {} /\ m.item \in DOMAIN T
  BY <1>1, <1>3 DEF CreateOrRevive
<1>4. CASE H = {} /\ m.item \notin DOMAIN T
  <2> DEFINE i == m.item
             row == NewItem(T, TheList, n)
  <2>1. R = With(T, i, row)
    BY <1>1, <1>4 DEF CreateOrRevive
  <2>2. row.name = n /\ Revived(row) = row
    <3>1. row \in ItemRow /\ row.name = n /\ ~row.checked /\ ~row.note
      BY <1>1, NewItemRow
    <3> HIDE DEF row
    <3> QED BY <3>1 DEF Revived, ItemRow
  <2> HIDE DEF R, H, row
  <2>3. R[i] = row /\ i \in DOMAIN R
    BY <2>1 DEF With
  <2> QED BY <1>1, <2>2, <2>3, RevivedAlready DEF n, R
<1> QED BY <1>2, <1>3, <1>4

\* A row that lies where it was put computes the same position again.
LEMMA PlacedAgain ==
  ASSUME NEW base, NEW l, NEW i \in DOMAIN base, NEW t, i \notin {t.after, t.before},
         TryComputePosition(base, l, i, t).err = "none",
         NEW row, row.list = l, row.pos = TryComputePosition(base, l, i, t).pos
  PROVE  LET r == ComputePosition(With(base, i, row), l, i, t)
         IN  r.err = "none" /\ r.pos = row.pos /\ r.items = With(base, i, row)
<1> DEFINE R == With(base, i, row)
           try(T) == TryComputePosition(T, l, i, t)
<1>1. /\ DOMAIN R = DOMAIN base /\ R[i] = row
      /\ \A j \in DOMAIN base \ {i} : R[j] = base[j]
  BY DEF With
<1> HIDE DEF R
<1>2. \A n \in Named(i, t) : InList(base, l, n)
  BY DEF TryComputePosition
<1>3. \A n \in Named(i, t) : InList(R, l, n)
  BY <1>1, <1>2 DEF InList, ItemsOf
<1>4. try(R).err = "none" /\ try(R).pos = row.pos
  <2>1. CASE t.after = Nil /\ t.before = Nil
    BY <1>1, <1>3, <2>1 DEF TryComputePosition
  <2>2. CASE t.after # Nil /\ t.before # Nil
    <3>1. R[t.after] = base[t.after] /\ R[t.before] = base[t.before]
      BY <1>1, <1>2, <2>2 DEF Named, InList, ItemsOf
    <3> QED BY <1>2, <1>3, <2>2, <3>1 DEF TryComputePosition
  <2>3. CASE t.after # Nil /\ t.before = Nil
    <3>1. R[t.after] = base[t.after]
      BY <1>1, <1>2, <2>3 DEF Named, InList, ItemsOf
    <3> QED BY <1>2, <1>3, <2>3, <3>1 DEF TryComputePosition
  <2>4. CASE t.after = Nil /\ t.before # Nil
    <3>1. R[t.before] = base[t.before]
      BY <1>1, <1>2, <2>4 DEF Named, InList, ItemsOf
    <3> QED BY <1>2, <1>3, <2>4, <3>1 DEF TryComputePosition
  <2> QED BY <2>1, <2>2, <2>3, <2>4
<1> QED BY <1>4 DEF ComputePosition, R

\* A patch that is applied to what it left leaves it so.
LEMMA PatchedTwice ==
  ASSUME NEW row \in ItemRow, NEW p \in Patches(Name, ItemId), p.name = Nil, NEW pos \in Int
  PROVE  /\ PatchedRow(PatchedRow(row, p, pos), p, pos) = PatchedRow(row, p, pos)
         /\ PatchedRow(row, p, pos).pos = pos
         /\ PatchedRow(row, p, pos).list = row.list
<1> DEFINE note == Given(p.note, row.note)
           checked == Given(p.checked, row.checked) /\ ~note
           new == PatchedRow(row, p, pos)
<1>1. new = [row EXCEPT !.name = row.name, !.checked = checked, !.note = note, !.pos = pos]
  BY DEF PatchedRow, Given
<1>2. /\ new.name = row.name /\ new.checked = checked /\ new.note = note
      /\ new.pos = pos /\ new.list = row.list
      /\ new = [new EXCEPT !.name = new.name, !.checked = checked, !.note = note, !.pos = pos]
  <2> HIDE DEF new, checked, note
  <2> QED BY <1>1 DEF ItemRow
<1>3. Given(p.note, note) = note
  BY DEF Given
<1>4. (Given(p.checked, checked) /\ ~note) = checked
  BY ListFacts DEF Given, Patches
<1>5. PatchedRow(new, p, pos) =
        [new EXCEPT !.name = new.name, !.checked = checked, !.note = note, !.pos = pos]
  <2> HIDE DEF new, checked, note
  <2> QED BY <1>2, <1>3, <1>4 DEF PatchedRow, Given
<1> QED BY <1>2, <1>5

\* What computePosition answers is what one try on the table it leaves answers.
LEMMA ComputedOnce ==
  ASSUME NEW T, NEW l, NEW i, NEW t, ComputePosition(T, l, i, t).err = "none"
  PROVE  LET r == ComputePosition(T, l, i, t)
         IN  /\ r.items \in {T, Renormalize(T, l)}
             /\ TryComputePosition(r.items, l, i, t).err = "none"
             /\ TryComputePosition(r.items, l, i, t).pos = r.pos
<1> DEFINE first  == TryComputePosition(T, l, i, t)
           second == TryComputePosition(Renormalize(T, l), l, i, t)
<1>1. CASE first.err # "exhausted"
  <2> DEFINE r == [err |-> first.err, pos |-> first.pos, items |-> T]
  <2>1. ComputePosition(T, l, i, t) = r
    BY <1>1 DEF ComputePosition
  <2> QED BY <2>1
<1>2. CASE first.err = "exhausted" /\ second.err = "none"
  <2>1. ComputePosition(T, l, i, t) =
          [err |-> "none", pos |-> second.pos, items |-> Renormalize(T, l)]
    BY <1>2 DEF ComputePosition
  <2> QED BY <1>2, <2>1
<1>3. CASE first.err = "exhausted" /\ second.err # "none"
  BY <1>3 DEF ComputePosition
<1> QED BY <1>1, <1>2, <1>3

\* What an update writes, if it writes.
LEMMA UpdateWrites ==
  ASSUME NEW T, NEW l, NEW i, NEW p
  PROVE  LET placed == IF p.reorder = Nil
                       THEN [err |-> "none", pos |-> T[i].pos, items |-> T]
                       ELSE ComputePosition(T, l, i, p.reorder)
             R == UpdateItem(T, l, i, p).items
         IN  \/ R = T
             \/ /\ InList(T, l, i) /\ placed.err = "none"
                /\ R = With(placed.items, i, PatchedRow(T[i], p, placed.pos))
<1> DEFINE placed == IF p.reorder = Nil
                     THEN [err |-> "none", pos |-> T[i].pos, items |-> T]
                     ELSE ComputePosition(T, l, i, p.reorder)
           row == PatchedRow(T[i], p, placed.pos)
<1>1. UpdateItem(T, l, i, p) =
        IF ~InList(T, l, i) THEN [err |-> "not_found", items |-> T]
        ELSE IF placed.err # "none" THEN [err |-> placed.err, items |-> T]
        ELSE IF ~NoteNotChecked(row) THEN [err |-> "internal", items |-> T]
        ELSE IF Holders(T, l, row.name) \ {i} # {} THEN [err |-> "conflict", items |-> T]
        ELSE [err |-> "none", items |-> With(placed.items, i, row)]
  BY DEF UpdateItem
<1> HIDE DEF placed, row
<1>2. \/ UpdateItem(T, l, i, p).items = T
      \/ /\ InList(T, l, i) /\ placed.err = "none"
         /\ UpdateItem(T, l, i, p).items = With(placed.items, i, row)
  BY <1>1
<1> QED BY <1>2 DEF placed, row

LEMMA UpdatedTwice ==
  ASSUME NEW U \in SUBSET ItemId, NEW T, Fine(T, U), NEW m \in Edits, Sound(m, U),
         m.kind = "update"
  PROVE  LET R == Stored(T, m).items IN Stored(R, m).items = R
<1> DEFINE i == m.item
           p == m.patch
           t == p.reorder
           R == Stored(T, m).items
           placed(S) == IF t = Nil THEN [err |-> "none", pos |-> S[i].pos, items |-> S]
                        ELSE ComputePosition(S, TheList, i, t)
           a == placed(T)
           row == PatchedRow(T[i], p, a.pos)
<1>1. /\ p \in Patches(Name, ItemId) /\ p.name = Nil /\ Sane(T)
      /\ t # Nil => i \notin {t.after, t.before}
  BY FineFacts DEF Sound, Edits
<1>2. \A S : Stored(S, m) = UpdateItem(S, TheList, i, p)
  BY DEF Stored
<1>3. CASE R = T
  BY <1>3
<1>4. CASE R # T
  <2>1. /\ InList(T, TheList, i) /\ a.err = "none" /\ R = With(a.items, i, row)
    <3>1. R = UpdateItem(T, TheList, i, p).items
      BY <1>2
    <3> HIDE DEF R
    <3> QED BY <1>4, <3>1, UpdateWrites
  <2>2. i \in DOMAIN T /\ T[i] \in ItemRow /\ T[i].list = TheList /\ T[i].pos \in Int
    BY <2>1, FineFacts DEF InList, ItemsOf
  <2>3. a.pos \in Int /\ i \in DOMAIN a.items
    <3>1. CASE t = Nil
      BY <2>2, <3>1
    <3>2. CASE t # Nil
      <4>1. a = ComputePosition(T, TheList, i, t)
        BY <3>2
      <4>2. /\ ComputePosition(T, TheList, i, t).pos \in Int
            /\ \/ ComputePosition(T, TheList, i, t).items = T
               \/ ComputePosition(T, TheList, i, t).items = Renormalize(T, TheList)
        BY <1>1, ComputePositionAnswer
      <4>3. DOMAIN Renormalize(T, TheList) = DOMAIN T
        BY DEF Renormalize
      <4> HIDE DEF a
      <4> QED BY <2>2, <4>1, <4>2, <4>3
    <3> QED BY <3>1, <3>2
  <2> HIDE DEF R, row
  <2>4. /\ PatchedRow(row, p, a.pos) = row /\ row.pos = a.pos /\ row.list = TheList
    <3> HIDE DEF a
    <3> QED BY <1>1, <2>2, <2>3, PatchedTwice DEF row
  <2>5. R[i] = row /\ i \in DOMAIN R /\ With(R, i, row) = R
    <3> HIDE DEF a
    <3> QED BY <2>1 DEF With
  <2>6. placed(R).err = "none" /\ placed(R).pos = a.pos /\ placed(R).items = R
    <3>1. CASE t = Nil
      BY <2>4, <2>5, <3>1
    <3>2. CASE t # Nil
      <4>1. /\ a = ComputePosition(T, TheList, i, t)
            /\ placed(R) = ComputePosition(R, TheList, i, t)
        BY <3>2
      <4>2. /\ TryComputePosition(a.items, TheList, i, t).err = "none"
            /\ TryComputePosition(a.items, TheList, i, t).pos = a.pos
        <5> HIDE DEF a
        <5> QED BY <2>1, <4>1, ComputedOnce
      <4> HIDE DEF a, placed
      <4>3. row.pos = TryComputePosition(a.items, TheList, i, t).pos
        BY <2>4, <4>2
      <4>4. i \notin {t.after, t.before}
        BY <1>1, <3>2
      <4> HIDE DEF t
      <4>5. /\ ComputePosition(With(a.items, i, row), TheList, i, t).err = "none"
            /\ ComputePosition(With(a.items, i, row), TheList, i, t).pos = row.pos
            /\ ComputePosition(With(a.items, i, row), TheList, i, t).items
                 = With(a.items, i, row)
        BY <2>3, <2>4, <4>2, <4>3, <4>4, PlacedAgain
      <4> QED BY <2>1, <2>4, <4>1, <4>5
    <3> QED BY <3>1, <3>2
  <2>7. \/ Stored(R, m).items = R
        \/ Stored(R, m).items = With(placed(R).items, i, PatchedRow(R[i], p, placed(R).pos))
    <3>1. Stored(R, m).items = UpdateItem(R, TheList, i, p).items
      BY <1>2
    <3> QED BY <3>1, UpdateWrites
  <2> HIDE DEF placed, a
  <2> QED BY <2>4, <2>5, <2>6, <2>7 DEF R
<1> QED BY <1>3, <1>4

LEMMA StoredTwice ==
  ASSUME NEW U \in SUBSET ItemId, NEW T, Fine(T, U), NEW m \in Edits, Sound(m, U)
  PROVE  LET R == Stored(T, m).items IN Stored(R, m).items = R
<1>1. CASE m.kind = "add"
  BY <1>1, AddedTwice
<1>2. CASE m.kind = "update"
  BY <1>2, UpdatedTwice
<1>3. CASE m.kind = "delete"
  <2>1. CASE ~InList(T, TheList, m.item)
    BY <1>3, <2>1 DEF Stored, DeleteItem
  <2>2. CASE InList(T, TheList, m.item)
    <3> DEFINE R == Without(T, {m.item})
    <3>1. Stored(T, m).items = R /\ ~InList(R, TheList, m.item)
      BY <1>3, <2>2 DEF Stored, DeleteItem, InList, ItemsOf, Without
    <3> HIDE DEF R
    <3> QED BY <1>3, <3>1 DEF Stored, DeleteItem
  <2> QED BY <2>1, <2>2
<1> QED BY <1>1, <1>2, <1>3 DEF Edits

LEMMA NextServedAgain ==
  ASSUME Typed, ServedAgain, [Next]_vars
  PROVE  ServedAgain'
<1>1. ASSUME NEW c \in Clients, Edit(c)
      PROVE  ServedAgain'
  <2>1. PICK m \in Edits, previous \in Tables : Enqueues(c, m, previous)
    BY <1>1, EditEnqueues
  <2>2. /\ items' = items /\ replayed' = replayed
        /\ \A d \in Clients : stage[d] \in {"sent", "answered"} => stage'[d] = stage[d]
    BY <1>1 DEF Edit, Typed
  <2>3. \A d \in Clients : queue[d] # <<>> => queue'[d] # <<>> /\ Head(queue'[d]) = Head(queue[d])
    BY <2>1 DEF Enqueues
  <2>4. ASSUME NEW d \in Clients, replayed[d]
        PROVE  /\ queue'[d] # <<>> /\ Stored(items, Head(queue'[d]).edit).items = items
               /\ stage'[d] \in {"sent", "answered"}
    <3>1. /\ queue[d] # <<>> /\ stage[d] \in {"sent", "answered"}
          /\ Stored(items, First(d)).items = items
      BY <2>4 DEF ServedAgain
    <3>2. Head(queue'[d]).edit = First(d)
      BY <2>3, <3>1 DEF First
    <3> QED BY <2>2, <2>3, <3>1, <3>2
  <2> QED BY <2>2, <2>4 DEF ServedAgain, First
<1>2. ASSUME NEW c \in Clients, Serve(c)
      PROVE  ServedAgain'
  <2> DEFINE m == First(c)
  <2>1. m \in Edits /\ Sound(m, used) /\ items' = Stored(items, m).items
    BY <1>2, ServeStep
  <2>2. used \in SUBSET ItemId /\ Fine(items, used)
    BY DEF Typed
  <2>3. Stored(items', m).items = items'
    <3> HIDE DEF m
    <3> QED BY <2>1, <2>2, StoredTwice
  <2>4. /\ queue' = queue /\ queue[c] # <<>> /\ replayed' = [d \in Clients |-> d = c]
        /\ stage'[c] = "answered"
    BY <1>2 DEF Serve, Typed
  <2> QED BY <2>3, <2>4 DEF ServedAgain, First
<1>3. ASSUME NEW c \in Clients, Settle(c)
      PROVE  ServedAgain'
  <2>1. /\ \A d \in Clients \ {c} : queue'[d] = queue[d]
        /\ items' = items /\ replayed' = replayed
        /\ stage[c] \in {"settling", "cancelled"}
        /\ \A d \in Clients \ {c} : stage'[d] = stage[d]
    BY <1>3, SettleStep DEF Settle, Typed
  <2> QED BY <2>1 DEF ServedAgain, First
<1>4. ASSUME NEW c \in Clients, Answer(c) \/ AnswerLost(c) \/ Fetch(c) \/ Refetch(c)
      PROVE  ServedAgain'
  <2>1. items' = items /\ queue' = queue /\ \A d \in Clients : replayed'[d] => replayed[d]
    BY <1>4, AnswerTyped
  <2>2. \A d \in Clients : replayed'[d] /\ stage[d] \in {"sent", "answered"}
                             => stage'[d] \in {"sent", "answered"}
    BY <1>4 DEF Answer, AnswerLost, Fetch, Refetch, sending, Typed
  <2> QED BY <2>1, <2>2 DEF ServedAgain, First
<1>5. CASE UNCHANGED vars
  BY <1>5 DEF ServedAgain, First, vars, sending
<1> QED BY <1>1, <1>2, <1>3, <1>4, <1>5 DEF Next, Runs

-----------------------------------------------------------------------------
\* The invariant

LEMMA InitIInv == Init => IInv
<1> SUFFICES ASSUME Init PROVE IInv
  OBVIOUS
<1>1. Typed
  BY InitTyped
<1>2. /\ shown = [c \in Clients |-> items] /\ queue = [c \in Clients |-> <<>>]
      /\ replayed = [c \in Clients |-> FALSE] /\ DOMAIN (<<>>) = {}
  BY EmptySeq DEF Init
<1>3. AddsNamed /\ ServedAgain /\ Followed
  BY <1>2 DEF AddsNamed, ServedAgain, Followed, Known
<1>4. Carries
  BY DEF Init, Carries
<1> QED BY <1>1, <1>3, <1>4 DEF IInv

LEMMA NextIInv == IInv /\ [Next]_vars => IInv'
BY NextTyped, NextCarries, NextAddsNamed, NextServedAgain, NextFollowed DEF IInv

LEMMA Invariance == Spec => []IInv
BY InitIInv, NextIInv, PTL DEF Spec

\* Every table, cache and snapshot stays a table of rows over ids that were
\* given, and the stages of the mutations are those of the queue.
THEOREM TypeCorrect == Spec => []TypeOK
<1>1. IInv => TypeOK
  <2> SUFFICES ASSUME IInv PROVE TypeOK
    OBVIOUS
  <2>1. \A T : Fine(T, used) => IsTable(T, used, ItemRow)
    BY DEF Fine, TablesOK, Sane, IsTable
  <2> QED BY <2>1 DEF IInv, Typed, Carries, TypeOK, Stages
<1> QED BY <1>1, Invariance, PTL

\* Whatever adds, rollbacks and refetches cross on the tabs, none comes to show
\* a name twice or a checked note.
THEOREM ShowsAsStored == Spec => []ShownAsStored
<1>1. IInv => ShownAsStored
  <2> SUFFICES ASSUME IInv PROVE ShownAsStored
    OBVIOUS
  <2>1. \A c \in Clients : Fine(shown[c], used)
    BY DEF IInv, Typed
  <2> QED BY <2>1, FineFacts DEF ShownAsStored
<1> QED BY <1>1, Invariance, PTL

-----------------------------------------------------------------------------
\* Requests sent again

\* A mutation goes from sent to answered by being served.
LEMMA ServedByServe ==
  ASSUME Typed, [Next]_vars, NEW c \in Clients, IsServed(c)
  PROVE  Serve(c)
<1>1. stage \in [Clients -> Stages] /\ stage[c] = "sent" /\ stage'[c] = "answered"
  BY DEF Typed, IsServed
<1>2. CASE UNCHANGED vars
  BY <1>1, <1>2 DEF vars, sending
<1>3. ASSUME NEW d \in Clients, Edit(d) \/ Runs(d) \/ AnswerLost(d) \/ Refetch(d)
      PROVE  Serve(c)
  BY <1>1, <1>3 DEF Edit, Runs, Serve, Answer, Fetch, Settle, AnswerLost, Refetch, sending
<1> QED BY <1>2, <1>3 DEF Next

\* A request that is sent again because its answer was lost, and is served
\* before any other, leaves the list as it is: create-or-revive, a patch with
\* its drop, and a delete are idempotent.
THEOREM ReplaysAreHarmless == Spec => ReplayHarmless
<1>1. ASSUME IInv, [Next]_vars, NEW c \in Clients, replayed[c], IsServed(c)
      PROVE  items' = items
  <2>1. Serve(c)
    BY <1>1, ServedByServe DEF IInv
  <2>2. items' = Stored(items, First(c)).items
    BY <2>1 DEF Serve
  <2> QED BY <1>1, <2>2 DEF IInv, ServedAgain
<1>2. IInv /\ [Next]_vars =>
        [\A c \in Clients : replayed[c] /\ IsServed(c) => items' = items]_vars
  BY <1>1
<1> QED BY <1>2, Invariance, PTL DEF Spec, ReplayHarmless

-----------------------------------------------------------------------------
\* Refusals

\* The server refuses an update only when a row it needs is not there: a drop
\* always finds room, and a check or a note breaks no constraint.
LEMMA UpdateRefused ==
  ASSUME NEW U \in SUBSET ItemId, NEW T, Fine(T, U), NEW m \in Edits, Sound(m, U),
         m.kind = "update", Stored(T, m).err # "none"
  PROVE  \E n \in Needed(m) : n \notin DOMAIN T
<1> DEFINE i == m.item
           p == m.patch
           t == p.reorder
           placed == IF t = Nil THEN [err |-> "none", pos |-> T[i].pos, items |-> T]
                     ELSE ComputePosition(T, TheList, i, t)
           row == PatchedRow(T[i], p, placed.pos)
<1>1. /\ p \in Patches(Name, ItemId) /\ p.name = Nil /\ Sane(T)
      /\ t # Nil => t.after # t.before
  BY FineFacts DEF Sound, Edits
<1>2. \A n : n \in DOMAIN T <=> InList(T, TheList, n)
  BY FineFacts DEF InList
<1>3. SUFFICES ASSUME InList(T, TheList, i) PROVE \E n \in Needed(m) : n \notin DOMAIN T
  BY <1>2 DEF Needed
<1>4. UpdateItem(T, TheList, i, p) =
        IF placed.err # "none" THEN [err |-> placed.err, items |-> T]
        ELSE IF ~NoteNotChecked(row) THEN [err |-> "internal", items |-> T]
        ELSE IF Holders(T, TheList, row.name) \ {i} # {} THEN [err |-> "conflict", items |-> T]
        ELSE [err |-> "none", items |-> With(placed.items, i, row)]
  BY <1>3 DEF UpdateItem
<1>5. i \in DOMAIN T /\ T[i] \in ItemRow
  BY <1>2, <1>3, FineFacts
<1>6. NoteNotChecked(row) /\ row.name = T[i].name
  <2> HIDE DEF placed
  <2> QED BY <1>1, <1>5 DEF PatchedRow, NoteNotChecked, Given, ItemRow
<1>7. Holders(T, TheList, row.name) \ {i} = {}
  <2> HIDE DEF row
  <2> QED BY <1>5, <1>6, FineFacts DEF Holders
<1>8. placed.err # "none"
  <2>1. UpdateItem(T, TheList, i, p).err # "none"
    BY DEF Stored
  <2> HIDE DEF placed, row
  <2> QED BY <1>4, <1>6, <1>7, <2>1
<1>9. t # Nil /\ ComputePosition(T, TheList, i, t).err # "none"
  BY <1>8
<1>10. ComputePosition(T, TheList, i, t).err # "internal"
  BY <1>1, <1>9, ComputePositionNeverInternal
<1>11. \E n \in Named(i, t) : ~InList(T, TheList, n)
  <2> SUFFICES ASSUME \A n \in Named(i, t) : InList(T, TheList, n) PROVE FALSE
    OBVIOUS
  <2> DEFINE first  == TryComputePosition(T, TheList, i, t)
             second == TryComputePosition(Renormalize(T, TheList), TheList, i, t)
  <2>1. \A n \in Named(i, t) : InList(Renormalize(T, TheList), TheList, n)
    BY <1>1, RenormalizeFields DEF InList
  <2>2. first.err \in {"none", "exhausted"} /\ second.err \in {"none", "exhausted"}
    BY <2>1 DEF TryComputePosition
  <2>3. ComputePosition(T, TheList, i, t) =
          IF first.err # "exhausted"
          THEN [err |-> first.err, pos |-> first.pos, items |-> T]
          ELSE IF second.err = "none"
          THEN [err |-> "none", pos |-> second.pos, items |-> Renormalize(T, TheList)]
          ELSE [err |-> IF second.err = "exhausted" THEN "internal" ELSE second.err,
                pos |-> 0, items |-> T]
    BY DEF ComputePosition
  <2> HIDE DEF first, second
  <2> QED BY <1>9, <1>10, <2>2, <2>3
<1>12. Named(i, t) \subseteq Needed(m)
  BY <1>9 DEF Named, Needed
<1> QED BY <1>2, <1>11, <1>12

LEMMA RefusedForARow ==
  ASSUME IInv, NEW c \in Clients, Serve(c), err'[c] # "none"
  PROVE  Needed(First(c)) \cap (deleted \cup merged) # {}
<1> DEFINE m == First(c)
           r == Stored(items, m)
<1>1. m \in Edits /\ Sound(m, used) /\ m = queue[c][1].edit /\ 1 \in DOMAIN queue[c]
  BY ServeStep DEF IInv
<1>2. used \in SUBSET ItemId /\ Fine(items, used) /\ DOMAIN err = Clients
  BY DEF IInv, Typed
<1>3. r.err # "none"
  <2>1. err' = [err EXCEPT ![c] = r.err]
    BY DEF Serve
  <2> HIDE DEF r
  <2> QED BY <1>2, <2>1
<1> HIDE DEF m
<1>4. \E n \in Needed(m) : n \notin DOMAIN items
  <2>1. CASE m.kind = "add"
    <3>1. m.item \in DOMAIN items /\ items[m.item].name # m.name
      <4>1. r.err # "none" => /\ m.item \in DOMAIN items
                              /\ \A j \in DOMAIN items : items[j].name # m.name
        <5>1. used \in SUBSET ItemId /\ Fine(items, used) /\ Sound(m, used)
          BY <1>1, <1>2
        <5> QED BY <2>1, <5>1, StoredAdd, ZenonT(60)
      <4> HIDE DEF r
      <4> QED BY <1>3, <4>1
    <3>2. IsAdd(c, 1, m.item)
      BY <1>1, <2>1 DEF IsAdd
    <3> QED BY <1>1, <3>1, <3>2 DEF IInv, AddsNamed
  <2>2. CASE m.kind = "update"
    BY <1>1, <1>2, <1>3, <2>2, UpdateRefused
  <2>3. CASE m.kind = "delete"
    BY <1>1, <1>2, <1>3, <2>3, StoredDelete DEF Needed
  <2> QED BY <1>1, <2>1, <2>2, <2>3 DEF Edits
<1>5. PICK n \in Needed(m) : n \notin DOMAIN items
  BY <1>4
<1>6. Known(n)
  <2>1. Known(n) \/ \E j \in 1 .. 1 - 1 : IsAdd(c, j, n)
    BY <1>1 DEF IInv, Followed
  <2> QED BY <2>1
<1> QED BY <1>5, <1>6 DEF Known, m

\* Whatever order the tabs' edits are served in, and whatever answers are lost,
\* the server refuses an edit only when a row it needs was deleted, or was added
\* under another id.
THEOREM RefusalsHaveAReason == Spec => RefusedForAReason
<1>1. IInv /\ [Next]_vars =>
        [\A c \in Clients :
           IsServed(c) /\ err'[c] # "none" =>
             Needed(First(c)) \cap (deleted \cup merged) # {}]_vars
  BY ServedByServe, RefusedForARow DEF IInv
<1> QED BY <1>1, Invariance, PTL DEF Spec, RefusedForAReason

-----------------------------------------------------------------------------
\* What is shown at once

\* The new row of a patch and that of the server come after every other row.
LEMMA AppendedLast ==
  ASSUME NEW U, NEW T, Fine(T, U), NEW i \in ItemId \ DOMAIN T, NEW row \in ItemRow,
         \A j \in DOMAIN T : T[j].pos < row.pos,
         NEW S \in SUBSET (DOMAIN T \cup {i})
  PROVE  SlotOrder(With(T, i, row), S) =
           {p \in S \X S : \/ p[1] # i /\ p[2] = i
                           \/ p[1] # i /\ p[2] # i /\ SlotBefore(T, p[1], p[2])}
<1> DEFINE R == With(T, i, row)
<1>1. R[i] = row /\ \A j \in DOMAIN T : j # i /\ R[j] = T[j]
  BY DEF With
<1>2. row.pos \in Int /\ row.born \in Nat /\ i \in Nat
  BY ListFacts DEF ItemRow
<1>3. \A j \in DOMAIN T : T[j].pos \in Int
  BY FineFacts
<1> HIDE DEF R
<1>4. ASSUME NEW a \in S, NEW b \in S
      PROVE  SlotBefore(R, a, b) <=> \/ a # i /\ b = i
                                     \/ a # i /\ b # i /\ SlotBefore(T, a, b)
  <2>1. CASE a # i /\ b # i
    BY <1>1, <2>1 DEF SlotBefore
  <2>2. CASE a # i /\ b = i
    <3>1. R[a].pos < R[b].pos
      BY <1>1, <2>2
    <3> QED BY <2>2, <3>1 DEF SlotBefore
  <2>3. CASE a = i /\ b # i
    <3>1. R[b].pos < R[a].pos /\ R[b].pos \in Int /\ R[a].pos \in Int
      BY <1>1, <1>2, <1>3, <2>3
    <3> QED BY <2>3, <3>1 DEF SlotBefore
  <2>4. CASE a = i /\ b = i
    BY <1>1, <1>2, <2>4 DEF SlotBefore
  <2> QED BY <2>1, <2>2, <2>3, <2>4
<1>5. SlotOrder(R, S) = {p \in S \X S : SlotBefore(R, p[1], p[2])}
  BY DEF SlotOrder
<1>6. \A p \in S \X S : p[1] \in S /\ p[2] \in S
  OBVIOUS
<1> QED BY <1>4, <1>5, <1>6 DEF R

\* Two tables that differ in where their last row lies show the same.
LEMMA AppendedAlike ==
  ASSUME NEW U, NEW T, Fine(T, U), NEW i \in ItemId \ DOMAIN T,
         NEW row \in ItemRow, NEW other \in ItemRow,
         row.name = other.name, row.checked = other.checked, row.note = other.note,
         \A j \in DOMAIN T : T[j].pos < row.pos /\ T[j].pos < other.pos
  PROVE  Sections(With(T, i, row)) = Sections(With(T, i, other))
<1> DEFINE P == With(T, i, row)
           Q == With(T, i, other)
           D == DOMAIN T \cup {i}
<1>1. /\ DOMAIN P = D /\ DOMAIN Q = D /\ P[i] = row /\ Q[i] = other
      /\ \A j \in DOMAIN T : P[j] = T[j] /\ Q[j] = T[j]
  BY DEF With
<1>2. ASSUME NEW S \in SUBSET D
      PROVE  SlotOrder(P, S) = SlotOrder(Q, S)
  <2> DEFINE order == {p \in S \X S : \/ p[1] # i /\ p[2] = i
                                      \/ p[1] # i /\ p[2] # i /\ SlotBefore(T, p[1], p[2])}
  <2>1. SlotOrder(P, S) = order
    BY AppendedLast
  <2>2. SlotOrder(Q, S) = order
    BY AppendedLast
  <2> QED BY <2>1, <2>2
<1> HIDE DEF P, Q, D
<1>3. \A j \in D : P[j].name = Q[j].name /\ P[j].checked = Q[j].checked /\ P[j].note = Q[j].note
  BY <1>1 DEF D
<1>4. /\ {j \in DOMAIN P : P[j].note} = {j \in DOMAIN Q : Q[j].note}
      /\ {j \in DOMAIN P : Plain(P[j])} = {j \in DOMAIN Q : Plain(Q[j])}
  BY <1>1, <1>3 DEF Plain
<1>5. [j \in DOMAIN P |-> <<P[j].name, P[j].checked, P[j].note>>] =
        [j \in DOMAIN Q |-> <<Q[j].name, Q[j].checked, Q[j].note>>]
  BY <1>1, <1>3
<1>6. /\ {j \in DOMAIN P : P[j].note} \in SUBSET D
      /\ {j \in DOMAIN P : Plain(P[j])} \in SUBSET D
  BY <1>1
<1>7. /\ SlotOrder(P, {j \in DOMAIN P : P[j].note}) = SlotOrder(Q, {j \in DOMAIN Q : Q[j].note})
      /\ SlotOrder(P, {j \in DOMAIN P : Plain(P[j])})
           = SlotOrder(Q, {j \in DOMAIN Q : Plain(Q[j])})
  BY <1>2, <1>4, <1>6
<1> QED BY <1>5, <1>7 DEF Sections, P, Q

\* The server agrees with a patch, and refuses nothing.
Mirrors(T, m) ==
  /\ Stored(T, m).err = "none"
  /\ Sections(Patched(T, m)) = Sections(Stored(T, m).items)

LEMMA AddMirrors ==
  ASSUME NEW U \in SUBSET ItemId, NEW T, Fine(T, U), NEW i \in ItemId \ U, NEW n \in Name
  PROVE  Mirrors(T, Add(n, i))
<1> DEFINE m == Add(n, i)
           H == Holders(T, TheList, n)
<1>1. /\ m.kind = "add" /\ m.item = i /\ m.name = n
      /\ Patched(T, m) = AddPatch(T, m)
      /\ Stored(T, m) = CreateOrRevive(T, Lists, TheList, n, i)
  BY DEF Add, Patched, Stored
<1> HIDE DEF m
<1>2. CASE H # {}
  <2> DEFINE j == CHOOSE k \in H : TRUE
  <2>1. AddPatch(T, m) = With(T, j, Revived(T[j]))
    BY <1>1, <1>2 DEF AddPatch, findByName
  <2>2. Stored(T, m).items = With(T, j, Revived(T[j])) /\ Stored(T, m).err = "none"
    BY <1>1, <1>2 DEF CreateOrRevive
  <2> QED BY <1>1, <2>1, <2>2 DEF Mirrors, m
<1>3. CASE H = {}
  <2> DEFINE new == NewItem(T, TheList, n)
             row == [new EXCEPT !.pos = maxPosition(T) + PositionGap]
  <2>1. i \notin DOMAIN T /\ TheList \in DOMAIN Lists
    BY FineFacts, ListFacts
  <2>2. Patched(T, m) = With(T, i, row)
    BY <1>1, <1>3 DEF AddPatch, findByName
  <2>3. Stored(T, m).items = With(T, i, new) /\ Stored(T, m).err = "none"
    BY <1>1, <1>3, <2>1 DEF CreateOrRevive
  <2>4. /\ MaxPosition(T, TheList) \in Int
        /\ \A j \in DOMAIN T : T[j].pos \in Int /\ T[j].pos <= MaxPosition(T, TheList)
    BY FineFacts, MaxPositionBounds
  <2>5. maxPosition(T) \in Int /\ \A j \in DOMAIN T : T[j].pos <= maxPosition(T)
    BY <2>4 DEF maxPosition
  <2>6. new \in ItemRow /\ new.pos = MaxPosition(T, TheList) + PositionGap
    BY NewItemRow DEF NewItem
  <2> HIDE DEF new
  <2>7. PositionGap \in Nat \ {0}
    BY GapAssumption
  <2>8. /\ row \in ItemRow /\ row.pos = maxPosition(T) + PositionGap
        /\ row.name = new.name /\ row.checked = new.checked /\ row.note = new.note
    BY <2>5, <2>6, <2>7 DEF ItemRow
  <2> HIDE DEF row
  <2>9. \A j \in DOMAIN T : T[j].pos < row.pos /\ T[j].pos < new.pos
    BY <2>4, <2>5, <2>6, <2>7, <2>8
  <2>10. Sections(With(T, i, row)) = Sections(With(T, i, new))
    BY <2>1, <2>6, <2>8, <2>9, AppendedAlike
  <2> QED BY <2>2, <2>3, <2>10 DEF Mirrors, m
<1> QED BY <1>2, <1>3

\* A check or a conversion.
LEMMA UpdateMirrors ==
  ASSUME NEW U \in SUBSET ItemId, NEW T, Fine(T, U), NEW j \in DOMAIN T,
         NEW p \in Patches(Name, ItemId), p.name = Nil, p.reorder = Nil,
         \/ ~T[j].note /\ p.note = Nil /\ p.checked \in BOOLEAN
         \/ p.note \in BOOLEAN /\ p.checked = FALSE
  PROVE  Mirrors(T, Update(j, p, Nil))
<1> DEFINE m == Update(j, p, Nil)
           R == UpdatePatch(T, m)
           row == PatchedRow(T[j], p, T[j].pos)
<1>1. /\ m.kind = "update" /\ m.item = j /\ m.patch = p /\ m.pos = Nil
      /\ Patched(T, m) = R /\ Stored(T, m) = UpdateItem(T, TheList, j, p)
  BY DEF Update, Patched, Stored
<1> HIDE DEF m
<1>2. PatchesOne(T, m, R)
  BY <1>1, UpdatePatchFacts
<1> HIDE DEF R
<1>3. /\ T[j] \in ItemRow /\ T[j].checked \in BOOLEAN /\ T[j].note \in BOOLEAN
      /\ InList(T, TheList, j)
  BY FineFacts
<1>4. R[j] = row /\ NoteNotChecked(row) /\ row.name = T[j].name
  <2>1. /\ Given(p.checked, T[j].checked) = (Given(p.checked, T[j].checked) /\ ~Given(p.note, T[j].note))
        /\ Given(Nil, T[j].pos) = T[j].pos /\ Given(p.name, T[j].name) = T[j].name
    BY <1>3, ListFacts DEF Given
  <2>2. R[j] = [T[j] EXCEPT !.checked = Given(p.checked, T[j].checked),
                            !.note    = Given(p.note, T[j].note),
                            !.pos     = T[j].pos]
    BY <1>1, <1>2, <2>1 DEF PatchesOne
  <2>3. row = [T[j] EXCEPT !.name    = T[j].name,
                           !.checked = Given(p.checked, T[j].checked),
                           !.note    = Given(p.note, T[j].note),
                           !.pos     = T[j].pos]
    BY <2>1 DEF PatchedRow
  <2>4. NoteNotChecked(row) /\ row.name = T[j].name
    BY <1>3, <2>1, <2>3 DEF ItemRow, NoteNotChecked
  <2> HIDE DEF row
  <2> QED BY <1>3, <2>2, <2>3, <2>4 DEF ItemRow
<1>5. Holders(T, TheList, row.name) \ {j} = {}
  <2> HIDE DEF row
  <2> QED BY <1>4, FineFacts DEF Holders
<1>6. Stored(T, m).err = "none" /\ Stored(T, m).items = With(T, j, row)
  BY <1>1, <1>3, <1>4, <1>5 DEF UpdateItem
<1>7. With(T, j, row) = R
  <2> HIDE DEF row
  <2> QED BY <1>1, <1>2, <1>4 DEF With, PatchesOne
<1> QED BY <1>1, <1>6, <1>7 DEF Mirrors, m

LEMMA DeleteMirrors ==
  ASSUME NEW U \in SUBSET ItemId, NEW T, Fine(T, U), NEW j \in DOMAIN T
  PROVE  Mirrors(T, Delete(j))
<1>1. InList(T, TheList, j)
  BY FineFacts
<1> QED BY <1>1 DEF Mirrors, Delete, Patched, Stored, DeleteItem

LEMMA EditMirrors ==
  ASSUME NEW U \in SUBSET ItemId, NEW T, Fine(T, U), NEW i \in ItemId \ U,
         NEW m \in EditsOf(T, i) \ Drops(T)
  PROVE  Mirrors(T, m)
<1>1. ASSUME NEW j \in DOMAIN T, ~T[j].note,
             m = Update(j, [NoPatch EXCEPT !.checked = ~T[j].checked], Nil)
      PROVE  Mirrors(T, m)
  <2> DEFINE p == [NoPatch EXCEPT !.checked = ~T[j].checked]
  <2>1. /\ p \in Patches(Name, ItemId) /\ p.note = Nil /\ p.checked \in BOOLEAN
        /\ p.name = Nil /\ p.reorder = Nil
    BY FineFacts DEF NoPatch, Patches
  <2> HIDE DEF p
  <2>2. Mirrors(T, Update(j, p, Nil))
    BY <1>1, <2>1, UpdateMirrors
  <2> QED BY <1>1, <2>2 DEF p
<1>2. ASSUME NEW j \in DOMAIN T,
             m = Update(j, [NoPatch EXCEPT !.note = ~T[j].note, !.checked = FALSE], Nil)
      PROVE  Mirrors(T, m)
  <2> DEFINE p == [NoPatch EXCEPT !.note = ~T[j].note, !.checked = FALSE]
  <2>1. /\ p \in Patches(Name, ItemId) /\ p.note \in BOOLEAN /\ p.checked = FALSE
        /\ p.name = Nil /\ p.reorder = Nil
    BY FineFacts DEF NoPatch, Patches
  <2> HIDE DEF p
  <2>2. Mirrors(T, Update(j, p, Nil))
    BY <2>1, UpdateMirrors
  <2> QED BY <1>2, <2>2 DEF p
<1>3. ASSUME NEW n \in Name, m = Add(n, i)
      PROVE  Mirrors(T, m)
  BY <1>3, AddMirrors
<1>4. ASSUME NEW j \in DOMAIN T, m = Delete(j)
      PROVE  Mirrors(T, m)
  BY <1>4, DeleteMirrors
<1>5. \/ \E n \in Name : m = Add(n, i)
      \/ \E j \in DOMAIN T : ~T[j].note
           /\ m = Update(j, [NoPatch EXCEPT !.checked = ~T[j].checked], Nil)
      \/ \E j \in DOMAIN T :
           m = Update(j, [NoPatch EXCEPT !.note = ~T[j].note, !.checked = FALSE], Nil)
      \/ \E j \in DOMAIN T : m = Delete(j)
  BY DEF EditsOf, Adds, Toggles, Converts, Deletes
<1> QED BY <1>1, <1>2, <1>3, <1>4, <1>5

\* Whatever the list has come to, what a tab makes of an add, a check, a
\* conversion or a delete shows what the server will answer, which it accepts.
THEOREM PatchesMirrorServer == Spec => []OptimismMirrorsServer
<1>1. IInv => OptimismMirrorsServer
  <2> SUFFICES ASSUME IInv, used # ItemId, NEW m \in EditsOf(items, NewId) \ Drops(items)
               PROVE  Mirrors(items, m)
    BY DEF OptimismMirrorsServer, Mirrors
  <2>1. used \in SUBSET ItemId /\ Fine(items, used)
    BY DEF IInv, Typed
  <2>2. NewId \in ItemId \ used
    BY <2>1, NewIdIsNew
  <2> DEFINE i == NewId
  <2>3. i \in ItemId \ used /\ m \in EditsOf(items, i) \ Drops(items)
    BY <2>2
  <2> HIDE DEF i
  <2> QED BY <2>1, <2>3, EditMirrors
<1> QED BY <1>1, Invariance, PTL

-----------------------------------------------------------------------------
\* The queues of the tabs

\* How long a queue is.
LEMMA QueueLength ==
  ASSUME Typed, NEW c \in Clients
  PROVE  /\ queue[c] \in Seq(Entries) /\ Len(queue[c]) \in Nat
         /\ queue[c] # <<>> => Len(queue[c]) >= 1
         /\ queue[c] = <<>> => Len(queue[c]) = 0 /\ stage[c] = "sent"
<1>1. queue[c] \in Seq(Entries) /\ (queue[c] = <<>> => stage[c] = "sent")
  BY DEF Typed
<1>2. Len(queue[c]) \in Nat /\ (queue[c] = <<>> <=> Len(queue[c]) = 0)
  BY <1>1, LenProperties, EmptySeq
<1> QED BY <1>1, <1>2

\* What a step of a tab makes of its queue, and of the queues of the others.
LEMMA QueueSteps ==
  ASSUME Typed, Carries, NEW c \in Clients, Edit(c) \/ Runs(c) \/ AnswerLost(c) \/ Refetch(c)
  PROVE  /\ \A d \in Clients \ {c} :
              queue'[d] = queue[d] /\ stage'[d] = stage[d] /\ carried'[d] = carried[d]
         /\ \/ /\ Edit(c) /\ Len(queue'[c]) = Len(queue[c]) + 1
               /\ stage'[c] = IF stage[c] = "settling" THEN "cancelled" ELSE stage[c]
            \/ /\ Serve(c) /\ queue' = queue
               /\ stage[c] = "sent" /\ stage'[c] = "answered"
            \/ /\ Answer(c) /\ queue' = queue
               /\ stage[c] = "answered" /\ stage'[c] = "settling"
            \/ /\ Fetch(c) /\ queue' = queue /\ stage' = stage
               /\ stage[c] = "settling" /\ carried[c] = {} /\ carried'[c] # {}
            \/ /\ Settle(c) /\ Len(queue'[c]) = Len(queue[c]) - 1 /\ Len(queue[c]) >= 1
               /\ stage[c] = "cancelled" \/ (stage[c] = "settling" /\ carried[c] # {})
               /\ stage'[c] = "sent"
            \/ /\ AnswerLost(c) /\ queue' = queue
               /\ stage[c] = "answered" /\ stage'[c] = "sent"
            \/ Refetch(c) /\ queue' = queue /\ stage'[c] = stage[c] /\ carried' = carried
<1>1. /\ stage \in [Clients -> Stages] /\ queue \in [Clients -> Seq(Entries)]
      /\ carried \in [Clients -> SUBSET Tables]
  BY DEF Typed, Carries
<1>2. CASE Edit(c)
  <2>1. /\ \A d \in Clients \ {c} : queue'[d] = queue[d]
        /\ Len(queue[c]) \in Nat /\ DOMAIN queue'[c] = 1 .. Len(queue[c]) + 1
    BY <1>2, EditEnqueues DEF Enqueues
  <2>2. queue'[c] \in Seq(Entries)
    BY <1>2, EditTyped DEF Typed
  <2>3. Len(queue'[c]) = Len(queue[c]) + 1
    <3>1. Len(queue'[c]) \in Nat /\ DOMAIN queue'[c] = 1 .. Len(queue'[c])
      BY <2>2, LenProperties
    <3>2. 1 .. Len(queue'[c]) = 1 .. Len(queue[c]) + 1
      BY <2>1, <3>1
    <3>3. \A a, b \in Nat : 1 .. a = 1 .. b + 1 => a = b + 1
      OBVIOUS
    <3> QED BY <2>1, <3>1, <3>2, <3>3
  <2>4. /\ stage' = [stage EXCEPT ![c] = IF @ = "settling" THEN "cancelled" ELSE @]
        /\ carried' = [carried EXCEPT ![c] = {}]
    BY <1>2 DEF Edit
  <2> QED BY <1>1, <1>2, <2>1, <2>3, <2>4
<1>3. CASE Serve(c)
  BY <1>1, <1>3 DEF Serve
<1>4. CASE Answer(c)
  BY <1>1, <1>4 DEF Answer
<1>5. CASE Settle(c)
  <2>1. /\ queue[c] # <<>> /\ queue'[c] = Tail(queue[c])
        /\ \A d \in Clients \ {c} : queue'[d] = queue[d]
    BY <1>1, <1>5, SettleStep
  <2>2. Len(queue[c]) >= 1 /\ Len(queue'[c]) = Len(queue[c]) - 1
    BY <1>1, <2>1, QueueLength, HeadTailProperties
  <2>3. /\ stage' = [stage EXCEPT ![c] = "sent"] /\ carried' = [carried EXCEPT ![c] = {}]
        /\ stage[c] = "cancelled" \/ (stage[c] = "settling" /\ carried[c] # {})
    BY <1>5 DEF Settle
  <2> QED BY <1>1, <1>5, <2>1, <2>2, <2>3
<1>6. CASE AnswerLost(c)
  BY <1>1, <1>6 DEF AnswerLost
<1>7. CASE Refetch(c)
  BY <1>7 DEF Refetch, sending
<1>8. CASE Fetch(c)
  BY <1>1, <1>8 DEF Fetch, sending
<1> QED BY <1>2, <1>3, <1>4, <1>5, <1>6, <1>7, <1>8 DEF Runs

-----------------------------------------------------------------------------
\* What is sent

\* A request that the store methods are made for: an add names an item, an
\* update says what to change, and a drop is beside one or two other rows.
WellFormed(m) ==
  /\ m.item \in ItemId
  /\ m.kind = "add" => m.name \in Name
  /\ m.kind = "update" =>
       /\ m.patch \in Patches(Name, ItemId)
       /\ m.patch.reorder # Nil =>
            /\ m.patch.reorder \in Targets(ItemId)
            /\ m.item \notin {m.patch.reorder.after, m.patch.reorder.before}
            /\ m.patch.reorder.after # m.patch.reorder.before

RequestsWellFormed ==
  \A c \in Clients : \A k \in DOMAIN queue[c] : WellFormed(queue[c][k].edit)

\* Whatever a tab shows, what it queues is well-formed: no drop names one row
\* as both neighbours, or the row that it moves (planReorder in reorder.ts),
\* which is what Store and ItemTxn take for granted of a request.
THEOREM TabsSendWellFormed == Spec => []RequestsWellFormed
<1>1. ASSUME Typed, NEW c \in Clients, NEW k \in DOMAIN queue[c]
      PROVE  WellFormed(queue[c][k].edit)
  <2>1. queue[c][k] \in Entries /\ Sound(queue[c][k].edit, used) /\ used \subseteq ItemId
    BY <1>1, QueueFacts DEF Typed
  <2>2. queue[c][k].edit \in Edits
    BY <2>1 DEF Entries
  <2>3. queue[c][k].edit.patch.reorder \in Targets(ItemId) \cup {Nil}
    BY <2>2 DEF Edits, Patches
  <2> QED BY <2>1, <2>2, <2>3 DEF WellFormed, Sound, Edits
<1>2. IInv => RequestsWellFormed
  BY <1>1 DEF IInv, RequestsWellFormed
<1> QED BY <1>2, Invariance, PTL

-----------------------------------------------------------------------------
\* The queues run out

\* The steps that the mutations of a tab still need, those it has and those it
\* may come to have by edits and lost answers.
StepsLeft(c) ==
  4 * Len(queue[c]) - (CASE stage[c] = "sent" -> 0
                         [] stage[c] = "answered" -> 1
                         [] stage[c] = "settling" -> IF carried[c] = {} THEN 2 ELSE 3
                         [] stage[c] = "cancelled" -> 3)

StepsToCome(c) == StepsLeft(c) + 4 * (MaxEdits[c] - edits[c]) + (MaxLosses - losses)

\* No step of any tab makes them more, and each step of a mutation makes them
\* fewer: no answer has a mutation sent again, none is lost from the queue.
MutationsRunOut ==
  [][\A c \in Clients :
       /\ StepsToCome(c) \in Nat /\ StepsToCome(c)' \in Nat
       /\ StepsToCome(c)' <= StepsToCome(c)
       /\ Runs(c) => StepsToCome(c)' < StepsToCome(c)]_vars

Counted ==
  /\ edits \in [Clients -> Nat] /\ \A c \in Clients : edits[c] <= MaxEdits[c]
  /\ losses \in Nat /\ losses <= MaxLosses

LEMMA NextCounted ==
  ASSUME Counted, [Next]_vars
  PROVE  Counted'
<1>1. CASE UNCHANGED vars
  BY <1>1 DEF Counted, vars, bounds
<1>2. ASSUME NEW c \in Clients, Edit(c) PROVE Counted'
  <2>1. /\ edits[c] < MaxEdits[c] /\ edits' = [edits EXCEPT ![c] = @ + 1]
        /\ losses' = losses
    BY <1>2 DEF Edit
  <2>2. \A d \in Clients : MaxEdits[d] \in Nat
    BY SyncAssumption
  <2> QED BY <2>1, <2>2 DEF Counted
<1>3. ASSUME NEW c \in Clients, AnswerLost(c) PROVE Counted'
  BY <1>3, SyncAssumption DEF AnswerLost, Counted
<1>4. ASSUME NEW c \in Clients, Runs(c) \/ Refetch(c) PROVE Counted'
  BY <1>4 DEF Runs, Serve, Answer, Fetch, Settle, Refetch, Counted, bounds
<1> QED BY <1>1, <1>2, <1>3, <1>4 DEF Next

LEMMA CountedInvariance == Spec => []Counted
<1>1. Init => Counted
  BY SyncAssumption DEF Init, Counted
<1> QED BY <1>1, NextCounted, PTL DEF Spec

LEMMA StepsLeftType ==
  ASSUME Typed, NEW c \in Clients
  PROVE  StepsLeft(c) \in Nat
<1>1. /\ Len(queue[c]) \in Nat /\ stage[c] \in Stages
      /\ stage[c] # "sent" => Len(queue[c]) >= 1
  BY QueueLength DEF Typed
<1>2. \/ stage[c] = "sent" /\ StepsLeft(c) = 4 * Len(queue[c])
      \/ \E n \in 1 .. 3 : stage[c] # "sent" /\ StepsLeft(c) = 4 * Len(queue[c]) - n
  BY <1>1 DEF StepsLeft, Stages
<1> QED BY <1>1, <1>2

\* What a step of a tab does to the steps left to it.
LEMMA StepsLeftSteps ==
  ASSUME Typed, Carries, NEW c \in Clients, Edit(c) \/ Runs(c) \/ AnswerLost(c) \/ Refetch(c)
  PROVE  /\ \A d \in Clients \ {c} : StepsLeft(d)' = StepsLeft(d)
         /\ \/ Edit(c) /\ StepsLeft(c)' <= StepsLeft(c) + 4
            \/ Runs(c) /\ StepsLeft(c)' <= StepsLeft(c) - 1
            \/ AnswerLost(c) /\ StepsLeft(c)' = StepsLeft(c) + 1
            \/ Refetch(c) /\ StepsLeft(c)' = StepsLeft(c)
<1>1. Len(queue[c]) \in Nat /\ stage[c] \in Stages
  BY QueueLength DEF Typed
<1>2. \A d \in Clients \ {c} : StepsLeft(d)' = StepsLeft(d)
  BY QueueSteps DEF StepsLeft
<1>3. CASE Edit(c) /\ Len(queue'[c]) = Len(queue[c]) + 1
           /\ stage'[c] = IF stage[c] = "settling" THEN "cancelled" ELSE stage[c]
  <2>1. StepsLeft(c)' <= StepsLeft(c) + 4
    BY <1>1, <1>3 DEF StepsLeft, Stages
  <2> QED BY <1>2, <1>3, <2>1
<1>4. CASE Settle(c) /\ Len(queue'[c]) = Len(queue[c]) - 1 /\ stage'[c] = "sent"
           /\ (stage[c] = "cancelled" \/ (stage[c] = "settling" /\ carried[c] # {}))
  <2>1. StepsLeft(c)' <= StepsLeft(c) - 1
    BY <1>1, <1>4 DEF StepsLeft
  <2> QED BY <1>2, <1>4, <2>1 DEF Runs
<1>5. CASE Serve(c) /\ queue' = queue /\ stage[c] = "sent" /\ stage'[c] = "answered"
  <2>1. StepsLeft(c) = 4 * Len(queue[c]) /\ StepsLeft(c)' = 4 * Len(queue[c]) - 1
    BY <1>5 DEF StepsLeft
  <2>2. StepsLeft(c)' <= StepsLeft(c) - 1
    BY <1>1, <2>1
  <2> QED BY <1>2, <1>5, <2>2 DEF Runs
<1>6. CASE Answer(c) /\ queue' = queue /\ stage[c] = "answered" /\ stage'[c] = "settling"
  <2>1. StepsLeft(c) = 4 * Len(queue[c]) - 1
    BY <1>6 DEF StepsLeft
  <2>2. StepsLeft(c)' = 4 * Len(queue[c]) - 2 \/ StepsLeft(c)' = 4 * Len(queue[c]) - 3
    BY <1>6, Zenon DEF StepsLeft
  <2>3. StepsLeft(c)' <= StepsLeft(c) - 1
    BY <1>1, <2>1, <2>2
  <2> QED BY <1>2, <1>6, <2>3 DEF Runs
<1>7. CASE AnswerLost(c) /\ queue' = queue /\ stage[c] = "answered" /\ stage'[c] = "sent"
  <2>1. StepsLeft(c)' = StepsLeft(c) + 1
    BY <1>1, <1>7 DEF StepsLeft
  <2> QED BY <1>2, <1>7, <2>1
<1>8. CASE Refetch(c) /\ queue' = queue /\ stage'[c] = stage[c] /\ carried' = carried
  <2>1. StepsLeft(c)' = StepsLeft(c)
    BY <1>8 DEF StepsLeft
  <2> QED BY <1>2, <1>8, <2>1
<1>9. CASE Fetch(c) /\ queue' = queue /\ stage' = stage
           /\ stage[c] = "settling" /\ carried[c] = {} /\ carried'[c] # {}
  <2>1. StepsLeft(c) = 4 * Len(queue[c]) - 2 /\ StepsLeft(c)' = 4 * Len(queue[c]) - 3
    BY <1>9 DEF StepsLeft
  <2>2. StepsLeft(c)' <= StepsLeft(c) - 1
    BY <1>1, <2>1
  <2> QED BY <1>2, <1>9, <2>2 DEF Runs
<1> QED BY <1>3, <1>4, <1>5, <1>6, <1>7, <1>8, <1>9, QueueSteps

LEMMA BoundsSteps ==
  ASSUME Counted, NEW c \in Clients
  PROVE  /\ Edit(c) => /\ edits' = [edits EXCEPT ![c] = edits[c] + 1] /\ losses' = losses
         /\ Runs(c) \/ Refetch(c) => edits' = edits /\ losses' = losses
         /\ AnswerLost(c) => edits' = edits /\ losses' = losses + 1
BY DEF Edit, Runs, Serve, Answer, Fetch, Settle, Refetch, AnswerLost, bounds

LEMMA StepsToComeType ==
  ASSUME Typed, Counted, NEW c \in Clients
  PROVE  /\ StepsLeft(c) \in Nat /\ StepsToCome(c) \in Nat
         /\ edits[c] \in Nat /\ MaxEdits[c] \in Nat /\ losses \in Nat /\ MaxLosses \in Nat
<1>1. /\ StepsLeft(c) \in Nat
      /\ edits[c] \in Nat /\ MaxEdits[c] \in Nat /\ losses \in Nat /\ MaxLosses \in Nat
      /\ edits[c] <= MaxEdits[c] /\ losses <= MaxLosses
  BY StepsLeftType, SyncAssumption DEF Counted
<1> QED BY <1>1 DEF StepsToCome

LEMMA StepsToComeSteps ==
  ASSUME Typed, Carries, Counted, NEW d \in Clients, StepsLeft(d)' \in Nat,
         NEW c \in Clients, Edit(c) \/ Runs(c) \/ AnswerLost(c) \/ Refetch(c)
  PROVE  /\ StepsToCome(d)' <= StepsToCome(d)
         /\ d = c /\ Runs(c) => StepsToCome(d)' < StepsToCome(d)
<1>1. /\ StepsLeft(d) \in Nat /\ StepsLeft(d)' \in Nat /\ edits[d] \in Nat /\ MaxEdits[d] \in Nat
      /\ losses \in Nat /\ MaxLosses \in Nat
      /\ edits \in [Clients -> Nat]
  BY StepsToComeType, StepsLeftType DEF Counted
<1>2. StepsToCome(d) = StepsLeft(d) + 4 * (MaxEdits[d] - edits[d]) + (MaxLosses - losses)
  BY DEF StepsToCome
<1>3. StepsToCome(d)' = StepsLeft(d)' + 4 * (MaxEdits[d] - edits'[d]) + (MaxLosses - losses')
  BY DEF StepsToCome
<1>4. CASE d # c
  <2>1. StepsLeft(d)' = StepsLeft(d)
    BY <1>4, StepsLeftSteps
  <2>2. edits'[d] = edits[d] /\ losses' \in {losses, losses + 1}
    BY <1>1, <1>4, BoundsSteps
  <2> QED BY <1>1, <1>2, <1>3, <1>4, <2>1, <2>2
<1>5. CASE d = c
  <2>1. CASE Edit(c) /\ StepsLeft(c)' <= StepsLeft(c) + 4
    <3>1. edits'[d] = edits[d] + 1 /\ losses' = losses /\ StepsLeft(d)' <= StepsLeft(d) + 4
      BY <1>1, <1>5, <2>1, BoundsSteps
    <3>2. ~Runs(c)
      <4>1. edits' # edits
        BY <1>1, <1>5, <3>1
      <4> QED BY <4>1, BoundsSteps
    <3> QED BY <1>1, <1>2, <1>3, <3>1, <3>2
  <2>2. CASE Runs(c) /\ StepsLeft(c)' <= StepsLeft(c) - 1
    <3>1. edits' = edits /\ losses' = losses /\ StepsLeft(d)' <= StepsLeft(d) - 1
      BY <1>5, <2>2, BoundsSteps
    <3> QED BY <1>1, <1>2, <1>3, <3>1
  <2>3. CASE AnswerLost(c) /\ StepsLeft(c)' = StepsLeft(c) + 1
    <3>1. edits' = edits /\ losses' = losses + 1 /\ StepsLeft(d)' = StepsLeft(d) + 1
      BY <1>5, <2>3, BoundsSteps
    <3>2. ~Runs(c)
      <4>1. losses' # losses
        BY <1>1, <3>1
      <4> QED BY <4>1, BoundsSteps
    <3> QED BY <1>1, <1>2, <1>3, <3>1, <3>2
  <2>4. CASE Refetch(c) /\ StepsLeft(c)' = StepsLeft(c)
    <3>1. edits' = edits /\ losses' = losses /\ StepsLeft(d)' = StepsLeft(d)
      BY <1>5, <2>4, BoundsSteps
    <3>2. ~Runs(c)
      <4>1. stage \in [Clients -> Stages] /\ stage' = stage /\ stage[c] # "settling"
        BY <2>4 DEF Refetch, sending, Typed
      <4> QED BY <4>1 DEF Runs, Serve, Answer, Fetch, Settle
    <3> QED BY <1>1, <1>2, <1>3, <3>1, <3>2
  <2> QED BY <2>1, <2>2, <2>3, <2>4, StepsLeftSteps
<1> QED BY <1>4, <1>5

\* Every tab's mutations come to their end within a number of steps that its
\* edits and the lost answers alone bound: nothing the server answers is sent
\* again (retry in queryClient.ts).
THEOREM MutationsAreFinite == Spec => MutationsRunOut
<1> DEFINE Fewer(c) ==
      /\ StepsToCome(c) \in Nat /\ StepsToCome(c)' \in Nat
      /\ StepsToCome(c)' <= StepsToCome(c)
      /\ Runs(c) => StepsToCome(c)' < StepsToCome(c)
           InNat == \A c \in Clients : StepsLeft(c) \in Nat /\ StepsToCome(c) \in Nat
<1>1. ASSUME Typed, Carries, Counted, InNat, InNat', Next, NEW d \in Clients
      PROVE  Fewer(d)
  <2>1. StepsToCome(d) \in Nat /\ StepsToCome(d)' \in Nat
    BY <1>1
  <2>2. StepsToCome(d)' <= StepsToCome(d)
    BY <1>1, StepsToComeSteps DEF Next
  <2>3. Runs(d) => StepsToCome(d)' < StepsToCome(d)
    BY <1>1, StepsToComeSteps
  <2> QED BY <2>1, <2>2, <2>3
<1>2. IInv /\ Counted => InNat
  BY StepsToComeType DEF IInv
<1>3. IInv /\ Counted /\ InNat /\ InNat' /\ [Next]_vars => [\A c \in Clients : Fewer(c)]_vars
  BY <1>1 DEF IInv
<1> QED BY <1>2, <1>3, Invariance, CountedInvariance, PTL DEF Spec, MutationsRunOut
=============================================================================
