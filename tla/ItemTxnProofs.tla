--------------------------- MODULE ItemTxnProofs ---------------------------
(***************************************************************************)
(* Theorems about ItemTxn, for any number of concurrent requests on a list *)
(* of any length: a reorder that is answered lands between its neighbours, *)
(* and every request ends as if it had run alone.                          *)
(*                                                                         *)
(* The inductive invariant says what a row lock is worth (what was read    *)
(* under it is still committed), what the unique index is worth (a name    *)
(* that is about to be committed is nobody else's), and how far a          *)
(* renormalization has come.                                               *)
(*                                                                         *)
(* At the end, without fairness: one of the transactions can always take   *)
(* its next step, and each step brings its transaction nearer its end.     *)
(***************************************************************************)
EXTENDS ItemTxn, PositionProofs

Adds    == {"insert", "select", "revive"}
Updates == {"read", "place", "write", "renumber", "again", "index"}

\* A transaction that is updating rows, whatever it has come to.
Updating(t) == pc[t] \in Updates \cup {"commit"} /\ req[t].op = "update"

\* What is known of a transaction from the statement it is at.
StageOK(t) ==
  /\ pc[t] # "idle" => req[t] \in Requests
  /\ pc[t] \in Adds => req[t].op = "add"
  /\ pc[t] \in Updates => req[t].op = "update"
  /\ pc[t] = "delete" => req[t].op = "delete"
  /\ pc[t] = "commit" => req[t].op \in {"add", "update"}
  /\ pc[t] \in {"place", "renumber", "again"} => target(t) # Nil
  /\ pc[t] = "index" => req[t].patch.name # Nil
  /\ pc[t] \notin {"place", "revive", "renumber", "commit"} => todo[t] = <<>>
  /\ pc[t] \in {"place", "revive"} => todo[t] # <<>>
  /\ pc[t] \notin {"renumber", "again", "index", "commit"} => DOMAIN written[t] = {}
  /\ ~(Updating(t) /\ pc[t] # "read") => DOMAIN seen[t] = {}
  /\ pc[t] \in {"insert", "renumber", "again"} => snap[t] # {}
  /\ pc[t] \in {"idle", "select", "revive", "read", "place", "write", "delete", "done"} =>
       snap[t] = {}
  /\ \A S, T \in snap[t] : S = T

-----------------------------------------------------------------------------
\* What a lock is worth

\* A locked row is there.
LockedIsThere == \A i \in ItemId : owner[i] # Nil => i \in DOMAIN items

\* What a transaction has read it holds, and it is still committed; once it has
\* renumbered the list, but for the position, which is the one it has written.
ReadIsHeld(t) ==
  Updating(t) /\ pc[t] # "read" =>
    /\ req[t].item \in DOMAIN seen[t]
    /\ \A i \in DOMAIN seen[t] :
         /\ owner[i] = t
         /\ snap[t] # {} => i \in DOMAIN written[t]
         /\ seen[t][i] = [items[i] EXCEPT !.pos = seen[t][i].pos]
         /\ pc[t] \in {"place", "write", "renumber"} \/ snap[t] = {} =>
              seen[t][i] = items[i]
         /\ pc[t] \in {"again", "index", "commit"} /\ snap[t] # {} =>
              \A T \in snap[t] : i \in DOMAIN T /\ seen[t][i].pos = Renormalize(T, List)[i].pos

\* A reorder has read the rows it names, or has them to read.
NamedAreRead(t) ==
  Updating(t) /\ pc[t] # "read" /\ target(t) # Nil =>
    Named(req[t].item, target(t)) \ DOMAIN seen[t] \subseteq
      (IF pc[t] = "place" THEN Range(todo[t]) ELSE {})

ReadsNamed(t) ==
  pc[t] = "place" => Range(todo[t]) \subseteq Named(req[t].item, target(t))

\* The row that an update is about to commit is what it made of what it read.
PatchIsWritten(t) ==
  Updating(t) /\ pc[t] \in {"index", "commit"} =>
    /\ req[t].item \in DOMAIN written[t]
    /\ Placed(t).err = "none"
    /\ written[t][req[t].item] = PatchedRow(seen[t][req[t].item], req[t].patch, Placed(t).pos)

\* The other rows it writes it holds too, and only their positions change, to
\* those of its snapshot.
OthersRenumbered(t) ==
  Updating(t) =>
    /\ snap[t] = {} => DOMAIN written[t] \subseteq {req[t].item}
    /\ \A i \in DOMAIN written[t] :
         /\ owner[i] = t
         /\ i # req[t].item \/ pc[t] \in {"renumber", "again"} =>
              /\ written[t][i] = [items[i] EXCEPT !.pos = written[t][i].pos]
              /\ \A T \in snap[t] : i \in DOMAIN T /\ written[t][i].pos = Renormalize(T, List)[i].pos

\* No row of the snapshot is forgotten, but those that are gone.
AllRenumbered(t) ==
  Updating(t) => \A T \in snap[t] :
    DOMAIN T \cap DOMAIN items \subseteq
      DOMAIN written[t] \cup (IF pc[t] = "renumber" THEN Range(todo[t]) ELSE {})

TodoInSnap(t) ==
  pc[t] = "renumber" => \A T \in snap[t] : Range(todo[t]) \subseteq DOMAIN T

\* A list is renumbered for want of room.
WantOfRoom(t) ==
  Updating(t) /\ snap[t] # {} =>
    /\ target(t) # Nil
    /\ TryComputePosition(items, List, req[t].item, target(t)).err = "exhausted"

\* What an add is about to commit: a new row, or one that it holds.
AddIsReady(t) ==
  pc[t] = "commit" /\ req[t].op = "add" =>
    \/ /\ todo[t] = <<>> /\ snap[t] # {}
       /\ DOMAIN written[t] = {t} /\ t \notin DOMAIN items
       /\ \A T \in snap[t] :
            written[t][t] = [NewItem(T, List, req[t].patch.name) EXCEPT !.born = born[t]]
    \/ /\ todo[t] # <<>> /\ snap[t] = {}
       /\ LET i == Head(todo[t]) IN
          /\ owner[i] = t /\ items[i].name = req[t].patch.name
          /\ DOMAIN written[t] \subseteq {i}
          /\ IF i \in DOMAIN written[t]
             THEN written[t][i] = Revived(items[i])
             ELSE ~items[i].checked /\ ~items[i].note

\* The id that an add inserts is new.
NewIsNew ==
  \A t \in Txn : pc[t] # "done" =>
    t \notin DOMAIN items /\ \A u \in Txn : \A T \in snap[u] : t \notin DOMAIN T

-----------------------------------------------------------------------------
\* What the unique index is worth

NamesUnique == \A i, j \in DOMAIN items : items[i].name = items[j].name => i = j

\* The row that is about to get a name, if the request gives one.
Naming(t) ==
  /\ pc[t] = "commit" /\ req[t].patch.name # Nil
  /\ req[t].op = "add" => todo[t] = <<>>

Renamed(t) == IF req[t].op = "add" THEN t ELSE req[t].item

\* Nobody has a name that a transaction is about to commit, nor is about to.
NameIsTaken ==
  \A t \in Txn : Naming(t) =>
    /\ \A i \in DOMAIN items \ {Renamed(t)} : items[i].name # req[t].patch.name
    /\ \A u \in Txn \ {t} : pc[u] = "commit" =>
         \A i \in DOMAIN written[u] : written[u][i].name # req[t].patch.name

LocalInv(t) ==
  /\ StageOK(t)
  /\ ReadIsHeld(t) /\ NamedAreRead(t) /\ ReadsNamed(t)
  /\ PatchIsWritten(t) /\ OthersRenumbered(t) /\ AllRenumbered(t) /\ TodoInSnap(t)
  /\ WantOfRoom(t) /\ AddIsReady(t)

IInv ==
  /\ TypeOK /\ LockedIsThere /\ NewIsNew
  /\ NamesUnique /\ NameIsTaken
  /\ \A t \in Txn : LocalInv(t)
-----------------------------------------------------------------------------
\* Tables

LEMMA TableFacts ==
  ASSUME NEW T, IsTable(T, ItemId, Row)
  PROVE  /\ Sane(T) /\ IsFiniteSet(DOMAIN T) /\ DOMAIN T \subseteq ItemId
         /\ ItemsOf(T, List) = DOMAIN T
         /\ \A i \in DOMAIN T : T[i] \in Row
<1>1. IsFiniteSet(DOMAIN T) /\ DOMAIN T \subseteq ItemId
  BY ItemTxnAssumption, FS_Subset DEF IsTable
<1>2. \A i \in DOMAIN T : T[i] \in Row
  BY DEF IsTable
<1>3. Row \subseteq ItemRow
  BY ItemTxnAssumption DEF Row, ItemRow
<1>4. T \in [DOMAIN T -> ItemRow]
  BY <1>3 DEF IsTable
<1> QED BY <1>1, <1>2, <1>4 DEF Sane, IsTable, ItemsOf, Row

LEMMA EmptyTable == IsTable(Empty, ItemId, Row) /\ DOMAIN Empty = {}
BY DEF IsTable, Empty

LEMMA WithTable ==
  ASSUME NEW T, IsTable(T, ItemId, Row), NEW i \in ItemId, NEW row \in Row
  PROVE  /\ IsTable(With(T, i, row), ItemId, Row)
         /\ DOMAIN With(T, i, row) = DOMAIN T \cup {i}
         /\ With(T, i, row)[i] = row
         /\ \A j \in DOMAIN T \ {i} : With(T, i, row)[j] = T[j]
BY DEF IsTable, With

LEMMA WithoutTable ==
  ASSUME NEW T, IsTable(T, ItemId, Row), NEW X
  PROVE  /\ IsTable(Without(T, X), ItemId, Row)
         /\ DOMAIN Without(T, X) = DOMAIN T \ X
         /\ \A j \in DOMAIN T \ X : Without(T, X)[j] = T[j]
BY DEF IsTable, Without

LEMMA OverTable ==
  ASSUME NEW w, NEW T, IsTable(w, ItemId, Row), IsTable(T, ItemId, Row)
  PROVE  /\ IsTable(Over(w, T), ItemId, Row)
         /\ DOMAIN Over(w, T) = DOMAIN w \cup DOMAIN T
         /\ \A i \in DOMAIN w : Over(w, T)[i] = w[i]
         /\ \A i \in DOMAIN T \ DOMAIN w : Over(w, T)[i] = T[i]
BY DEF IsTable, Over

\* The position that renormalize gives a row.
LEMMA RenumberedRow ==
  ASSUME NEW T, IsTable(T, ItemId, Row), NEW i \in DOMAIN T
  PROVE  Renormalize(T, List)[i].pos \in Int
BY TableFacts, RenormalizeFields, SaneRows

LEMMA NewRow ==
  ASSUME NEW T, IsTable(T, ItemId, Row), NEW n \in Name, NEW b \in Nat
  PROVE  /\ [NewItem(T, List, n) EXCEPT !.born = b] \in Row
         /\ [NewItem(T, List, n) EXCEPT !.born = b].name = n
<1>1. MaxPosition(T, List) \in Int
  BY TableFacts, MaxPositionBounds
<1>2. PositionGap \in Int
  BY GapAssumption
<1>3. Now(T) \in Nat
  BY TableFacts, SaneRows, NowIsLater
<1>4. NewItem(T, List, n) \in Row /\ NewItem(T, List, n).name = n
  BY <1>1, <1>2, <1>3 DEF NewItem, Row
<1> QED BY <1>4 DEF Row

LEMMA RevivedRowType ==
  ASSUME NEW row \in Row
  PROVE  Revived(row) \in Row /\ Revived(row).name = row.name
BY DEF Revived, Row

LEMMA PatchedRowType ==
  ASSUME NEW row \in Row, NEW p \in Patches(Name, ItemId), NEW pos \in Int
  PROVE  /\ PatchedRow(row, p, pos) \in Row
         /\ PatchedRow(row, p, pos).pos = pos
         /\ PatchedRow(row, p, pos).name = IF p.name = Nil THEN row.name ELSE p.name
         /\ NoteNotChecked(PatchedRow(row, p, pos))
<1>1. /\ Given(p.name, row.name) \in Name
      /\ Given(p.checked, row.checked) \in BOOLEAN
      /\ Given(p.note, row.note) \in BOOLEAN
  BY RowAssumption DEF Given, Patches, Row
<1> QED BY <1>1 DEF PatchedRow, Row, Given, NoteNotChecked

\* The position computed depends on the positions of the rows named.
LEMMA TrySame ==
  ASSUME NEW S, NEW T, NEW m, NEW r,
         IsTable(S, ItemId, Row), IsTable(T, ItemId, Row),
         \A i \in Named(m, r) : i \in DOMAIN S /\ i \in DOMAIN T /\ S[i].pos = T[i].pos
  PROVE  TryComputePosition(S, List, m, r) = TryComputePosition(T, List, m, r)
<1>1. \A i \in Named(m, r) : InList(S, List, i) /\ InList(T, List, i)
  BY TableFacts DEF InList
<1> QED BY <1>1 DEF TryComputePosition, Named

LEMMA TryType ==
  ASSUME NEW T, IsTable(T, ItemId, Row), NEW m, NEW r
  PROVE  TryComputePosition(T, List, m, r).pos \in Int
BY TableFacts, TryComputePositionType

-----------------------------------------------------------------------------
\* Sequences of rows to lock

LEMMA SeqFacts ==
  ASSUME NEW S, NEW s \in Seq(S), s # <<>>
  PROVE  /\ Head(s) \in S /\ Tail(s) \in Seq(S)
         /\ Head(s) \in Range(s)
         /\ Range(s) = {Head(s)} \cup Range(Tail(s))
<1>1. Len(s) \in Nat \ {0} /\ DOMAIN s = 1 .. Len(s)
  OBVIOUS
<1>2. Tail(s) \in Seq(S) /\ Len(Tail(s)) = Len(s) - 1
      /\ \A n \in 1 .. Len(s) - 1 : Tail(s)[n] = s[n + 1]
  BY <1>1
<1>3. DOMAIN Tail(s) = 1 .. Len(s) - 1
  BY <1>2
<1>4. Head(s) = s[1] /\ Head(s) \in S
  BY <1>1
<1>5. \A n \in 1 .. Len(s) : n = 1 \/ (n - 1 \in 1 .. Len(s) - 1 /\ Tail(s)[n - 1] = s[n])
  BY <1>1, <1>2
<1>6. \A n \in 1 .. Len(s) - 1 : n + 1 \in 1 .. Len(s)
  BY <1>1
<1>7. ASSUME NEW x \in Range(s) PROVE x \in {Head(s)} \cup Range(Tail(s))
  <2>1. PICK n \in 1 .. Len(s) : x = s[n]
    BY <1>1 DEF Range
  <2>2. n = 1 \/ (n - 1 \in DOMAIN Tail(s) /\ Tail(s)[n - 1] = x)
    BY <1>3, <1>5, <2>1
  <2> QED BY <1>4, <2>1, <2>2 DEF Range
<1>8. {Head(s)} \cup Range(Tail(s)) \subseteq Range(s)
  BY <1>1, <1>2, <1>3, <1>4, <1>6 DEF Range
<1> QED BY <1>2, <1>4, <1>7, <1>8

LEMMA RangeEmpty == Range(<<>>) = {}
BY DEF Range

LEMMA OrderFacts ==
  ASSUME NEW S, IsFiniteSet(S), NEW s \in SetToSeqs(S)
  PROVE  s \in Seq(S) /\ Range(s) = S
<1> DEFINE n == Cardinality(S)
<1>1. n \in Nat
  BY FS_CardinalityType
<1>2. s \in [1 .. n -> S] /\ \A i, j \in 1 .. n : i # j => s[i] # s[j]
  BY DEF SetToSeqs
<1>3. s \in Injection(1 .. n, S)
  BY <1>2 DEF Injection, IsInjective
<1>4. IsFiniteSet(1 .. n) /\ Cardinality(1 .. n) = n
  BY <1>1, FS_Interval
<1>5. s \in Surjection(1 .. n, S)
  BY <1>3, <1>4, FS_Injection
<1>6. Range(s) = S
  BY <1>2, <1>5 DEF Range, Surjection
<1> QED BY <1>1, <1>2, <1>6

\* The rows whose positions a reorder reads are those it names.
LEMMA NeighboursNamed ==
  ASSUME NEW t, req[t].item \in ItemId, target(t) \in Targets(ItemId)
  PROVE  /\ Neighbours(t) \in Seq(ItemId) /\ Neighbours(t) # <<>>
         /\ Range(Neighbours(t)) = Named(req[t].item, target(t))
<1> DEFINE above == target(t).after
           below == target(t).before
<1>1. \A x, y : Range(<<x>>) = {x} /\ Range(<<x, y>>) = {x, y}
  <2>1. \A x : Range(<<x>>) = {x}
    BY DEF Range
  <2>2. \A x, y : DOMAIN <<x, y>> = {1, 2} /\ <<x, y>>[1] = x /\ <<x, y>>[2] = y
    OBVIOUS
  <2>3. \A x, y : Range(<<x, y>>) = {x, y}
    BY <2>2 DEF Range
  <2> QED BY <2>1, <2>3
<1>2. above \in ItemId \cup {Nil} /\ below \in ItemId \cup {Nil}
  BY DEF Targets
<1>3. CASE above = Nil /\ below = Nil
  <2>1. Neighbours(t) = <<req[t].item>> /\ Named(req[t].item, target(t)) = {req[t].item}
    BY <1>3 DEF Neighbours, Named
  <2> QED BY <1>1, <2>1
<1>4. CASE above # Nil /\ below = Nil
  <2>1. Neighbours(t) = <<above>> /\ Named(req[t].item, target(t)) = {above}
    BY <1>4 DEF Neighbours, Named
  <2> QED BY <1>1, <1>2, <1>4, <2>1
<1>5. CASE above = Nil /\ below # Nil
  <2>1. Neighbours(t) = <<below>> /\ Named(req[t].item, target(t)) = {below}
    BY <1>5 DEF Neighbours, Named
  <2> QED BY <1>1, <1>2, <1>5, <2>1
<1>6. CASE above # Nil /\ below # Nil
  <2>1. Neighbours(t) = <<above, below>> /\ Named(req[t].item, target(t)) = {above, below}
    BY <1>6 DEF Neighbours, Named
  <2> QED BY <1>1, <1>2, <1>6, <2>1
<1> QED BY <1>3, <1>4, <1>5, <1>6

-----------------------------------------------------------------------------
\* Waiting

LEMMA FreeRow ==
  ASSUME NEW t \in Txn, NEW s \in {"delete", "read", "place", "revive"}, At(t, s)
  PROVE  pc[t] = s /\ owner[Wanted(t)] \in {Nil, t}
BY DEF At, Blockers, Lockers

LEMMA FreeNextRow ==
  ASSUME NEW t \in Txn, At(t, "renumber"), todo[t] # <<>>
  PROVE  pc[t] = "renumber" /\ owner[Head(todo[t])] \in {Nil, t}
BY DEF At, Blockers, Lockers, Wanted

LEMMA FreeName ==
  ASSUME NEW t \in Txn, NEW s \in {"insert", "index"}, At(t, s)
  PROVE  pc[t] = s /\ NameWriters(t) = {}
BY DEF At, Blockers

LEMMA AtIs ==
  ASSUME NEW t \in Txn, NEW s, At(t, s)
  PROVE  pc[t] = s
BY DEF At

-----------------------------------------------------------------------------
\* Types

\* What is known of a request.
LEMMA RequestFacts ==
  ASSUME NEW t \in Txn, req[t] \in Requests
  PROVE  /\ req[t].op \in {"add", "update", "delete"}
         /\ req[t].patch \in Patches(Name, ItemId)
         /\ req[t].op = "add" => req[t].patch.name \in Name
         /\ req[t].op # "add" => req[t].item \in ItemId
         /\ target(t) # Nil => target(t) \in Targets(ItemId)
         /\ req[t].patch.name # Nil => req[t].patch.name \in Name
<1>1. req[t] \in [op : {"add", "update", "delete"}, item : ItemId \cup {Nil},
                  patch : Patches(Name, ItemId)]
  BY ItemTxnAssumption
<1>2. IF req[t].op = "add" THEN req[t].patch.name # Nil ELSE req[t].item # Nil
  BY ItemTxnAssumption
<1>3. /\ req[t].patch.name \in Name \cup {Nil}
      /\ target(t) \in Targets(ItemId) \cup {Nil}
  BY <1>1 DEF Patches, target
<1> QED BY <1>1, <1>2, <1>3

LEMMA InitTypeOK == Init => TypeOK
<1> SUFFICES ASSUME Init PROVE TypeOK
  OBVIOUS
<1>1. IsTable(items, ItemId, Row)
  BY ItemTxnAssumption DEF Init, IsTable
<1>2. \A t \in Txn : \A T \in {seen[t], written[t]} \cup snap[t] : IsTable(T, ItemId, Row)
  BY EmptyTable DEF Init
<1>3. <<>> \in Seq(ItemId)
  OBVIOUS
<1>4. todo \in [Txn -> Seq(ItemId)] /\ born \in [Txn -> Nat]
  BY <1>3 DEF Init
<1> QED BY <1>1, <1>2, <1>4 DEF Init, TypeOK, Statements

\* The transaction is over.
LEMMA FinishTypes ==
  ASSUME TypeOK, NEW t \in Txn, NEW a, Finish(t, a)
  PROVE  /\ owner' \in [ItemId -> Txn \cup {Nil}]
         /\ req' = req /\ born' = born
         /\ pc' \in [Txn -> Statements] /\ pc'[t] = "done"
         /\ todo' \in [Txn -> Seq(ItemId)] /\ todo'[t] = <<>>
         /\ DOMAIN seen' = Txn /\ DOMAIN written' = Txn /\ DOMAIN snap' = Txn
         /\ seen'[t] = Empty /\ written'[t] = Empty /\ snap'[t] = {}
         /\ \A u \in Txn \ {t} :
              /\ pc'[u] = pc[u] /\ todo'[u] = todo[u] /\ seen'[u] = seen[u]
              /\ written'[u] = written[u] /\ snap'[u] = snap[u]
         /\ \A i \in ItemId : owner'[i] = IF owner[i] = t THEN Nil ELSE owner[i]
         /\ IsTable(items', ItemId, Row) => TypeOK'
<1>1. /\ pc' \in [Txn -> Statements] /\ pc'[t] = "done"
      /\ \A u \in Txn \ {t} : pc'[u] = pc[u]
  BY DEF Finish, Goes, TypeOK, Statements
<1>2. /\ todo' \in [Txn -> Seq(ItemId)] /\ todo'[t] = <<>>
      /\ \A u \in Txn \ {t} : todo'[u] = todo[u]
  <2>1. <<>> \in Seq(ItemId)
    OBVIOUS
  <2> QED BY <2>1 DEF Finish, TypeOK
<1>3. /\ DOMAIN seen' = Txn /\ DOMAIN written' = Txn /\ DOMAIN snap' = Txn
      /\ seen'[t] = Empty /\ written'[t] = Empty /\ snap'[t] = {}
      /\ \A u \in Txn \ {t} :
           seen'[u] = seen[u] /\ written'[u] = written[u] /\ snap'[u] = snap[u]
  BY DEF Finish, TypeOK
<1>4. /\ owner' \in [ItemId -> Txn \cup {Nil}]
      /\ \A i \in ItemId : owner'[i] = IF owner[i] = t THEN Nil ELSE owner[i]
  BY DEF Finish, TypeOK
<1>5. req' = req /\ born' = born
  BY DEF Finish
<1>6. \A u \in Txn : \A T \in {seen'[u], written'[u]} \cup snap'[u] : IsTable(T, ItemId, Row)
  BY <1>3, EmptyTable DEF TypeOK
<1> QED BY <1>1, <1>2, <1>3, <1>4, <1>5, <1>6 DEF TypeOK

-----------------------------------------------------------------------------
\* What a step leaves alone

SameLocals(u) ==
  /\ req'[u] = req[u] /\ pc'[u] = pc[u] /\ born'[u] = born[u] /\ todo'[u] = todo[u]
  /\ seen'[u] = seen[u] /\ written'[u] = written[u] /\ snap'[u] = snap[u]

\* A step of t that takes or drops locks of its own only.
OwnLocks(t) ==
  \A i \in ItemId :
    owner'[i] = owner[i] \/ (owner[i] \in {Nil, t} /\ owner'[i] \in {Nil, t})

\* A step that is none of u's leaves it its state, its locks and the rows that
\* it holds; a row that appears is another one's that is about to be done.
Keeps(u) ==
  /\ SameLocals(u)
  /\ \A i \in ItemId : owner'[i] = u <=> owner[i] = u
  /\ \A i \in ItemId : owner[i] = u => i \in DOMAIN items' /\ items'[i] = items[i]
  /\ \A i \in DOMAIN items' \ DOMAIN items : i \in Txn /\ i # u /\ pc[i] # "done"

LEMMA OwnLocksKeep ==
  ASSUME NEW t \in Txn, NEW u \in Txn \ {t}, OwnLocks(t), NEW i \in ItemId
  PROVE  owner'[i] = u <=> owner[i] = u
<1>1. u # Nil
  BY ItemTxnAssumption, RowAssumption
<1> QED BY <1>1 DEF OwnLocks

LEMMA QuietKeeps ==
  ASSUME LockedIsThere, NEW t \in Txn, NEW u \in Txn \ {t},
         SameLocals(u), OwnLocks(t), items' = items
  PROVE  Keeps(u)
<1>1. u # Nil
  BY ItemTxnAssumption, RowAssumption
<1> QED BY <1>1, OwnLocksKeep DEF Keeps, LockedIsThere

LEMMA FinishOwnLocks ==
  ASSUME TypeOK, NEW t \in Txn, NEW a, Finish(t, a)
  PROVE  OwnLocks(t) /\ \A u \in Txn \ {t} : SameLocals(u)
BY FinishTypes DEF OwnLocks, SameLocals

LEMMA RollbackKeeps ==
  ASSUME TypeOK, LockedIsThere, NEW t \in Txn, NEW a, Rollback(t, a)
  PROVE  TypeOK' /\ \A u \in Txn \ {t} : Keeps(u)
BY FinishTypes, FinishOwnLocks, QuietKeeps DEF Rollback, TypeOK

LEMMA LockTypes ==
  ASSUME TypeOK, NEW t \in Txn, NEW i \in ItemId, owner[i] \in {Nil, t}, Lock(t, i)
  PROVE  /\ owner' \in [ItemId -> Txn \cup {Nil}]
         /\ OwnLocks(t)
         /\ \A j \in ItemId : owner'[j] = IF j = i THEN t ELSE owner[j]
BY DEF Lock, TypeOK, OwnLocks

LEMMA WritesTypes ==
  ASSUME TypeOK, NEW t \in Txn, NEW i \in ItemId, NEW row \in Row, Writes(t, i, row)
  PROVE  /\ DOMAIN written' = Txn /\ IsTable(written'[t], ItemId, Row)
         /\ DOMAIN written'[t] = DOMAIN written[t] \cup {i}
         /\ written'[t][i] = row
         /\ \A j \in DOMAIN written[t] \ {i} : written'[t][j] = written[t][j]
         /\ \A u \in Txn \ {t} : written'[u] = written[u]
<1>1. IsTable(written[t], ItemId, Row) /\ DOMAIN written = Txn
  BY DEF TypeOK
<1>2. written'[t] = With(written[t], i, row) /\ DOMAIN written' = Txn
      /\ \A u \in Txn \ {t} : written'[u] = written[u]
  BY <1>1 DEF Writes
<1> DEFINE w == written[t]
<1>3. /\ IsTable(With(w, i, row), ItemId, Row)
      /\ DOMAIN With(w, i, row) = DOMAIN w \cup {i}
      /\ With(w, i, row)[i] = row
      /\ \A j \in DOMAIN w \ {i} : With(w, i, row)[j] = w[j]
  <2>1. IsTable(w, ItemId, Row)
    BY <1>1
  <2> HIDE DEF w
  <2> QED BY <2>1, WithTable, ZenonT(60)
<1> QED BY <1>2, <1>3

LEMMA GoesTypes ==
  ASSUME TypeOK, NEW t \in Txn, NEW s \in Statements, Goes(t, s)
  PROVE  /\ pc' \in [Txn -> Statements] /\ pc'[t] = s
         /\ \A u \in Txn \ {t} : pc'[u] = pc[u]
BY DEF Goes, TypeOK

LEMMA BeginEffect ==
  ASSUME IInv, NEW t \in Txn, NEW r \in Requests, Begin(t, r)
  PROVE  /\ TypeOK' /\ \A u \in Txn \ {t} : Keeps(u)
         /\ items' = items /\ owner' = owner /\ pc[t] = "idle"
         /\ req'[t] = r
         /\ pc'[t] = CASE r.op = "add" -> "insert" [] r.op = "update" -> "read"
                       [] r.op = "delete" -> "delete"
         /\ snap'[t] = IF r.op = "add" THEN {items} ELSE {}
         /\ todo'[t] = todo[t] /\ seen'[t] = seen[t] /\ written'[t] = written[t]
<1> USE DEF IInv
<1> DEFINE s == CASE r.op = "add" -> "insert" [] r.op = "update" -> "read"
                  [] r.op = "delete" -> "delete"
           b == Epoch + Cardinality({u \in Txn : pc[u] # "idle"}) + 1
<1>1. r.op \in {"add", "update", "delete"}
  BY ItemTxnAssumption
<1>2. s \in Statements
  BY <1>1 DEF Statements
<1>3. Goes(t, s)
  BY DEF Begin
<1>4. b \in Nat
  <2>1. IsFiniteSet({u \in Txn : pc[u] # "idle"})
    <3>1. {u \in Txn : pc[u] # "idle"} \in SUBSET ItemId
      BY ItemTxnAssumption
    <3> QED BY <3>1, FS_Subset, ItemTxnAssumption
  <2> QED BY <2>1, FS_CardinalityType, ItemTxnAssumption
<1>5. born' = [born EXCEPT ![t] = b]
  BY DEF Begin
<1> HIDE DEF s, b
<1>6. /\ pc' \in [Txn -> Statements] /\ pc'[t] = s /\ \A u \in Txn \ {t} : pc'[u] = pc[u]
  BY <1>2, <1>3, GoesTypes
<1>7. /\ born' \in [Txn -> Nat] /\ \A u \in Txn \ {t} : born'[u] = born[u]
  BY <1>4, <1>5 DEF TypeOK
<1>8. /\ req' \in [Txn -> Requests \cup {Nil}] /\ req'[t] = r
      /\ \A u \in Txn \ {t} : req'[u] = req[u]
  BY DEF Begin, TypeOK
<1>9. /\ DOMAIN snap' = Txn /\ snap'[t] = (IF r.op = "add" THEN {items} ELSE {})
      /\ \A u \in Txn \ {t} : snap'[u] = snap[u]
  BY DEF Begin, TypeOK
<1>10. UNCHANGED <<items, owner, todo, seen, written>> /\ pc[t] = "idle"
  BY DEF Begin, reads
<1>11. TypeOK'
  BY <1>6, <1>7, <1>8, <1>9, <1>10 DEF TypeOK
<1>12. \A u \in Txn \ {t} : SameLocals(u)
  BY <1>6, <1>7, <1>8, <1>9, <1>10 DEF SameLocals
<1>13. \A u \in Txn \ {t} : Keeps(u)
  BY <1>10, <1>12, QuietKeeps DEF OwnLocks
<1> QED BY <1>6, <1>8, <1>9, <1>10, <1>11, <1>13 DEF s

-----------------------------------------------------------------------------
\* What the statements do

LEMMA InsertEffect ==
  ASSUME IInv, NEW t \in Txn, Insert(t)
  PROVE  /\ TypeOK' /\ \A u \in Txn \ {t} : Keeps(u)
         /\ UNCHANGED <<items, owner, req, born, reads>>
         /\ pc[t] = "insert" /\ NameWriters(t) = {}
         /\ \/ /\ Holders(items, List, req[t].patch.name) = {} /\ pc'[t] = "commit"
               /\ UNCHANGED snap
               /\ \E T \in snap[t] :
                    written'[t][t] = [NewItem(T, List, req[t].patch.name) EXCEPT !.born = born[t]]
               /\ DOMAIN written'[t] = DOMAIN written[t] \cup {t}
            \/ /\ Holders(items, List, req[t].patch.name) # {} /\ pc'[t] = "select"
               /\ snap'[t] = {} /\ UNCHANGED written
<1> USE DEF IInv
<1>1. pc[t] = "insert" /\ NameWriters(t) = {}
  BY FreeName DEF Insert
<1>2. UNCHANGED <<items, owner, req, born, todo, seen>>
  BY DEF Insert, reads
<1>3. req[t].op = "add" /\ req[t].patch.name \in Name
  <2>1. req[t] \in Requests /\ req[t].op = "add"
    BY <1>1 DEF LocalInv, StageOK, Adds
  <2> QED BY <2>1, RequestFacts
<1>4. t \in ItemId
  BY ItemTxnAssumption
<1>5. CASE Holders(items, List, req[t].patch.name) = {}
  <2>1. Goes(t, "commit") /\ UNCHANGED snap
    BY <1>5 DEF Insert
  <2>2. PICK T \in snap[t] :
          Writes(t, t, [NewItem(T, List, req[t].patch.name) EXCEPT !.born = born[t]])
    BY <1>5 DEF Insert
  <2> DEFINE row == [NewItem(T, List, req[t].patch.name) EXCEPT !.born = born[t]]
  <2>3. row \in Row
    BY <1>3, NewRow DEF TypeOK
  <2>4. Writes(t, t, row)
    BY <2>2
  <2> HIDE DEF row
  <2>5. /\ DOMAIN written' = Txn /\ IsTable(written'[t], ItemId, Row)
        /\ DOMAIN written'[t] = DOMAIN written[t] \cup {t} /\ written'[t][t] = row
        /\ \A u \in Txn \ {t} : written'[u] = written[u]
    BY <1>4, <2>3, <2>4, WritesTypes
  <2>6. /\ pc' \in [Txn -> Statements] /\ pc'[t] = "commit"
        /\ \A u \in Txn \ {t} : pc'[u] = pc[u]
    BY <2>1, GoesTypes DEF Statements
  <2>7. TypeOK'
    BY <1>2, <2>1, <2>5, <2>6 DEF TypeOK
  <2>8. \A u \in Txn \ {t} : SameLocals(u)
    BY <1>2, <2>1, <2>5, <2>6 DEF SameLocals
  <2>9. \A u \in Txn \ {t} : Keeps(u)
    BY <1>2, <2>8, QuietKeeps DEF OwnLocks
  <2> QED BY <1>1, <1>2, <1>5, <2>1, <2>5, <2>6, <2>7, <2>9 DEF reads, row
<1>6. CASE Holders(items, List, req[t].patch.name) # {}
  <2>1. Goes(t, "select") /\ snap' = [snap EXCEPT ![t] = {}] /\ UNCHANGED written
    BY <1>6 DEF Insert
  <2>2. /\ pc' \in [Txn -> Statements] /\ pc'[t] = "select"
        /\ \A u \in Txn \ {t} : pc'[u] = pc[u]
    BY <2>1, GoesTypes DEF Statements
  <2>3. DOMAIN snap' = Txn /\ snap'[t] = {} /\ \A u \in Txn \ {t} : snap'[u] = snap[u]
    BY <2>1 DEF TypeOK
  <2>4. TypeOK'
    BY <1>2, <2>1, <2>2, <2>3 DEF TypeOK
  <2>5. \A u \in Txn \ {t} : SameLocals(u)
    BY <1>2, <2>1, <2>2, <2>3 DEF SameLocals
  <2>6. \A u \in Txn \ {t} : Keeps(u)
    BY <1>2, <2>5, QuietKeeps DEF OwnLocks
  <2> QED BY <1>1, <1>2, <1>6, <2>1, <2>2, <2>3, <2>4, <2>6 DEF reads
<1> QED BY <1>5, <1>6

LEMMA SelectHolderEffect ==
  ASSUME IInv, NEW t \in Txn, SelectHolder(t)
  PROVE  /\ TypeOK' /\ \A u \in Txn \ {t} : Keeps(u)
         /\ pc[t] = "select" /\ UNCHANGED items
         /\ \/ Rollback(t, "not_found")
            \/ /\ \E i \in Holders(items, List, req[t].patch.name) : todo'[t] = <<i>>
               /\ pc'[t] = "revive" /\ UNCHANGED <<owner, req, born, seen, written, snap>>
<1> USE DEF IInv
<1>1. pc[t] = "select"
  BY AtIs DEF SelectHolder
<1>2. CASE Rollback(t, "not_found")
  BY <1>1, <1>2, RollbackKeeps DEF Rollback
<1>3. CASE ~Rollback(t, "not_found")
  <2>1. /\ UNCHANGED <<items, owner, req, born, seen, written, snap>> /\ Goes(t, "revive")
        /\ \E i \in Holders(items, List, req[t].patch.name) : todo' = [todo EXCEPT ![t] = <<i>>]
    BY <1>3 DEF SelectHolder
  <2>2. PICK i \in Holders(items, List, req[t].patch.name) : todo' = [todo EXCEPT ![t] = <<i>>]
    BY <2>1
  <2>3. i \in ItemId
    BY DEF Holders, ItemsOf, TypeOK, IsTable
  <2>4. <<i>> \in Seq(ItemId)
    BY <2>3
  <2>5. /\ todo' \in [Txn -> Seq(ItemId)] /\ todo'[t] = <<i>>
        /\ \A u \in Txn \ {t} : todo'[u] = todo[u]
    BY <2>2, <2>4 DEF TypeOK
  <2>6. /\ pc' \in [Txn -> Statements] /\ pc'[t] = "revive"
        /\ \A u \in Txn \ {t} : pc'[u] = pc[u]
    BY <2>1, GoesTypes DEF Statements
  <2>7. TypeOK'
    BY <2>1, <2>5, <2>6 DEF TypeOK
  <2>8. \A u \in Txn \ {t} : SameLocals(u)
    BY <2>1, <2>5, <2>6 DEF SameLocals
  <2>9. \A u \in Txn \ {t} : Keeps(u)
    BY <2>1, <2>8, QuietKeeps DEF OwnLocks
  <2> QED BY <1>1, <2>1, <2>5, <2>6, <2>7, <2>9
<1> QED BY <1>2, <1>3

LEMMA ReviveEffect ==
  ASSUME IInv, NEW t \in Txn, Revive(t)
  PROVE  /\ TypeOK' /\ \A u \in Txn \ {t} : Keeps(u)
         /\ pc[t] = "revive" /\ UNCHANGED items
         /\ \/ Rollback(t, "not_found")
            \/ LET i == Head(todo[t]) IN
               /\ i \in Holders(items, List, req[t].patch.name) /\ i \in DOMAIN items
               /\ owner[i] \in {Nil, t}
               /\ \A j \in ItemId : owner'[j] = IF j = i THEN t ELSE owner[j]
               /\ pc'[t] = "commit" /\ UNCHANGED <<req, born, reads, snap>>
               /\ \/ /\ items[i].checked \/ items[i].note
                     /\ DOMAIN written'[t] = DOMAIN written[t] \cup {i}
                     /\ written'[t][i] = Revived(items[i])
                  \/ ~items[i].checked /\ ~items[i].note /\ UNCHANGED written
<1> USE DEF IInv
<1> DEFINE i == Head(todo[t])
<1>1. pc[t] = "revive" /\ owner[Wanted(t)] \in {Nil, t}
  BY FreeRow DEF Revive
<1>2. CASE Rollback(t, "not_found")
  BY <1>1, <1>2, RollbackKeeps DEF Rollback
<1>3. CASE ~Rollback(t, "not_found")
  <2>1. i \in Holders(items, List, req[t].patch.name)
    BY <1>3 DEF Revive
  <2>2. /\ Lock(t, i) /\ Goes(t, "commit") /\ UNCHANGED <<items, req, born, reads, snap>>
        /\ IF items[i].checked \/ items[i].note
           THEN Writes(t, i, Revived(items[i])) ELSE UNCHANGED written
    BY <1>3, <2>1 DEF Revive
  <2>3. i \in DOMAIN items /\ i \in ItemId /\ items[i] \in Row
    BY <2>1, TableFacts DEF Holders, ItemsOf, TypeOK
  <2>4. owner[i] \in {Nil, t}
    BY <1>1 DEF LocalInv, StageOK, Wanted
  <2> HIDE DEF i
  <2>5. /\ owner' \in [ItemId -> Txn \cup {Nil}] /\ OwnLocks(t)
        /\ \A j \in ItemId : owner'[j] = IF j = i THEN t ELSE owner[j]
    BY <2>2, <2>3, <2>4, LockTypes
  <2>6. /\ pc' \in [Txn -> Statements] /\ pc'[t] = "commit"
        /\ \A u \in Txn \ {t} : pc'[u] = pc[u]
    BY <2>2, GoesTypes DEF Statements
  <2>7. /\ DOMAIN written' = Txn /\ IsTable(written'[t], ItemId, Row)
        /\ \A u \in Txn \ {t} : written'[u] = written[u]
        /\ \/ /\ items[i].checked \/ items[i].note
              /\ DOMAIN written'[t] = DOMAIN written[t] \cup {i}
              /\ written'[t][i] = Revived(items[i])
           \/ ~items[i].checked /\ ~items[i].note /\ UNCHANGED written
    <3>1. CASE items[i].checked \/ items[i].note
      <4>1. Writes(t, i, Revived(items[i])) /\ Revived(items[i]) \in Row
        BY <2>2, <2>3, <3>1, RevivedRowType
      <4> QED BY <2>3, <3>1, <4>1, WritesTypes
    <3>2. CASE ~items[i].checked /\ ~items[i].note
      BY <2>2, <3>2 DEF TypeOK
    <3> QED BY <3>1, <3>2
  <2>8. UNCHANGED <<todo, seen>>
    BY <2>2 DEF reads
  <2>9. TypeOK'
    BY <2>2, <2>5, <2>6, <2>7, <2>8 DEF TypeOK
  <2>10. \A u \in Txn \ {t} : SameLocals(u)
    BY <2>2, <2>6, <2>7, <2>8 DEF SameLocals
  <2>11. \A u \in Txn \ {t} : Keeps(u)
    BY <2>2, <2>5, <2>10, QuietKeeps
  <2> QED BY <1>1, <2>1, <2>2, <2>3, <2>4, <2>5, <2>6, <2>7, <2>9, <2>11 DEF i
<1> QED BY <1>2, <1>3

LEMMA SeesTypes ==
  ASSUME TypeOK, NEW t \in Txn, NEW i \in DOMAIN items,
         seen' = [seen EXCEPT ![t] = With(@, i, items[i])]
  PROVE  /\ DOMAIN seen' = Txn /\ IsTable(seen'[t], ItemId, Row)
         /\ DOMAIN seen'[t] = DOMAIN seen[t] \cup {i}
         /\ seen'[t][i] = items[i]
         /\ \A j \in DOMAIN seen[t] \ {i} : seen'[t][j] = seen[t][j]
         /\ \A u \in Txn \ {t} : seen'[u] = seen[u]
<1>1. IsTable(seen[t], ItemId, Row) /\ DOMAIN seen = Txn
  BY DEF TypeOK
<1>2. seen'[t] = With(seen[t], i, items[i]) /\ DOMAIN seen' = Txn
      /\ \A u \in Txn \ {t} : seen'[u] = seen[u]
  BY <1>1
<1>3. i \in ItemId /\ items[i] \in Row
  BY TableFacts DEF TypeOK
<1> DEFINE w == seen[t]  row == items[i]
<1>4. /\ IsTable(With(w, i, row), ItemId, Row)
      /\ DOMAIN With(w, i, row) = DOMAIN w \cup {i}
      /\ With(w, i, row)[i] = row
      /\ \A j \in DOMAIN w \ {i} : With(w, i, row)[j] = w[j]
  <2>1. IsTable(w, ItemId, Row) /\ row \in Row
    BY <1>1, <1>3
  <2> HIDE DEF w, row
  <2> QED BY <1>3, <2>1, WithTable
<1> QED BY <1>2, <1>4

LEMMA ReadEffect ==
  ASSUME IInv, NEW t \in Txn, Read(t)
  PROVE  /\ TypeOK' /\ \A u \in Txn \ {t} : Keeps(u)
         /\ pc[t] = "read" /\ UNCHANGED items
         /\ \/ Rollback(t, "not_found")
            \/ LET i == req[t].item IN
               /\ i \in DOMAIN items /\ owner[i] \in {Nil, t}
               /\ \A j \in ItemId : owner'[j] = IF j = i THEN t ELSE owner[j]
               /\ DOMAIN seen'[t] = DOMAIN seen[t] \cup {i} /\ seen'[t][i] = items[i]
               /\ UNCHANGED <<req, born, written, snap>>
               /\ \/ target(t) = Nil /\ pc'[t] = "write" /\ todo'[t] = todo[t]
                  \/ target(t) # Nil /\ pc'[t] = "place" /\ todo'[t] = Neighbours(t)
<1> USE DEF IInv
<1> DEFINE i == req[t].item
<1>1. pc[t] = "read" /\ owner[Wanted(t)] \in {Nil, t}
  BY FreeRow DEF Read
<1>2. CASE Rollback(t, "not_found")
  BY <1>1, <1>2, RollbackKeeps DEF Rollback
<1>3. CASE ~Rollback(t, "not_found")
  <2>1. /\ i \in DOMAIN items /\ Lock(t, i) /\ UNCHANGED <<items, req, born, written, snap>>
        /\ seen' = [seen EXCEPT ![t] = With(@, i, items[i])]
    BY <1>3 DEF Read
  <2>2. \/ target(t) = Nil /\ Goes(t, "write") /\ UNCHANGED todo
        \/ /\ target(t) # Nil /\ Goes(t, "place")
           /\ todo' = [todo EXCEPT ![t] = Neighbours(t)]
    BY <1>3 DEF Read
  <2>3. StageOK(t)
    BY DEF LocalInv
  <2>4. req[t] \in Requests /\ req[t].op = "update" /\ todo[t] = <<>>
    BY <1>1, <2>3 DEF StageOK, Updates
  <2>5. owner[i] \in {Nil, t}
    BY <1>1, <2>4 DEF Wanted
  <2>6. i \in ItemId /\ (target(t) # Nil => target(t) \in Targets(ItemId))
    BY <2>4, RequestFacts
  <2>7. target(t) # Nil => Neighbours(t) \in Seq(ItemId)
    BY <2>6, NeighboursNamed
  <2> HIDE DEF i
  <2>8. /\ owner' \in [ItemId -> Txn \cup {Nil}] /\ OwnLocks(t)
        /\ \A j \in ItemId : owner'[j] = IF j = i THEN t ELSE owner[j]
    BY <2>1, <2>5, <2>6, LockTypes
  <2>9. /\ DOMAIN seen' = Txn /\ IsTable(seen'[t], ItemId, Row)
        /\ DOMAIN seen'[t] = DOMAIN seen[t] \cup {i} /\ seen'[t][i] = items[i]
        /\ \A u \in Txn \ {t} : seen'[u] = seen[u]
    BY <2>1, SeesTypes
  <2>10. /\ pc' \in [Txn -> Statements] /\ \A u \in Txn \ {t} : pc'[u] = pc[u]
         /\ todo' \in [Txn -> Seq(ItemId)] /\ \A u \in Txn \ {t} : todo'[u] = todo[u]
         /\ \/ target(t) = Nil /\ pc'[t] = "write" /\ todo'[t] = todo[t]
            \/ target(t) # Nil /\ pc'[t] = "place" /\ todo'[t] = Neighbours(t)
    <3>1. "write" \in Statements /\ "place" \in Statements
      BY DEF Statements
    <3>2. CASE target(t) = Nil
      BY <2>2, <3>1, <3>2, GoesTypes DEF TypeOK
    <3>3. CASE target(t) # Nil
      <4>1. Goes(t, "place") /\ todo' = [todo EXCEPT ![t] = Neighbours(t)]
        BY <2>2, <3>3
      <4>2. /\ pc' \in [Txn -> Statements] /\ pc'[t] = "place"
            /\ \A u \in Txn \ {t} : pc'[u] = pc[u]
        BY <3>1, <4>1, GoesTypes
      <4>3. /\ todo' \in [Txn -> Seq(ItemId)] /\ todo'[t] = Neighbours(t)
            /\ \A u \in Txn \ {t} : todo'[u] = todo[u]
        BY <2>7, <3>3, <4>1 DEF TypeOK
      <4> QED BY <3>3, <4>2, <4>3
    <3> QED BY <3>2, <3>3
  <2>11. TypeOK'
    BY <2>1, <2>8, <2>9, <2>10 DEF TypeOK
  <2>12. \A u \in Txn \ {t} : SameLocals(u)
    BY <2>1, <2>9, <2>10 DEF SameLocals
  <2>13. \A u \in Txn \ {t} : Keeps(u)
    BY <2>1, <2>8, <2>12, QuietKeeps
  <2> QED BY <1>1, <2>1, <2>5, <2>8, <2>9, <2>10, <2>11, <2>13 DEF i
<1> QED BY <1>2, <1>3

LEMMA NeighbourEffect ==
  ASSUME IInv, NEW t \in Txn, Neighbour(t)
  PROVE  /\ TypeOK' /\ \A u \in Txn \ {t} : Keeps(u)
         /\ pc[t] = "place" /\ UNCHANGED items
         /\ \/ Rollback(t, "not_found")
            \/ LET i == Head(todo[t]) IN
               /\ i \in DOMAIN items /\ owner[i] \in {Nil, t}
               /\ \A j \in ItemId : owner'[j] = IF j = i THEN t ELSE owner[j]
               /\ DOMAIN seen'[t] = DOMAIN seen[t] \cup {i} /\ seen'[t][i] = items[i]
               /\ \A j \in DOMAIN seen[t] \ {i} : seen'[t][j] = seen[t][j]
               /\ UNCHANGED <<req, born, written, snap>>
               /\ todo'[t] = Tail(todo[t])
               /\ pc'[t] = IF Tail(todo[t]) = <<>> THEN "write" ELSE "place"
<1> USE DEF IInv
<1> DEFINE i == Head(todo[t])
<1>1. pc[t] = "place" /\ owner[Wanted(t)] \in {Nil, t}
  BY FreeRow DEF Neighbour
<1>2. CASE Rollback(t, "not_found")
  BY <1>1, <1>2, RollbackKeeps DEF Rollback
<1>3. CASE ~Rollback(t, "not_found")
  <2>1. /\ i \in DOMAIN items /\ Lock(t, i) /\ UNCHANGED <<items, req, born, written, snap>>
        /\ seen' = [seen EXCEPT ![t] = With(@, i, items[i])]
        /\ todo' = [todo EXCEPT ![t] = Tail(@)]
        /\ IF Tail(todo[t]) = <<>> THEN Goes(t, "write") ELSE UNCHANGED pc
    BY <1>3 DEF Neighbour, LockNeighbour
  <2>2. todo[t] # <<>>
    BY <1>1 DEF LocalInv, StageOK
  <2>3. owner[i] \in {Nil, t}
    BY <1>1, <2>2 DEF Wanted
  <2>4. Tail(todo[t]) \in Seq(ItemId) /\ i \in ItemId
    BY <2>2, SeqFacts DEF TypeOK
  <2> HIDE DEF i
  <2>5. /\ owner' \in [ItemId -> Txn \cup {Nil}] /\ OwnLocks(t)
        /\ \A j \in ItemId : owner'[j] = IF j = i THEN t ELSE owner[j]
    BY <2>1, <2>3, <2>4, LockTypes
  <2>6. /\ DOMAIN seen' = Txn /\ IsTable(seen'[t], ItemId, Row)
        /\ DOMAIN seen'[t] = DOMAIN seen[t] \cup {i} /\ seen'[t][i] = items[i]
        /\ \A j \in DOMAIN seen[t] \ {i} : seen'[t][j] = seen[t][j]
        /\ \A u \in Txn \ {t} : seen'[u] = seen[u]
    BY <2>1, SeesTypes
  <2>7. /\ todo' \in [Txn -> Seq(ItemId)] /\ todo'[t] = Tail(todo[t])
        /\ \A u \in Txn \ {t} : todo'[u] = todo[u]
    BY <2>1, <2>4 DEF TypeOK
  <2>8. /\ pc' \in [Txn -> Statements] /\ \A u \in Txn \ {t} : pc'[u] = pc[u]
        /\ pc'[t] = IF Tail(todo[t]) = <<>> THEN "write" ELSE "place"
    <3>1. "write" \in Statements
      BY DEF Statements
    <3>2. CASE Tail(todo[t]) = <<>>
      BY <2>1, <3>1, <3>2, GoesTypes
    <3>3. CASE Tail(todo[t]) # <<>>
      BY <1>1, <2>1, <3>3 DEF TypeOK
    <3> QED BY <3>2, <3>3
  <2>9. TypeOK'
    BY <2>1, <2>5, <2>6, <2>7, <2>8 DEF TypeOK
  <2>10. \A u \in Txn \ {t} : SameLocals(u)
    BY <2>1, <2>6, <2>7, <2>8 DEF SameLocals
  <2>11. \A u \in Txn \ {t} : Keeps(u)
    BY <2>1, <2>5, <2>10, QuietKeeps
  <2> QED BY <1>1, <2>1, <2>3, <2>5, <2>6, <2>7, <2>8, <2>9, <2>11 DEF i
<1> QED BY <1>2, <1>3

LEMMA RenormalizesEffect ==
  ASSUME IInv, NEW t \in Txn, Renormalizes(t)
  PROVE  /\ TypeOK' /\ \A u \in Txn \ {t} : Keeps(u)
         /\ pc[t] = "write" /\ Placed(t).err = "exhausted"
         /\ UNCHANGED <<items, owner, req, born, seen>>
         /\ pc'[t] = "renumber" /\ snap'[t] = {items}
         /\ LET mine == {i \in DOMAIN items : owner[i] = t} IN
            /\ DOMAIN written'[t] = mine
            /\ \A i \in mine : written'[t][i] = [items[i] EXCEPT !.pos = Renormalize(items, List)[i].pos]
            /\ Range(todo'[t]) = DOMAIN items \ mine
<1> USE DEF IInv
<1> DEFINE mine == {i \in DOMAIN items : owner[i] = t}
           rows == [i \in mine |-> Renumbered(items, i)]
<1>1. pc[t] = "write" /\ Placed(t).err = "exhausted"
  BY AtIs DEF Renormalizes
<1>2. PICK order \in SetToSeqs(DOMAIN items \ mine) : todo' = [todo EXCEPT ![t] = order]
  BY DEF Renormalizes
<1>3. /\ snap' = [snap EXCEPT ![t] = {items}] /\ Goes(t, "renumber")
      /\ written' = [written EXCEPT ![t] = rows]
      /\ UNCHANGED <<items, owner, req, born, seen>>
  BY DEF Renormalizes
<1>4. IsTable(items, ItemId, Row) /\ IsFiniteSet(DOMAIN items) /\ DOMAIN items \subseteq ItemId
      /\ \A i \in DOMAIN items : items[i] \in Row
  BY TableFacts DEF TypeOK
<1>5. order \in Seq(DOMAIN items \ mine) /\ Range(order) = DOMAIN items \ mine
  BY <1>4, FS_Difference, OrderFacts
<1>6. order \in Seq(ItemId)
  BY <1>4, <1>5
<1>7. /\ todo' \in [Txn -> Seq(ItemId)] /\ todo'[t] = order
      /\ \A u \in Txn \ {t} : todo'[u] = todo[u]
  BY <1>2, <1>6 DEF TypeOK
<1>8. /\ pc' \in [Txn -> Statements] /\ pc'[t] = "renumber"
      /\ \A u \in Txn \ {t} : pc'[u] = pc[u]
  BY <1>3, GoesTypes DEF Statements
<1>9. /\ DOMAIN snap' = Txn /\ snap'[t] = {items} /\ \A u \in Txn \ {t} : snap'[u] = snap[u]
  BY <1>3 DEF TypeOK
<1>10. \A i \in mine : Renumbered(items, i) \in Row
  <2>1. \A i \in mine : items[i] \in Row /\ Renormalize(items, List)[i].pos \in Int
    BY <1>4, RenumberedRow
  <2> QED BY <2>1 DEF Renumbered, Row
<1>11. IsTable(rows, ItemId, Row) /\ DOMAIN rows = mine
  BY <1>4, <1>10 DEF IsTable
<1> HIDE DEF rows
<1>12. /\ DOMAIN written' = Txn /\ written'[t] = rows
       /\ \A u \in Txn \ {t} : written'[u] = written[u]
  BY <1>3 DEF TypeOK
<1>13. TypeOK'
  BY <1>3, <1>7, <1>8, <1>9, <1>11, <1>12, <1>4 DEF TypeOK
<1>14. \A u \in Txn \ {t} : SameLocals(u)
  BY <1>3, <1>7, <1>8, <1>9, <1>12 DEF SameLocals
<1>15. \A u \in Txn \ {t} : Keeps(u)
  BY <1>3, <1>14, QuietKeeps DEF OwnLocks
<1>16. \A i \in mine : written'[t][i] = [items[i] EXCEPT !.pos = Renormalize(items, List)[i].pos]
  BY <1>12 DEF rows, Renumbered
<1> QED BY <1>1, <1>3, <1>5, <1>7, <1>8, <1>9, <1>11, <1>12, <1>13, <1>15, <1>16

LEMMA RenormalizeRowEffect ==
  ASSUME IInv, NEW t \in Txn, RenormalizeRow(t)
  PROVE  /\ TypeOK' /\ \A u \in Txn \ {t} : Keeps(u)
         /\ pc[t] = "renumber" /\ todo[t] # <<>> /\ todo'[t] = Tail(todo[t])
         /\ UNCHANGED <<items, req, pc, born, seen, snap>>
         /\ LET i == Head(todo[t]) IN
            \/ i \notin DOMAIN items /\ UNCHANGED <<owner, written>>
            \/ /\ i \in DOMAIN items /\ owner[i] \in {Nil, t}
               /\ \A j \in ItemId : owner'[j] = IF j = i THEN t ELSE owner[j]
               /\ DOMAIN written'[t] = DOMAIN written[t] \cup {i}
               /\ \E T \in snap[t] :
                    /\ i \in DOMAIN T
                    /\ written'[t][i] = [items[i] EXCEPT !.pos = Renormalize(T, List)[i].pos]
               /\ \A j \in DOMAIN written[t] \ {i} : written'[t][j] = written[t][j]
<1> USE DEF IInv
<1> DEFINE i == Head(todo[t])
<1>1. pc[t] = "renumber" /\ todo[t] # <<>> /\ owner[i] \in {Nil, t}
  BY FreeNextRow DEF RenormalizeRow
<1>2. /\ todo' = [todo EXCEPT ![t] = Tail(@)] /\ UNCHANGED <<items, req, pc, born, seen, snap>>
      /\ IF i \in DOMAIN items
         THEN Lock(t, i) /\ \E T \in snap[t] : Writes(t, i, Renumbered(T, i))
         ELSE UNCHANGED <<owner, written>>
  BY DEF RenormalizeRow
<1>3. Tail(todo[t]) \in Seq(ItemId) /\ i \in ItemId /\ i \in Range(todo[t])
  BY <1>1, SeqFacts DEF TypeOK
<1>4. TodoInSnap(t)
  BY DEF LocalInv
<1> HIDE DEF i
<1>5. /\ todo' \in [Txn -> Seq(ItemId)] /\ todo'[t] = Tail(todo[t])
      /\ \A u \in Txn \ {t} : todo'[u] = todo[u]
  BY <1>2, <1>3 DEF TypeOK
<1>6. CASE i \notin DOMAIN items
  <2>1. UNCHANGED <<owner, written>>
    BY <1>2, <1>6
  <2>2. TypeOK'
    BY <1>2, <1>5, <2>1 DEF TypeOK
  <2>3. \A u \in Txn \ {t} : SameLocals(u)
    BY <1>2, <1>5, <2>1 DEF SameLocals
  <2>4. \A u \in Txn \ {t} : Keeps(u)
    BY <1>2, <2>1, <2>3, QuietKeeps DEF OwnLocks
  <2> QED BY <1>1, <1>2, <1>5, <1>6, <2>1, <2>2, <2>4 DEF i
<1>7. CASE i \in DOMAIN items
  <2>1. Lock(t, i)
    BY <1>2, <1>7
  <2>2. PICK T \in snap[t] : Writes(t, i, Renumbered(T, i))
    BY <1>2, <1>7
  <2>3. i \in DOMAIN T /\ IsTable(T, ItemId, Row)
    BY <1>1, <1>3, <1>4 DEF TodoInSnap, TypeOK
  <2>4. Renumbered(T, i) \in Row
    <3>1. items[i] \in Row /\ Renormalize(T, List)[i].pos \in Int
      BY <1>7, <2>3, RenumberedRow, TableFacts DEF TypeOK
    <3> QED BY <3>1 DEF Renumbered, Row
  <2>5. /\ DOMAIN written' = Txn /\ IsTable(written'[t], ItemId, Row)
        /\ DOMAIN written'[t] = DOMAIN written[t] \cup {i}
        /\ written'[t][i] = Renumbered(T, i)
        /\ \A j \in DOMAIN written[t] \ {i} : written'[t][j] = written[t][j]
        /\ \A u \in Txn \ {t} : written'[u] = written[u]
    BY <1>3, <2>2, <2>4, WritesTypes
  <2>6. /\ owner' \in [ItemId -> Txn \cup {Nil}] /\ OwnLocks(t)
        /\ \A j \in ItemId : owner'[j] = IF j = i THEN t ELSE owner[j]
    BY <1>1, <1>3, <2>1, LockTypes DEF i
  <2>7. TypeOK'
    BY <1>2, <1>5, <2>5, <2>6 DEF TypeOK
  <2>8. \A u \in Txn \ {t} : SameLocals(u)
    BY <1>2, <1>5, <2>5 DEF SameLocals
  <2>9. \A u \in Txn \ {t} : Keeps(u)
    BY <1>2, <2>6, <2>8, QuietKeeps
  <2> QED BY <1>1, <1>2, <1>5, <1>7, <2>3, <2>5, <2>6, <2>7, <2>9 DEF i, Renumbered
<1> QED BY <1>6, <1>7

LEMMA RereadEffect ==
  ASSUME IInv, NEW t \in Txn, Reread(t)
  PROVE  /\ TypeOK' /\ \A u \in Txn \ {t} : Keeps(u)
         /\ pc[t] = "renumber" /\ todo[t] = <<>> /\ pc'[t] = "again"
         /\ UNCHANGED <<items, owner, req, born, todo, written, snap>>
         /\ DOMAIN seen'[t] = DOMAIN seen[t]
         /\ \A i \in DOMAIN seen[t] : i \in DOMAIN written[t] /\ seen'[t][i] = written[t][i]
<1> USE DEF IInv
<1> DEFINE table == Over(written[t], items)
           rows == [i \in DOMAIN seen[t] \cap DOMAIN table |-> table[i]]
<1>1. /\ pc[t] = "renumber" /\ todo[t] = <<>> /\ Goes(t, "again")
      /\ seen' = [seen EXCEPT ![t] = rows]
      /\ UNCHANGED <<items, owner, req, born, todo, written, snap>>
  BY AtIs DEF Reread
<1>2. StageOK(t) /\ ReadIsHeld(t)
  BY DEF LocalInv
<1>3. Updating(t) /\ snap[t] # {}
  BY <1>1, <1>2 DEF StageOK, Updating, Updates
<1>4. \A i \in DOMAIN seen[t] : i \in DOMAIN written[t]
  BY <1>1, <1>2, <1>3 DEF ReadIsHeld
<1>5. IsTable(written[t], ItemId, Row) /\ IsTable(items, ItemId, Row)
  BY DEF TypeOK
<1>6. /\ IsTable(table, ItemId, Row)
      /\ \A i \in DOMAIN written[t] : i \in DOMAIN table /\ table[i] = written[t][i]
  <2> DEFINE w == written[t]
  <2>1. IsTable(w, ItemId, Row)
    BY <1>5
  <2>2. table = Over(w, items)
    OBVIOUS
  <2> HIDE DEF w, table
  <2>3. /\ IsTable(table, ItemId, Row)
        /\ \A i \in DOMAIN w : i \in DOMAIN table /\ table[i] = w[i]
    BY <1>5, <2>1, <2>2, OverTable
  <2> QED BY <2>3 DEF w
<1>7. /\ IsTable(rows, ItemId, Row) /\ DOMAIN rows = DOMAIN seen[t]
      /\ \A i \in DOMAIN seen[t] : rows[i] = written[t][i]
  <2> HIDE DEF table
  <2> QED BY <1>4, <1>6 DEF IsTable
<1> HIDE DEF rows
<1>8. DOMAIN seen' = Txn /\ seen'[t] = rows /\ \A u \in Txn \ {t} : seen'[u] = seen[u]
  BY <1>1 DEF TypeOK
<1>9. /\ pc' \in [Txn -> Statements] /\ pc'[t] = "again"
      /\ \A u \in Txn \ {t} : pc'[u] = pc[u]
  BY <1>1, GoesTypes DEF Statements
<1>10. TypeOK'
  BY <1>1, <1>7, <1>8, <1>9 DEF TypeOK
<1>11. \A u \in Txn \ {t} : SameLocals(u)
  BY <1>1, <1>8, <1>9 DEF SameLocals
<1>12. \A u \in Txn \ {t} : Keeps(u)
  BY <1>1, <1>11, QuietKeeps DEF OwnLocks
<1> QED BY <1>1, <1>4, <1>7, <1>8, <1>9, <1>10, <1>12

\* The position that an update computes is one.
LEMMA PlacedType ==
  ASSUME TypeOK, NEW t \in Txn, LocalInv(t), Updating(t), pc[t] # "read"
  PROVE  Placed(t).pos \in Int
<1>1. req[t].item \in DOMAIN seen[t] /\ IsTable(seen[t], ItemId, Row)
  BY DEF LocalInv, ReadIsHeld, TypeOK
<1>2. seen[t][req[t].item].pos \in Int
  BY <1>1, TableFacts DEF Row
<1>3. TryComputePosition(seen[t], List, req[t].item, target(t)).pos \in Int
  BY <1>1, TryType
<1> QED BY <1>2, <1>3 DEF Placed

LEMMA WriteEffect ==
  ASSUME IInv, NEW t \in Txn, Write(t)
  PROVE  /\ TypeOK' /\ \A u \in Txn \ {t} : Keeps(u)
         /\ pc[t] = "again" \/ (pc[t] = "write" /\ Placed(t).err # "exhausted")
         /\ UNCHANGED items
         /\ \/ \E a : Rollback(t, a)
            \/ LET i == req[t].item IN
               /\ Placed(t).err = "none"
               /\ pc'[t] = IF req[t].patch.name = Nil THEN "commit" ELSE "index"
               /\ UNCHANGED <<owner, req, born, reads, snap>>
               /\ DOMAIN written'[t] = DOMAIN written[t] \cup {i}
               /\ written'[t][i] = PatchedRow(seen[t][i], req[t].patch, Placed(t).pos)
               /\ \A j \in DOMAIN written[t] \ {i} : written'[t][j] = written[t][j]
<1> USE DEF IInv
<1> DEFINE i == req[t].item
           row == PatchedRow(seen[t][i], req[t].patch, Placed(t).pos)
           s == IF req[t].patch.name = Nil THEN "commit" ELSE "index"
<1>1. pc[t] = "again" \/ (pc[t] = "write" /\ Placed(t).err # "exhausted")
  BY AtIs DEF Write
<1>2. CASE Placed(t).err # "none"
  <2>1. PICK a : Rollback(t, a)
    BY <1>2 DEF Write
  <2>2. UNCHANGED items
    BY <2>1 DEF Rollback
  <2> QED BY <1>1, <2>1, <2>2, RollbackKeeps
<1>3. CASE Placed(t).err = "none"
  <2>1. Writes(t, i, row) /\ Goes(t, s) /\ UNCHANGED <<items, owner, req, born, reads, snap>>
    BY <1>3 DEF Write
  <2>2. StageOK(t) /\ ReadIsHeld(t)
    BY DEF LocalInv
  <2>3. Updating(t) /\ pc[t] # "read" /\ req[t] \in Requests
    BY <1>1, <2>2 DEF StageOK, Updating, Updates
  <2>4. i \in DOMAIN seen[t] /\ IsTable(seen[t], ItemId, Row)
    BY <2>2, <2>3 DEF ReadIsHeld, TypeOK
  <2>5. i \in ItemId /\ seen[t][i] \in Row
    BY <2>4, TableFacts
  <2>6. Placed(t).pos \in Int
    BY <2>3, PlacedType
  <2>7. row \in Row
    BY <2>3, <2>5, <2>6, RequestFacts, PatchedRowType
  <2>8. s \in Statements
    BY DEF Statements
  <2> HIDE DEF row, s
  <2>9. /\ DOMAIN written' = Txn /\ IsTable(written'[t], ItemId, Row)
        /\ DOMAIN written'[t] = DOMAIN written[t] \cup {i}
        /\ written'[t][i] = row
        /\ \A j \in DOMAIN written[t] \ {i} : written'[t][j] = written[t][j]
        /\ \A u \in Txn \ {t} : written'[u] = written[u]
    BY <2>1, <2>5, <2>7, WritesTypes
  <2>10. pc' \in [Txn -> Statements] /\ pc'[t] = s /\ \A u \in Txn \ {t} : pc'[u] = pc[u]
    BY <2>1, <2>8, GoesTypes
  <2>11. TypeOK'
    BY <2>1, <2>9, <2>10 DEF TypeOK, reads
  <2>12. \A u \in Txn \ {t} : SameLocals(u)
    BY <2>1, <2>9, <2>10 DEF SameLocals, reads
  <2>13. \A u \in Txn \ {t} : Keeps(u)
    BY <2>1, <2>12, QuietKeeps DEF OwnLocks
  <2> QED BY <1>1, <1>3, <2>1, <2>9, <2>10, <2>11, <2>13 DEF row, s
<1> QED BY <1>2, <1>3

LEMMA TakeNameEffect ==
  ASSUME IInv, NEW t \in Txn, TakeName(t)
  PROVE  /\ TypeOK' /\ \A u \in Txn \ {t} : Keeps(u)
         /\ pc[t] = "index" /\ NameWriters(t) = {} /\ UNCHANGED items
         /\ \/ Rollback(t, "conflict")
            \/ /\ Holders(items, List, req[t].patch.name) \ {req[t].item} = {}
               /\ pc'[t] = "commit" /\ UNCHANGED <<owner, req, born, reads, written, snap>>
<1> USE DEF IInv
<1>1. pc[t] = "index" /\ NameWriters(t) = {}
  BY FreeName DEF TakeName
<1>2. CASE Rollback(t, "conflict")
  BY <1>1, <1>2, RollbackKeeps DEF Rollback
<1>3. CASE ~Rollback(t, "conflict")
  <2>1. /\ Holders(items, List, req[t].patch.name) \ {req[t].item} = {}
        /\ Goes(t, "commit") /\ UNCHANGED <<items, owner, req, born, reads, written, snap>>
    BY <1>3 DEF TakeName
  <2>2. /\ pc' \in [Txn -> Statements] /\ pc'[t] = "commit"
        /\ \A u \in Txn \ {t} : pc'[u] = pc[u]
    BY <2>1, GoesTypes DEF Statements
  <2>3. TypeOK'
    BY <2>1, <2>2 DEF TypeOK, reads
  <2>4. \A u \in Txn \ {t} : SameLocals(u)
    BY <2>1, <2>2 DEF SameLocals, reads
  <2>5. \A u \in Txn \ {t} : Keeps(u)
    BY <2>1, <2>4, QuietKeeps DEF OwnLocks
  <2> QED BY <1>1, <2>1, <2>2, <2>3, <2>5
<1> QED BY <1>2, <1>3

\* What is about to be committed is held, or new.
LEMMA WrittenIsHeld ==
  ASSUME IInv, NEW t \in Txn, NEW i \in DOMAIN written[t]
  PROVE  owner[i] = t \/ (pc[t] = "commit" /\ req[t].op = "add" /\ i = t /\ i \notin DOMAIN items)
<1> USE DEF IInv
<1>1. StageOK(t) /\ OthersRenumbered(t) /\ AddIsReady(t)
  BY DEF LocalInv
<1>2. pc[t] \in {"renumber", "again", "index", "commit"}
  BY <1>1 DEF StageOK
<1>3. CASE Updating(t)
  BY <1>1, <1>3 DEF OthersRenumbered
<1>4. CASE ~Updating(t)
  <2>1. pc[t] = "commit" /\ req[t].op = "add"
    BY <1>1, <1>2, <1>4 DEF StageOK, Updating, Updates
  <2> QED BY <1>1, <2>1 DEF AddIsReady
<1> QED BY <1>3, <1>4

LEMMA CommitEffect ==
  ASSUME IInv, NEW t \in Txn, Commit(t)
  PROVE  /\ TypeOK' /\ \A u \in Txn \ {t} : Keeps(u)
         /\ pc[t] = "commit" /\ Finish(t, "none")
         /\ DOMAIN items' = DOMAIN written[t] \cup DOMAIN items
         /\ \A i \in DOMAIN written[t] : items'[i] = written[t][i]
         /\ \A i \in DOMAIN items \ DOMAIN written[t] : items'[i] = items[i]
<1> USE DEF IInv
<1>1. pc[t] = "commit" /\ Finish(t, "none") /\ items' = Over(written[t], items)
  BY AtIs DEF Commit
<1>2. IsTable(written[t], ItemId, Row) /\ IsTable(items, ItemId, Row)
  BY DEF TypeOK
<1>3. /\ IsTable(items', ItemId, Row)
      /\ DOMAIN items' = DOMAIN written[t] \cup DOMAIN items
      /\ \A i \in DOMAIN written[t] : items'[i] = written[t][i]
      /\ \A i \in DOMAIN items \ DOMAIN written[t] : items'[i] = items[i]
  <2> DEFINE w == written[t]
  <2>1. IsTable(w, ItemId, Row) /\ items' = Over(w, items)
    BY <1>1, <1>2
  <2> HIDE DEF w
  <2>2. /\ IsTable(Over(w, items), ItemId, Row)
        /\ DOMAIN Over(w, items) = DOMAIN w \cup DOMAIN items
        /\ \A i \in DOMAIN w : Over(w, items)[i] = w[i]
        /\ \A i \in DOMAIN items \ DOMAIN w : Over(w, items)[i] = items[i]
    BY <1>2, <2>1, OverTable
  <2>3. /\ IsTable(items', ItemId, Row)
        /\ DOMAIN items' = DOMAIN w \cup DOMAIN items
        /\ \A i \in DOMAIN w : items'[i] = w[i]
        /\ \A i \in DOMAIN items \ DOMAIN w : items'[i] = items[i]
    BY <2>1, <2>2
  <2> QED BY <2>3 DEF w
<1>4. TypeOK'
  BY <1>1, <1>3, FinishTypes
<1>5. OwnLocks(t) /\ \A u \in Txn \ {t} : SameLocals(u)
  BY <1>1, FinishOwnLocks
<1>6. ASSUME NEW u \in Txn \ {t} PROVE Keeps(u)
  <2>1. u # Nil /\ DOMAIN written[t] \subseteq ItemId
    BY <1>2, ItemTxnAssumption, RowAssumption DEF IsTable
  <2>2. \A i \in ItemId : owner'[i] = u <=> owner[i] = u
    BY <1>5, OwnLocksKeep
  <2>3. \A i \in ItemId : owner[i] = u => i \in DOMAIN items
    BY <2>1 DEF LockedIsThere
  <2>4. \A i \in DOMAIN written[t] : owner[i] = t \/ (i = t /\ i \notin DOMAIN items)
    BY WrittenIsHeld
  <2>5. \A i \in ItemId : owner[i] = u => i \in DOMAIN items' /\ items'[i] = items[i]
    BY <1>3, <2>3, <2>4
  <2>6. \A i \in DOMAIN items' \ DOMAIN items : i \in Txn /\ i # u /\ pc[i] # "done"
    <3>1. \A i \in DOMAIN written[t] : owner[i] = t => i \in DOMAIN items
      <4>1. t # Nil
        BY ItemTxnAssumption, RowAssumption
      <4> QED BY <2>1, <4>1 DEF LockedIsThere
    <3> QED BY <1>1, <1>3, <2>4, <3>1
  <2> QED BY <1>5, <2>2, <2>5, <2>6 DEF Keeps
<1> QED BY <1>1, <1>3, <1>4, <1>6

LEMMA DeleteEffect ==
  ASSUME IInv, NEW t \in Txn, Delete(t)
  PROVE  /\ TypeOK' /\ \A u \in Txn \ {t} : Keeps(u)
         /\ pc[t] = "delete"
         /\ \/ Rollback(t, "not_found")
            \/ /\ Finish(t, "none") /\ owner[req[t].item] \in {Nil, t}
               /\ DOMAIN items' = DOMAIN items \ {req[t].item}
               /\ \A i \in DOMAIN items' : items'[i] = items[i]
<1> USE DEF IInv
<1> DEFINE i == req[t].item
<1>1. pc[t] = "delete" /\ owner[Wanted(t)] \in {Nil, t}
  BY FreeRow DEF Delete
<1>2. CASE Rollback(t, "not_found")
  BY <1>1, <1>2, RollbackKeeps DEF Rollback
<1>3. CASE ~Rollback(t, "not_found")
  <2>1. items' = Without(items, {i}) /\ Finish(t, "none")
    BY <1>3 DEF Delete
  <2>2. owner[i] \in {Nil, t}
    BY <1>1 DEF LocalInv, StageOK, Wanted
  <2>3. /\ IsTable(items', ItemId, Row) /\ DOMAIN items' = DOMAIN items \ {i}
        /\ \A j \in DOMAIN items' : items'[j] = items[j]
    <3>1. IsTable(items, ItemId, Row)
      BY DEF TypeOK
    <3> DEFINE X == {i}
    <3> HIDE DEF X
    <3>2. /\ IsTable(Without(items, X), ItemId, Row)
          /\ DOMAIN Without(items, X) = DOMAIN items \ X
          /\ \A j \in DOMAIN items \ X : Without(items, X)[j] = items[j]
      BY <3>1, WithoutTable
    <3>3. items' = Without(items, X)
      BY <2>1 DEF X
    <3> QED BY <3>2, <3>3 DEF X
  <2>4. TypeOK'
    BY <2>1, <2>3, FinishTypes
  <2>5. OwnLocks(t) /\ \A u \in Txn \ {t} : SameLocals(u)
    BY <2>1, FinishOwnLocks
  <2>6. ASSUME NEW u \in Txn \ {t} PROVE Keeps(u)
    <3>1. u # Nil
      BY ItemTxnAssumption, RowAssumption
    <3>2. \A j \in ItemId : owner'[j] = u <=> owner[j] = u
      BY <2>5, OwnLocksKeep
    <3>3. \A j \in ItemId : owner[j] = u => j \in DOMAIN items' /\ items'[j] = items[j]
      BY <2>2, <2>3, <3>1 DEF LockedIsThere
    <3> QED BY <2>3, <2>5, <3>2, <3>3 DEF Keeps
  <2> QED BY <1>1, <2>1, <2>2, <2>3, <2>4, <2>6
<1> QED BY <1>2, <1>3

-----------------------------------------------------------------------------
\* A step that is none of u's

LEMMA SameReading ==
  ASSUME NEW u \in Txn, SameLocals(u)
  PROVE  /\ target(u)' = target(u) /\ Placed(u)' = Placed(u)
         /\ Updating(u)' = Updating(u)
BY DEF SameLocals, target, Placed, Updating

\* What an update has read or written it holds, so it is unchanged.
LEMMA OthersKeepLocals ==
  ASSUME IInv, TypeOK', NEW u \in Txn, Keeps(u)
  PROVE  LocalInv(u)'
<1> USE DEF IInv
<1>1. /\ SameLocals(u) /\ target(u)' = target(u) /\ Placed(u)' = Placed(u)
      /\ Updating(u)' = Updating(u)
  BY SameReading DEF Keeps
<1>2. \A i \in ItemId : owner[i] = u => owner'[i] = u /\ i \in DOMAIN items' /\ items'[i] = items[i]
  BY DEF Keeps
<1>3. /\ DOMAIN seen[u] \subseteq ItemId /\ DOMAIN written[u] \subseteq ItemId
      /\ DOMAIN items' \subseteq ItemId
      /\ \A T \in snap[u] : IsTable(T, ItemId, Row)
  BY DEF TypeOK, IsTable
<1>4. /\ StageOK(u) /\ ReadIsHeld(u) /\ NamedAreRead(u) /\ ReadsNamed(u)
      /\ PatchIsWritten(u) /\ OthersRenumbered(u) /\ AllRenumbered(u) /\ TodoInSnap(u)
      /\ WantOfRoom(u) /\ AddIsReady(u)
  BY DEF LocalInv
<1>5. StageOK(u)'
  BY <1>1, <1>4 DEF StageOK, SameLocals
<1>6. ReadIsHeld(u)'
  <2> SUFFICES ASSUME Updating(u), pc[u] # "read"  PROVE ReadIsHeld(u)'
    BY <1>1 DEF ReadIsHeld, SameLocals
  <2>1. \A i \in DOMAIN seen[u] : owner[i] = u /\ owner'[i] = u /\ items'[i] = items[i]
    BY <1>2, <1>3, <1>4 DEF ReadIsHeld
  <2>2. /\ req'[u] = req[u] /\ pc'[u] = pc[u] /\ seen'[u] = seen[u]
        /\ written'[u] = written[u] /\ snap'[u] = snap[u]
    BY <1>1 DEF SameLocals
  <2>3. ASSUME NEW i \in DOMAIN seen[u]
        PROVE  /\ seen[u][i] = [items'[i] EXCEPT !.pos = seen[u][i].pos]
               /\ snap[u] # {} => i \in DOMAIN written[u]
               /\ pc[u] \in {"place", "write", "renumber"} \/ snap[u] = {} =>
                    seen[u][i] = items'[i]
               /\ pc[u] \in {"again", "index", "commit"} /\ snap[u] # {} =>
                    \A T \in snap[u] :
                      i \in DOMAIN T /\ seen[u][i].pos = Renormalize(T, List)[i].pos
    <3>1. items'[i] = items[i]
      BY <2>1
    <3> HIDE DEF IInv
    <3> QED BY <1>4, <3>1 DEF ReadIsHeld
  <2>4. req[u].item \in DOMAIN seen[u]
    BY <1>4 DEF ReadIsHeld
  <2> QED BY <2>1, <2>2, <2>3, <2>4 DEF ReadIsHeld
<1>7. NamedAreRead(u)' /\ ReadsNamed(u)'
  BY <1>1, <1>4 DEF NamedAreRead, ReadsNamed, SameLocals
<1>8. PatchIsWritten(u)'
  BY <1>1, <1>4 DEF PatchIsWritten, SameLocals
<1>9. OthersRenumbered(u)'
  <2> SUFFICES ASSUME Updating(u)  PROVE OthersRenumbered(u)'
    BY <1>1 DEF OthersRenumbered
  <2>1. \A i \in DOMAIN written[u] : owner[i] = u /\ owner'[i] = u /\ items'[i] = items[i]
    BY <1>2, <1>3, <1>4 DEF OthersRenumbered
  <2> QED BY <1>1, <1>4, <2>1, SMTT(60) DEF OthersRenumbered, SameLocals
<1>10. AllRenumbered(u)'
  <2>1. \A T \in snap[u] : DOMAIN T \cap DOMAIN items' \subseteq DOMAIN items
    BY DEF Keeps, NewIsNew
  <2> QED BY <1>1, <1>4, <2>1 DEF AllRenumbered, SameLocals
<1>11. TodoInSnap(u)'
  BY <1>1, <1>4 DEF TodoInSnap, SameLocals
<1>12. WantOfRoom(u)'
  <2> SUFFICES ASSUME Updating(u), snap[u] # {}
               PROVE  /\ target(u) # Nil
                      /\ TryComputePosition(items', List, req[u].item, target(u)).err = "exhausted"
    BY <1>1 DEF WantOfRoom, SameLocals
  <2>1. /\ target(u) # Nil
        /\ TryComputePosition(items, List, req[u].item, target(u)).err = "exhausted"
    BY <1>4 DEF WantOfRoom
  <2>2. pc[u] \notin {"read", "place"}
    BY <1>4 DEF StageOK
  <2>3. \A i \in Named(req[u].item, target(u)) : i \in DOMAIN seen[u] /\ owner[i] = u
    BY <1>4, <2>1, <2>2 DEF NamedAreRead, ReadIsHeld
  <2>4. \A i \in Named(req[u].item, target(u)) :
          i \in DOMAIN items /\ i \in DOMAIN items' /\ items[i].pos = items'[i].pos
    <3>1. u # Nil
      BY ItemTxnAssumption, RowAssumption
    <3> QED BY <1>2, <1>3, <2>3, <3>1 DEF LockedIsThere
  <2>5. IsTable(items, ItemId, Row) /\ IsTable(items', ItemId, Row)
    BY DEF TypeOK
  <2>6. TryComputePosition(items, List, req[u].item, target(u))
          = TryComputePosition(items', List, req[u].item, target(u))
    BY <2>4, <2>5, TrySame
  <2> QED BY <2>1, <2>6
<1>13. AddIsReady(u)'
  <2> SUFFICES ASSUME pc[u] = "commit", req[u].op = "add"
               PROVE  AddIsReady(u)'
    BY <1>1 DEF AddIsReady, SameLocals
  <2>1. CASE todo[u] = <<>>
    <3>1. u \notin DOMAIN items'
      BY <1>4, <2>1 DEF AddIsReady, Keeps
    <3> QED BY <1>1, <1>4, <2>1, <3>1 DEF AddIsReady, SameLocals
  <2>2. CASE todo[u] # <<>>
    <3>1. Head(todo[u]) \in ItemId
      BY <2>2, SeqFacts DEF TypeOK
    <3> QED BY <1>1, <1>2, <1>4, <2>2, <3>1 DEF AddIsReady, SameLocals
  <2> QED BY <2>1, <2>2
<1> QED BY <1>5, <1>6, <1>7, <1>8, <1>9, <1>10, <1>11, <1>12, <1>13 DEF LocalInv

-----------------------------------------------------------------------------
\* A transaction's own steps

LEMMA FinishLocal ==
  ASSUME IInv, NEW t \in Txn, NEW a, Finish(t, a), pc[t] # "idle"
  PROVE  LocalInv(t)'
<1>1. /\ pc'[t] = "done" /\ req' = req /\ todo'[t] = <<>>
      /\ DOMAIN seen'[t] = {} /\ DOMAIN written'[t] = {} /\ snap'[t] = {}
  BY FinishTypes, EmptyTable DEF IInv
<1>2. req[t] \in Requests
  BY DEF IInv, LocalInv, StageOK
<1>3. ~Updating(t)'
  BY <1>1 DEF Updating, Updates
<1>4. StageOK(t)'
  BY <1>1, <1>2 DEF StageOK, Adds, Updates
<1>5. /\ ReadIsHeld(t)' /\ NamedAreRead(t)' /\ PatchIsWritten(t)' /\ OthersRenumbered(t)'
      /\ AllRenumbered(t)' /\ WantOfRoom(t)'
  BY <1>3 DEF ReadIsHeld, NamedAreRead, PatchIsWritten, OthersRenumbered, AllRenumbered, WantOfRoom
<1>6. ReadsNamed(t)' /\ TodoInSnap(t)' /\ AddIsReady(t)'
  BY <1>1 DEF ReadsNamed, TodoInSnap, AddIsReady
<1> QED BY <1>4, <1>5, <1>6 DEF LocalInv

LEMMA BeginLocal ==
  ASSUME IInv, NEW t \in Txn, NEW r \in Requests, Begin(t, r)
  PROVE  LocalInv(t)'
<1>1. /\ pc[t] = "idle" /\ req'[t] = r
      /\ pc'[t] = CASE r.op = "add" -> "insert" [] r.op = "update" -> "read"
                    [] r.op = "delete" -> "delete"
      /\ snap'[t] = IF r.op = "add" THEN {items} ELSE {}
      /\ todo'[t] = todo[t] /\ seen'[t] = seen[t] /\ written'[t] = written[t]
  BY BeginEffect
<1>2. r.op \in {"add", "update", "delete"}
  BY ItemTxnAssumption
<1>3. todo'[t] = <<>> /\ DOMAIN seen'[t] = {} /\ DOMAIN written'[t] = {}
  BY <1>1 DEF IInv, LocalInv, StageOK, Updating, Updates
<1>4. \/ r.op = "add" /\ pc'[t] = "insert" /\ snap'[t] = {items}
      \/ r.op = "update" /\ pc'[t] = "read" /\ snap'[t] = {}
      \/ r.op = "delete" /\ pc'[t] = "delete" /\ snap'[t] = {}
  BY <1>1, <1>2
<1>5. StageOK(t)'
  BY <1>1, <1>3, <1>4 DEF StageOK, Adds, Updates, Updating
<1>6. Updating(t)' => pc'[t] = "read" /\ snap'[t] = {}
  BY <1>1, <1>4 DEF Updating, Updates
<1>7. /\ ReadIsHeld(t)' /\ NamedAreRead(t)' /\ PatchIsWritten(t)' /\ OthersRenumbered(t)'
      /\ AllRenumbered(t)' /\ WantOfRoom(t)'
  BY <1>3, <1>6 DEF ReadIsHeld, NamedAreRead, PatchIsWritten, OthersRenumbered, AllRenumbered, WantOfRoom
<1>8. ReadsNamed(t)' /\ TodoInSnap(t)' /\ AddIsReady(t)'
  BY <1>4 DEF ReadsNamed, TodoInSnap, AddIsReady
<1> QED BY <1>5, <1>7, <1>8 DEF LocalInv

\* An add updates nothing.
LEMMA AddLocal ==
  ASSUME NEW t \in Txn, req'[t].op = "add", StageOK(t)', AddIsReady(t)'
  PROVE  LocalInv(t)'
<1>1. ~Updating(t)' /\ pc'[t] \notin {"place", "renumber"}
  BY DEF Updating, StageOK, Updates
<1>2. /\ ReadIsHeld(t)' /\ NamedAreRead(t)' /\ PatchIsWritten(t)' /\ OthersRenumbered(t)'
      /\ AllRenumbered(t)' /\ WantOfRoom(t)' /\ ReadsNamed(t)' /\ TodoInSnap(t)'
  BY <1>1 DEF ReadIsHeld, NamedAreRead, PatchIsWritten, OthersRenumbered, AllRenumbered,
              WantOfRoom, ReadsNamed, TodoInSnap
<1> QED BY <1>2 DEF LocalInv

LEMMA InsertLocal ==
  ASSUME IInv, NEW t \in Txn, Insert(t)
  PROVE  LocalInv(t)'
<1>1. /\ UNCHANGED <<items, owner, req, born, reads>>
      /\ pc[t] = "insert"
      /\ \/ /\ pc'[t] = "commit" /\ UNCHANGED snap
            /\ \E T \in snap[t] :
                 written'[t][t] = [NewItem(T, List, req[t].patch.name) EXCEPT !.born = born[t]]
            /\ DOMAIN written'[t] = DOMAIN written[t] \cup {t}
         \/ pc'[t] = "select" /\ snap'[t] = {} /\ UNCHANGED written
  BY InsertEffect
<1>2. /\ req[t] \in Requests /\ req[t].op = "add" /\ todo[t] = <<>>
      /\ DOMAIN seen[t] = {} /\ DOMAIN written[t] = {}
      /\ snap[t] # {} /\ \A S, T \in snap[t] : S = T
  BY <1>1 DEF IInv, LocalInv, StageOK, Adds, Updates, Updating
<1>3. req' = req /\ todo' = todo /\ seen' = seen /\ born' = born /\ items' = items
  BY <1>1 DEF reads
<1>4. t \notin DOMAIN items
  BY <1>1 DEF IInv, NewIsNew
<1>5. StageOK(t)'
  BY <1>1, <1>2, <1>3 DEF StageOK, Adds, Updates, Updating
<1>6. AddIsReady(t)'
  <2>1. CASE pc'[t] = "select"
    BY <2>1 DEF AddIsReady
  <2>2. CASE pc'[t] = "commit"
    <3>1. \A T \in snap[t] :
            written'[t][t] = [NewItem(T, List, req[t].patch.name) EXCEPT !.born = born[t]]
      BY <1>1, <1>2, <2>2
    <3> QED BY <1>1, <1>2, <1>3, <1>4, <2>2, <3>1 DEF AddIsReady
  <2> QED BY <1>1, <2>1, <2>2
<1> QED BY <1>2, <1>3, <1>5, <1>6, AddLocal

LEMMA SelectHolderLocal ==
  ASSUME IInv, NEW t \in Txn, SelectHolder(t)
  PROVE  LocalInv(t)'
<1>1. /\ pc[t] = "select"
      /\ \/ Rollback(t, "not_found")
         \/ /\ \E i \in Holders(items, List, req[t].patch.name) : todo'[t] = <<i>>
            /\ pc'[t] = "revive" /\ UNCHANGED <<owner, req, born, seen, written, snap>>
  BY SelectHolderEffect
<1>2. CASE Rollback(t, "not_found")
  BY <1>1, <1>2, FinishLocal DEF Rollback
<1>3. CASE ~Rollback(t, "not_found")
  <2>1. /\ req[t] \in Requests /\ req[t].op = "add" /\ snap[t] = {}
        /\ DOMAIN seen[t] = {} /\ DOMAIN written[t] = {}
    BY <1>1 DEF IInv, LocalInv, StageOK, Adds, Updates, Updating
  <2>2. pc'[t] = "revive" /\ todo'[t] # <<>> /\ UNCHANGED <<req, seen, written, snap>>
    BY <1>1, <1>3
  <2>3. StageOK(t)'
    BY <2>1, <2>2 DEF StageOK, Adds, Updates, Updating
  <2> QED BY <2>1, <2>2, <2>3, AddLocal DEF AddIsReady
<1> QED BY <1>2, <1>3

LEMMA ReviveLocal ==
  ASSUME IInv, NEW t \in Txn, Revive(t)
  PROVE  LocalInv(t)'
<1> DEFINE i == Head(todo[t])
<1>1. /\ pc[t] = "revive" /\ UNCHANGED items
      /\ \/ Rollback(t, "not_found")
         \/ /\ i \in Holders(items, List, req[t].patch.name) /\ i \in DOMAIN items
            /\ \A j \in ItemId : owner'[j] = IF j = i THEN t ELSE owner[j]
            /\ pc'[t] = "commit" /\ UNCHANGED <<req, born, reads, snap>>
            /\ \/ /\ items[i].checked \/ items[i].note
                  /\ DOMAIN written'[t] = DOMAIN written[t] \cup {i}
                  /\ written'[t][i] = Revived(items[i])
               \/ ~items[i].checked /\ ~items[i].note /\ UNCHANGED written
  BY ReviveEffect
<1>2. CASE Rollback(t, "not_found")
  BY <1>1, <1>2, FinishLocal DEF Rollback
<1>3. CASE ~Rollback(t, "not_found")
  <2>1. /\ req[t] \in Requests /\ req[t].op = "add" /\ snap[t] = {} /\ todo[t] # <<>>
        /\ DOMAIN seen[t] = {} /\ DOMAIN written[t] = {}
    BY <1>1 DEF IInv, LocalInv, StageOK, Adds, Updates, Updating
  <2>2. pc'[t] = "commit" /\ UNCHANGED <<items, req, born, todo, seen, snap>>
    BY <1>1, <1>3 DEF reads
  <2>3. StageOK(t)'
    BY <2>1, <2>2 DEF StageOK, Adds, Updates, Updating
  <2>4. i \in ItemId
    BY <2>1, SeqFacts DEF IInv, TypeOK
  <2>5. owner'[i] = t /\ items[i].name = req[t].patch.name
    BY <1>1, <1>3, <2>4 DEF Holders
  <2>6. AddIsReady(t)'
    BY <1>1, <1>3, <2>1, <2>2, <2>5 DEF AddIsReady
  <2> QED BY <2>1, <2>2, <2>3, <2>6, AddLocal
<1> QED BY <1>2, <1>3

LEMMA ReadLocal ==
  ASSUME IInv, NEW t \in Txn, Read(t)
  PROVE  LocalInv(t)'
<1> DEFINE i == req[t].item
<1>1. /\ pc[t] = "read" /\ UNCHANGED items
      /\ \/ Rollback(t, "not_found")
         \/ /\ i \in DOMAIN items
            /\ \A j \in ItemId : owner'[j] = IF j = i THEN t ELSE owner[j]
            /\ DOMAIN seen'[t] = DOMAIN seen[t] \cup {i} /\ seen'[t][i] = items[i]
            /\ UNCHANGED <<req, born, written, snap>>
            /\ \/ target(t) = Nil /\ pc'[t] = "write" /\ todo'[t] = todo[t]
               \/ target(t) # Nil /\ pc'[t] = "place" /\ todo'[t] = Neighbours(t)
  BY ReadEffect
<1>2. CASE Rollback(t, "not_found")
  BY <1>1, <1>2, FinishLocal DEF Rollback
<1>3. CASE ~Rollback(t, "not_found")
  <2>1. /\ req[t] \in Requests /\ req[t].op = "update" /\ snap[t] = {} /\ todo[t] = <<>>
        /\ DOMAIN seen[t] = {} /\ DOMAIN written[t] = {}
    BY <1>1 DEF IInv, LocalInv, StageOK, Adds, Updates, Updating
  <2>2. UNCHANGED <<items, req, born, written, snap>> /\ pc'[t] \in {"write", "place"}
    BY <1>1, <1>3
  <2>3. target(t)' = target(t)
    BY <2>2 DEF target
  <2>4. i \in ItemId /\ (target(t) # Nil => target(t) \in Targets(ItemId))
    BY <2>1, RequestFacts
  <2>5. target(t) # Nil =>
          Neighbours(t) # <<>> /\ Range(Neighbours(t)) = Named(i, target(t))
    BY <2>4, NeighboursNamed
  <2>6. StageOK(t)'
    BY <1>1, <1>3, <2>1, <2>2, <2>3, <2>5 DEF StageOK, Adds, Updates, Updating
  <2>7. items[i] \in Row
    BY <1>1, <1>3, TableFacts DEF IInv, TypeOK
  <2>8. ReadIsHeld(t)'
    <3>1. DOMAIN seen'[t] = {i} /\ seen'[t][i] = items'[i] /\ owner'[i] = t
      BY <1>1, <1>3, <2>1, <2>4
    <3>2. seen'[t][i] = [items'[i] EXCEPT !.pos = seen'[t][i].pos]
      BY <2>2, <2>7, <3>1 DEF Row
    <3> QED BY <2>1, <2>2, <3>1, <3>2 DEF ReadIsHeld
  <2>9. NamedAreRead(t)' /\ ReadsNamed(t)'
    BY <1>1, <1>3, <2>2, <2>3, <2>5 DEF NamedAreRead, ReadsNamed
  <2>10. /\ PatchIsWritten(t)' /\ OthersRenumbered(t)' /\ AllRenumbered(t)' /\ TodoInSnap(t)'
         /\ WantOfRoom(t)' /\ AddIsReady(t)'
    BY <2>1, <2>2 DEF PatchIsWritten, OthersRenumbered, AllRenumbered, TodoInSnap, WantOfRoom, AddIsReady
  <2> QED BY <2>6, <2>8, <2>9, <2>10 DEF LocalInv
<1> QED BY <1>2, <1>3

LEMMA NeighbourLocal ==
  ASSUME IInv, NEW t \in Txn, Neighbour(t)
  PROVE  LocalInv(t)'
<1> DEFINE i == Head(todo[t])
<1>1. /\ pc[t] = "place" /\ UNCHANGED items
      /\ \/ Rollback(t, "not_found")
         \/ /\ i \in DOMAIN items
            /\ \A j \in ItemId : owner'[j] = IF j = i THEN t ELSE owner[j]
            /\ DOMAIN seen'[t] = DOMAIN seen[t] \cup {i} /\ seen'[t][i] = items[i]
            /\ \A j \in DOMAIN seen[t] \ {i} : seen'[t][j] = seen[t][j]
            /\ UNCHANGED <<req, born, written, snap>>
            /\ todo'[t] = Tail(todo[t])
            /\ pc'[t] = IF Tail(todo[t]) = <<>> THEN "write" ELSE "place"
  BY NeighbourEffect
<1>2. CASE Rollback(t, "not_found")
  BY <1>1, <1>2, FinishLocal DEF Rollback
<1>3. CASE ~Rollback(t, "not_found")
  <2>1. /\ req[t] \in Requests /\ req[t].op = "update" /\ snap[t] = {} /\ todo[t] # <<>>
        /\ DOMAIN written[t] = {} /\ target(t) # Nil /\ Updating(t)
    BY <1>1 DEF IInv, LocalInv, StageOK, Adds, Updates, Updating
  <2>2. UNCHANGED <<items, req, born, written, snap>> /\ pc'[t] \in {"write", "place"}
    BY <1>1, <1>3
  <2>3. target(t)' = target(t)
    BY <2>2 DEF target
  <2>4. /\ i \in ItemId /\ i \in Range(todo[t])
        /\ Range(todo[t]) = {i} \cup Range(Tail(todo[t]))
    BY <2>1, SeqFacts DEF IInv, TypeOK
  <2>5. StageOK(t)'
    BY <1>1, <1>3, <2>1, <2>2, <2>3 DEF StageOK, Adds, Updates, Updating
  <2>6. items[i] \in Row /\ DOMAIN seen[t] \subseteq ItemId
    BY <1>1, <1>3, TableFacts DEF IInv, TypeOK
  <2>7. /\ req[t].item \in DOMAIN seen[t]
        /\ \A j \in DOMAIN seen[t] : owner[j] = t /\ seen[t][j] = items[j]
               /\ seen[t][j] = [items[j] EXCEPT !.pos = seen[t][j].pos]
    BY <1>1, <2>1 DEF IInv, LocalInv, ReadIsHeld
  <2>8. ReadIsHeld(t)'
    <3>1. seen'[t][i] = items[i] /\ items[i] = [items[i] EXCEPT !.pos = items[i].pos]
      BY <1>1, <1>3, <2>6 DEF Row
    <3>2. \A j \in DOMAIN seen'[t] :
            /\ owner'[j] = t /\ seen'[t][j] = items'[j]
            /\ seen'[t][j] = [items'[j] EXCEPT !.pos = seen'[t][j].pos]
      <4> TAKE j \in DOMAIN seen'[t]
      <4>1. CASE j = i
        <5>1. owner'[i] = t /\ seen'[t][i] = items'[i] /\ items'[i] = items[i]
          BY <1>1, <1>3, <2>2, <2>4
        <5> HIDE DEF i
        <5> QED BY <3>1, <4>1, <5>1
      <4>2. CASE j # i
        <5>1. j \in DOMAIN seen[t] /\ seen'[t][j] = seen[t][j]
          BY <1>1, <1>3, <4>2
        <5>2. owner'[j] = t /\ items'[j] = items[j]
          BY <1>1, <1>3, <2>2, <2>6, <2>7, <5>1
        <5> HIDE DEF i
        <5> QED BY <2>7, <5>1, <5>2
      <4> QED BY <4>1, <4>2
    <3> QED BY <1>1, <1>3, <2>1, <2>2, <2>7, <3>2 DEF ReadIsHeld
  <2>9. NamedAreRead(t)' /\ ReadsNamed(t)'
    <3>1. /\ Named(req[t].item, target(t)) \ DOMAIN seen[t] \subseteq Range(todo[t])
          /\ Range(todo[t]) \subseteq Named(req[t].item, target(t))
      BY <1>1, <2>1 DEF IInv, LocalInv, NamedAreRead, ReadsNamed
    <3>2. Named(req[t].item, target(t)) \ DOMAIN seen'[t] \subseteq Range(Tail(todo[t]))
      BY <1>1, <1>3, <2>4, <3>1
    <3>3. Tail(todo[t]) = <<>> => Range(Tail(todo[t])) = {}
      BY RangeEmpty
    <3> QED BY <1>1, <1>3, <2>2, <2>3, <2>4, <3>1, <3>2, <3>3 DEF NamedAreRead, ReadsNamed
  <2>10. /\ PatchIsWritten(t)' /\ OthersRenumbered(t)' /\ AllRenumbered(t)' /\ TodoInSnap(t)'
         /\ WantOfRoom(t)' /\ AddIsReady(t)'
    BY <2>1, <2>2 DEF PatchIsWritten, OthersRenumbered, AllRenumbered, TodoInSnap, WantOfRoom, AddIsReady
  <2> QED BY <2>5, <2>8, <2>9, <2>10 DEF LocalInv
<1> QED BY <1>2, <1>3

LEMMA ReadFacts ==
  ASSUME NEW t \in Txn, ReadIsHeld(t), Updating(t), pc[t] # "read", NEW i \in DOMAIN seen[t]
  PROVE  /\ owner[i] = t
         /\ snap[t] = {} => seen[t][i] = items[i]
         /\ snap[t] # {} => i \in DOMAIN written[t]
         /\ pc[t] \in {"again", "index", "commit"} =>
              \A T \in snap[t] : i \in DOMAIN T /\ seen[t][i].pos = Renormalize(T, List)[i].pos
<1>1. /\ owner[i] = t
      /\ snap[t] = {} => seen[t][i] = items[i]
      /\ snap[t] # {} => i \in DOMAIN written[t]
  BY DEF ReadIsHeld
<1>2. ASSUME pc[t] \in {"again", "index", "commit"}, NEW T \in snap[t]
      PROVE  i \in DOMAIN T /\ seen[t][i].pos = Renormalize(T, List)[i].pos
  <2>1. snap[t] # {}
    OBVIOUS
  <2> QED BY <1>2, <2>1 DEF ReadIsHeld
<1> QED BY <1>1, <1>2

\* A position computed before a renormalization is that of the committed table,
\* for the rows named are locked.
LEMMA PlacedOnItems ==
  ASSUME IInv, NEW t \in Txn, Updating(t), pc[t] \notin {"read", "place"}, snap[t] = {},
         target(t) # Nil
  PROVE  Placed(t) = TryComputePosition(items, List, req[t].item, target(t))
<1>1. \A i \in Named(req[t].item, target(t)) :
        i \in DOMAIN seen[t] /\ owner[i] = t /\ seen[t][i] = items[i]
  <2>1. \A i \in Named(req[t].item, target(t)) : i \in DOMAIN seen[t]
    BY DEF IInv, LocalInv, NamedAreRead
  <2>2. ReadIsHeld(t) /\ pc[t] # "read"
    BY DEF IInv, LocalInv
  <2> QED BY <2>1, <2>2, ReadFacts
<1>2. IsTable(items, ItemId, Row) /\ IsTable(seen[t], ItemId, Row)
  BY DEF IInv, TypeOK
<1>3. \A i \in Named(req[t].item, target(t)) : i \in DOMAIN items
  <2>1. t # Nil /\ DOMAIN seen[t] \subseteq ItemId
    BY <1>2, ItemTxnAssumption, RowAssumption DEF IsTable
  <2> QED BY <1>1, <2>1 DEF IInv, LockedIsThere
<1> DEFINE S == seen[t]
<1>4. /\ IsTable(S, ItemId, Row)
      /\ \A i \in Named(req[t].item, target(t)) :
           i \in DOMAIN S /\ i \in DOMAIN items /\ S[i].pos = items[i].pos
  BY <1>1, <1>2, <1>3
<1> HIDE DEF S
<1>5. TryComputePosition(S, List, req[t].item, target(t))
        = TryComputePosition(items, List, req[t].item, target(t))
  BY <1>2, <1>4, TrySame
<1> QED BY <1>5 DEF S, Placed

LEMMA RenormalizesLocal ==
  ASSUME IInv, NEW t \in Txn, Renormalizes(t)
  PROVE  LocalInv(t)'
<1> DEFINE mine == {i \in DOMAIN items : owner[i] = t}
<1>1. /\ pc[t] = "write" /\ Placed(t).err = "exhausted"
      /\ UNCHANGED <<items, owner, req, born, seen>>
      /\ pc'[t] = "renumber" /\ snap'[t] = {items}
      /\ DOMAIN written'[t] = mine
      /\ \A i \in mine : written'[t][i] = [items[i] EXCEPT !.pos = Renormalize(items, List)[i].pos]
      /\ Range(todo'[t]) = DOMAIN items \ mine
  BY RenormalizesEffect
<1>2. /\ req[t] \in Requests /\ req[t].op = "update" /\ snap[t] = {} /\ Updating(t)
  BY <1>1 DEF IInv, LocalInv, StageOK, Adds, Updates, Updating
<1>3. /\ target(t) # Nil
      /\ TryComputePosition(items, List, req[t].item, target(t)).err = "exhausted"
  <2>1. target(t) # Nil
    BY <1>1 DEF Placed
  <2> QED BY <1>1, <1>2, <2>1, PlacedOnItems
<1>4. target(t)' = target(t)
  BY <1>1 DEF target
<1>5. StageOK(t)'
  BY <1>1, <1>2, <1>3, <1>4 DEF StageOK, Adds, Updates, Updating
<1>6. /\ req[t].item \in DOMAIN seen[t]
      /\ \A i \in DOMAIN seen[t] : owner[i] = t /\ seen[t][i] = items[i]
             /\ seen[t][i] = [items[i] EXCEPT !.pos = seen[t][i].pos]
  BY <1>1, <1>2 DEF IInv, LocalInv, ReadIsHeld
<1>7. \A i \in DOMAIN seen[t] : i \in mine
  <2>1. t # Nil /\ DOMAIN seen[t] \subseteq ItemId
    BY ItemTxnAssumption, RowAssumption DEF IInv, TypeOK, IsTable
  <2> QED BY <1>6, <2>1 DEF IInv, LockedIsThere
<1>8. ReadIsHeld(t)'
  BY <1>1, <1>6, <1>7 DEF ReadIsHeld
<1>9. NamedAreRead(t)'
  BY <1>1, <1>2, <1>3, <1>4 DEF IInv, LocalInv, NamedAreRead
<1>10. OthersRenumbered(t)'
  <2>1. \A i \in mine : items[i] \in Row
    BY TableFacts DEF IInv, TypeOK
  <2>2. \A i \in mine :
          /\ written'[t][i] = [items[i] EXCEPT !.pos = written'[t][i].pos]
          /\ written'[t][i].pos = Renormalize(items, List)[i].pos
    BY <1>1, <2>1 DEF Row
  <2> QED BY <1>1, <2>2 DEF OthersRenumbered
<1>11. AllRenumbered(t)' /\ TodoInSnap(t)'
  BY <1>1 DEF AllRenumbered, TodoInSnap
<1>12. WantOfRoom(t)'
  BY <1>1, <1>3, <1>4 DEF WantOfRoom
<1>13. ReadsNamed(t)' /\ PatchIsWritten(t)' /\ AddIsReady(t)'
  BY <1>1 DEF ReadsNamed, PatchIsWritten, AddIsReady
<1> QED BY <1>5, <1>8, <1>9, <1>10, <1>11, <1>12, <1>13 DEF LocalInv

LEMMA RenormalizeRowLocal ==
  ASSUME IInv, NEW t \in Txn, RenormalizeRow(t)
  PROVE  LocalInv(t)'
<1> DEFINE i == Head(todo[t])
<1>1. /\ pc[t] = "renumber" /\ todo[t] # <<>> /\ todo'[t] = Tail(todo[t])
      /\ UNCHANGED <<items, req, pc, born, seen, snap>>
      /\ \/ i \notin DOMAIN items /\ UNCHANGED <<owner, written>>
         \/ /\ i \in DOMAIN items
            /\ \A j \in ItemId : owner'[j] = IF j = i THEN t ELSE owner[j]
            /\ DOMAIN written'[t] = DOMAIN written[t] \cup {i}
            /\ \E T \in snap[t] :
                 /\ i \in DOMAIN T
                 /\ written'[t][i] = [items[i] EXCEPT !.pos = Renormalize(T, List)[i].pos]
            /\ \A j \in DOMAIN written[t] \ {i} : written'[t][j] = written[t][j]
  BY RenormalizeRowEffect
<1>2. /\ req[t] \in Requests /\ req[t].op = "update" /\ snap[t] # {} /\ target(t) # Nil
      /\ Updating(t) /\ \A S, T \in snap[t] : S = T
  BY <1>1 DEF IInv, LocalInv, StageOK, Adds, Updates, Updating
<1>3. target(t)' = target(t) /\ Updating(t)'
  BY <1>1, <1>2 DEF target, Updating
<1>4. /\ i \in ItemId /\ i \in Range(todo[t])
      /\ Range(todo[t]) = {i} \cup Range(Tail(todo[t]))
  BY <1>1, SeqFacts DEF IInv, TypeOK
<1>5. DOMAIN written[t] \subseteq DOMAIN written'[t] /\ DOMAIN written[t] \subseteq ItemId
  BY <1>1 DEF IInv, TypeOK, IsTable
<1>6. StageOK(t)'
  BY <1>1, <1>2, <1>3 DEF StageOK, Adds, Updates, Updating
<1>7. \A j \in ItemId : owner[j] = t => owner'[j] = t
  BY <1>1
<1>8. ReadIsHeld(t)'
  <2>1. DOMAIN seen[t] \subseteq ItemId
    BY DEF IInv, TypeOK, IsTable
  <2>2. /\ req[t].item \in DOMAIN seen[t]
        /\ \A j \in DOMAIN seen[t] : owner[j] = t /\ j \in DOMAIN written[t]
             /\ seen[t][j] = items[j] /\ seen[t][j] = [items[j] EXCEPT !.pos = seen[t][j].pos]
    BY <1>1, <1>2 DEF IInv, LocalInv, ReadIsHeld
  <2> QED BY <1>1, <1>5, <1>7, <2>1, <2>2 DEF ReadIsHeld
<1>9. NamedAreRead(t)'
  BY <1>1, <1>2, <1>3 DEF IInv, LocalInv, NamedAreRead
<1>10. OthersRenumbered(t)'
  <2>1. \A j \in DOMAIN written[t] :
          /\ owner[j] = t /\ written[t][j] = [items[j] EXCEPT !.pos = written[t][j].pos]
          /\ \A T \in snap[t] : j \in DOMAIN T /\ written[t][j].pos = Renormalize(T, List)[j].pos
    BY <1>1, <1>2 DEF IInv, LocalInv, OthersRenumbered
  <2>2. CASE i \notin DOMAIN items
    BY <1>1, <1>2, <2>1, <2>2 DEF OthersRenumbered
  <2>3. CASE i \in DOMAIN items
    <3>1. items[i] \in Row
      BY <2>3, TableFacts DEF IInv, TypeOK
    <3>2. \A T \in snap[t] :
            /\ i \in DOMAIN T
            /\ written'[t][i] = [items[i] EXCEPT !.pos = Renormalize(T, List)[i].pos]
      BY <1>1, <1>2, <2>3
    <3>3. \A T \in snap[t] : written'[t][i].pos = Renormalize(T, List)[i].pos
      BY <3>1, <3>2 DEF Row
    <3>4. written'[t][i] = [items[i] EXCEPT !.pos = written'[t][i].pos]
      BY <1>2, <3>1, <3>2, <3>3
    <3>5. DOMAIN written'[t] = DOMAIN written[t] \cup {i} /\ owner'[i] = t
          /\ \A j \in DOMAIN written[t] \ {i} : written'[t][j] = written[t][j]
      BY <1>1, <1>4, <2>3
    <3>6. \A j \in DOMAIN written'[t] :
            /\ owner'[j] = t /\ written'[t][j] = [items[j] EXCEPT !.pos = written'[t][j].pos]
            /\ \A T \in snap[t] : j \in DOMAIN T /\ written'[t][j].pos = Renormalize(T, List)[j].pos
      <4> HIDE DEF i
      <4> TAKE j \in DOMAIN written'[t]
      <4>1. CASE j = i
        BY <3>2, <3>3, <3>4, <3>5, <4>1
      <4>2. CASE j # i
        BY <1>5, <1>7, <2>1, <3>5, <4>2
      <4> QED BY <4>1, <4>2
    <3> QED BY <1>1, <1>2, <3>6 DEF OthersRenumbered
  <2> QED BY <2>2, <2>3
<1>11. AllRenumbered(t)'
  <2>1. \A T \in snap[t] : DOMAIN T \cap DOMAIN items \subseteq DOMAIN written[t] \cup Range(todo[t])
    BY <1>1, <1>2 DEF IInv, LocalInv, AllRenumbered
  <2>2. i \in DOMAIN items => i \in DOMAIN written'[t]
    BY <1>1
  <2>3. \A T \in snap[t] :
          DOMAIN T \cap DOMAIN items \subseteq DOMAIN written'[t] \cup Range(todo'[t])
    BY <1>1, <1>4, <1>5, <2>1, <2>2
  <2> QED BY <1>1, <2>3 DEF AllRenumbered
<1>12. TodoInSnap(t)'
  BY <1>1, <1>4 DEF IInv, LocalInv, TodoInSnap
<1>13. WantOfRoom(t)'
  BY <1>1, <1>2, <1>3 DEF IInv, LocalInv, WantOfRoom
<1>14. ReadsNamed(t)' /\ PatchIsWritten(t)' /\ AddIsReady(t)'
  BY <1>1 DEF ReadsNamed, PatchIsWritten, AddIsReady
<1> QED BY <1>6, <1>8, <1>9, <1>10, <1>11, <1>12, <1>13, <1>14 DEF LocalInv

LEMMA RereadLocal ==
  ASSUME IInv, NEW t \in Txn, Reread(t)
  PROVE  LocalInv(t)'
<1>1. /\ pc[t] = "renumber" /\ todo[t] = <<>> /\ pc'[t] = "again"
      /\ UNCHANGED <<items, owner, req, born, todo, written, snap>>
      /\ DOMAIN seen'[t] = DOMAIN seen[t]
      /\ \A i \in DOMAIN seen[t] : i \in DOMAIN written[t] /\ seen'[t][i] = written[t][i]
  BY RereadEffect
<1>2. /\ req[t] \in Requests /\ req[t].op = "update" /\ snap[t] # {} /\ target(t) # Nil
      /\ Updating(t)
  BY <1>1 DEF IInv, LocalInv, StageOK, Adds, Updates, Updating
<1>3. target(t)' = target(t)
  BY <1>1 DEF target
<1>4. StageOK(t)'
  <2>1. \A S, T \in snap[t] : S = T
    BY DEF IInv, LocalInv, StageOK
  <2> QED BY <1>1, <1>2, <1>3, <2>1 DEF StageOK, Adds, Updates, Updating
<1>5. \A j \in DOMAIN written[t] :
          /\ owner[j] = t /\ written[t][j] = [items[j] EXCEPT !.pos = written[t][j].pos]
          /\ \A T \in snap[t] : j \in DOMAIN T /\ written[t][j].pos = Renormalize(T, List)[j].pos
  BY <1>1, <1>2 DEF IInv, LocalInv, OthersRenumbered
<1>6. ReadIsHeld(t)'
  <2>1. req[t].item \in DOMAIN seen[t]
    BY <1>1, <1>2 DEF IInv, LocalInv, ReadIsHeld
  <2>2. \A j \in DOMAIN seen[t] :
          /\ owner[j] = t /\ j \in DOMAIN written[t]
          /\ seen'[t][j] = [items[j] EXCEPT !.pos = seen'[t][j].pos]
          /\ \A T \in snap[t] : j \in DOMAIN T /\ seen'[t][j].pos = Renormalize(T, List)[j].pos
    BY <1>1, <1>5
  <2> QED BY <1>1, <1>2, <2>1, <2>2 DEF ReadIsHeld
<1>7. NamedAreRead(t)'
  BY <1>1, <1>2, <1>3 DEF IInv, LocalInv, NamedAreRead
<1>8. OthersRenumbered(t)'
  BY <1>1, <1>2, <1>5 DEF OthersRenumbered
<1>9. AllRenumbered(t)'
  BY <1>1, <1>2, RangeEmpty DEF IInv, LocalInv, AllRenumbered
<1>10. WantOfRoom(t)'
  BY <1>1, <1>2, <1>3 DEF IInv, LocalInv, WantOfRoom
<1>11. ReadsNamed(t)' /\ PatchIsWritten(t)' /\ TodoInSnap(t)' /\ AddIsReady(t)'
  BY <1>1 DEF ReadsNamed, PatchIsWritten, TodoInSnap, AddIsReady
<1> QED BY <1>4, <1>6, <1>7, <1>8, <1>9, <1>10, <1>11 DEF LocalInv

LEMMA WriteLocal ==
  ASSUME IInv, NEW t \in Txn, Write(t)
  PROVE  LocalInv(t)'
<1> DEFINE i == req[t].item
<1>1. /\ pc[t] = "again" \/ (pc[t] = "write" /\ Placed(t).err # "exhausted")
      /\ UNCHANGED items
      /\ \/ \E a : Rollback(t, a)
         \/ /\ Placed(t).err = "none"
            /\ pc'[t] = IF req[t].patch.name = Nil THEN "commit" ELSE "index"
            /\ UNCHANGED <<owner, req, born, reads, snap>>
            /\ DOMAIN written'[t] = DOMAIN written[t] \cup {i}
            /\ written'[t][i] = PatchedRow(seen[t][i], req[t].patch, Placed(t).pos)
            /\ \A j \in DOMAIN written[t] \ {i} : written'[t][j] = written[t][j]
  BY WriteEffect
<1>2. CASE \E a : Rollback(t, a)
  BY <1>1, <1>2, FinishLocal DEF Rollback
<1>3. CASE ~\E a : Rollback(t, a)
  <2>1. /\ req[t] \in Requests /\ req[t].op = "update" /\ todo[t] = <<>> /\ Updating(t)
        /\ pc[t] = "write" => snap[t] = {} /\ DOMAIN written[t] = {}
        /\ pc[t] = "again" => snap[t] # {}
        /\ \A S, T \in snap[t] : S = T
    BY <1>1 DEF IInv, LocalInv, StageOK, Adds, Updates, Updating
  <2>2. UNCHANGED <<items, owner, req, born, todo, seen, snap>> /\ pc'[t] \in {"commit", "index"}
    BY <1>1, <1>3 DEF reads
  <2>3. target(t)' = target(t) /\ Placed(t)' = Placed(t)
    BY <2>2 DEF target, Placed
  <2>4. StageOK(t)'
    BY <1>1, <1>3, <2>1, <2>2 DEF StageOK, Adds, Updates, Updating
  <2>5. ReadIsHeld(t)'
    <3>1. i \in DOMAIN seen[t] /\ \A j \in DOMAIN seen[t] : owner[j] = t
          /\ seen[t][j] = [items[j] EXCEPT !.pos = seen[t][j].pos]
          /\ (snap[t] = {} => seen[t][j] = items[j])
          /\ (snap[t] # {} => j \in DOMAIN written[t])
      BY <1>1, <2>1 DEF IInv, LocalInv, ReadIsHeld
    <3>2. \A j \in DOMAIN seen[t] : \A T \in snap[t] :
            j \in DOMAIN T /\ seen[t][j].pos = Renormalize(T, List)[j].pos
      BY <1>1, <2>1 DEF IInv, LocalInv, ReadIsHeld
    <3>3. DOMAIN written[t] \subseteq DOMAIN written'[t]
      BY <1>1, <1>3
    <3> QED BY <2>2, <3>1, <3>2, <3>3 DEF ReadIsHeld
  <2>6. NamedAreRead(t)'
    BY <1>1, <2>1, <2>2, <2>3 DEF IInv, LocalInv, NamedAreRead
  <2>7. PatchIsWritten(t)'
    BY <1>1, <1>3, <2>2, <2>3 DEF PatchIsWritten
  <2>8. OthersRenumbered(t)'
    <3>1. owner[i] = t
      BY <1>1, <2>1 DEF IInv, LocalInv, ReadIsHeld
    <3>2. \A j \in DOMAIN written[t] :
            /\ owner[j] = t /\ written[t][j] = [items[j] EXCEPT !.pos = written[t][j].pos]
            /\ \A T \in snap[t] : j \in DOMAIN T /\ written[t][j].pos = Renormalize(T, List)[j].pos
      BY <1>1, <2>1 DEF IInv, LocalInv, OthersRenumbered
    <3>3. snap[t] = {} => DOMAIN written'[t] = {i}
      BY <1>1, <1>3, <2>1
    <3>4. DOMAIN written'[t] = DOMAIN written[t] \cup {i}
          /\ \A j \in DOMAIN written[t] \ {i} : written'[t][j] = written[t][j]
      BY <1>1, <1>3
    <3> HIDE DEF i
    <3>5. \A j \in DOMAIN written'[t] :
            /\ owner'[j] = t
            /\ j # i => /\ written'[t][j] = [items'[j] EXCEPT !.pos = written'[t][j].pos]
                        /\ \A T \in snap[t] :
                             j \in DOMAIN T /\ written'[t][j].pos = Renormalize(T, List)[j].pos
      BY <2>2, <3>1, <3>2, <3>4
    <3>6. req'[t].item = i
      BY <2>2 DEF i
    <3> QED BY <2>2, <3>3, <3>5, <3>6 DEF OthersRenumbered
  <2>9. AllRenumbered(t)'
    BY <1>1, <1>3, <2>1, <2>2 DEF IInv, LocalInv, AllRenumbered
  <2>10. WantOfRoom(t)'
    BY <2>1, <2>2, <2>3 DEF IInv, LocalInv, WantOfRoom
  <2>11. ReadsNamed(t)' /\ TodoInSnap(t)' /\ AddIsReady(t)'
    BY <2>1, <2>2 DEF ReadsNamed, TodoInSnap, AddIsReady
  <2> QED BY <2>4, <2>5, <2>6, <2>7, <2>8, <2>9, <2>10, <2>11 DEF LocalInv
<1> QED BY <1>2, <1>3

LEMMA TakeNameLocal ==
  ASSUME IInv, NEW t \in Txn, TakeName(t)
  PROVE  LocalInv(t)'
<1>1. /\ pc[t] = "index" /\ UNCHANGED items
      /\ \/ Rollback(t, "conflict")
         \/ pc'[t] = "commit" /\ UNCHANGED <<owner, req, born, reads, written, snap>>
  BY TakeNameEffect
<1>2. CASE Rollback(t, "conflict")
  BY <1>1, <1>2, FinishLocal DEF Rollback
<1>3. CASE ~Rollback(t, "conflict")
  <2>1. /\ StageOK(t) /\ ReadIsHeld(t) /\ NamedAreRead(t) /\ PatchIsWritten(t)
        /\ OthersRenumbered(t) /\ AllRenumbered(t) /\ WantOfRoom(t)
        /\ req[t].op = "update" /\ Updating(t)
    BY <1>1 DEF IInv, LocalInv, StageOK, Updates, Updating
  <2>2. UNCHANGED <<items, owner, req, born, todo, seen, written, snap>> /\ pc'[t] = "commit"
    BY <1>1, <1>3 DEF reads
  <2>3. target(t)' = target(t) /\ Placed(t)' = Placed(t) /\ Updating(t)'
    BY <2>1, <2>2 DEF target, Placed, Updating
  <2>4. StageOK(t)'
    BY <1>1, <2>1, <2>2 DEF StageOK, Adds, Updates, Updating
  <2>5. ReadIsHeld(t)' /\ NamedAreRead(t)'
    <3>1. ReadIsHeld(t)'
      BY <1>1, <2>1, <2>2, <2>3, SMTT(30) DEF ReadIsHeld
    <3>2. NamedAreRead(t)'
      BY <1>1, <2>1, <2>2, <2>3, SMTT(30) DEF NamedAreRead
    <3> QED BY <3>1, <3>2
  <2>6. PatchIsWritten(t)' /\ OthersRenumbered(t)'
    BY <1>1, <2>1, <2>2, <2>3 DEF PatchIsWritten, OthersRenumbered
  <2>7. AllRenumbered(t)' /\ WantOfRoom(t)'
    BY <1>1, <2>1, <2>2, <2>3 DEF AllRenumbered, WantOfRoom
  <2>8. ReadsNamed(t)' /\ TodoInSnap(t)' /\ AddIsReady(t)'
    BY <2>1, <2>2 DEF ReadsNamed, TodoInSnap, AddIsReady
  <2> QED BY <2>4, <2>5, <2>6, <2>7, <2>8 DEF LocalInv
<1> QED BY <1>2, <1>3

-----------------------------------------------------------------------------
\* Names

\* What a transaction is about to commit keeps its name, but for the row it names.
CommitsNames(t) ==
  \A i \in DOMAIN written[t] :
    \/ i \in DOMAIN items /\ owner[i] = t /\ written[t][i].name = items[i].name
    \/ Naming(t) /\ i = Renamed(t) /\ written[t][i].name = req[t].patch.name

\* The name of the row that an add inserts,
LEMMA NewName ==
  ASSUME TypeOK, NEW t \in Txn, LocalInv(t),
         pc[t] = "commit", req[t].op = "add", todo[t] = <<>>
  PROVE  DOMAIN written[t] = {t} /\ t \notin DOMAIN items /\ written[t][t].name = req[t].patch.name
<1> DEFINE n == req[t].patch.name
           b == born[t]
<1>1. /\ DOMAIN written[t] = {t} /\ t \notin DOMAIN items /\ snap[t] # {}
      /\ \A T \in snap[t] : written[t][t] = [NewItem(T, List, n) EXCEPT !.born = b]
  BY SMT DEF LocalInv, AddIsReady
<1>2. n \in Name /\ b \in Nat
  <2>1. req[t] \in Requests
    BY DEF LocalInv, StageOK
  <2> QED BY <2>1, RequestFacts DEF TypeOK
<1>3. PICK T \in snap[t] : IsTable(T, ItemId, Row)
  BY <1>1 DEF TypeOK
<1> HIDE DEF n, b
<1>4. [NewItem(T, List, n) EXCEPT !.born = b].name = n
  BY DEF NewItem
<1>5. written[t][t] = [NewItem(T, List, n) EXCEPT !.born = b]
  BY <1>1, <1>3
<1>6. written[t][t].name = n
  BY <1>4, <1>5
<1> QED BY <1>1, <1>6 DEF n

\* and that of the row that an update is about.
LEMMA PatchName ==
  ASSUME TypeOK, NEW t \in Txn, LocalInv(t), Updating(t), pc[t] \in {"index", "commit"}
  PROVE  LET i == req[t].item IN
         /\ i \in DOMAIN written[t] /\ owner[i] = t
         /\ i \in DOMAIN items =>
              written[t][i].name = IF req[t].patch.name = Nil THEN items[i].name
                                   ELSE req[t].patch.name
<1> DEFINE i == req[t].item
           p == req[t].patch
           pos == Placed(t).pos
           row == seen[t][i]
<1>1. i \in DOMAIN written[t] /\ written[t][i] = PatchedRow(row, p, pos)
  BY DEF LocalInv, PatchIsWritten
<1>2. /\ i \in DOMAIN seen[t] /\ owner[i] = t
      /\ row = [items[i] EXCEPT !.pos = row.pos]
  BY DEF LocalInv, ReadIsHeld
<1>3. row \in Row /\ (i \in DOMAIN items => items[i] \in Row)
  BY <1>2, TableFacts DEF TypeOK
<1>4. p \in Patches(Name, ItemId)
  BY RequestFacts DEF LocalInv, StageOK
<1>5. pos \in Int
  BY PlacedType
<1> HIDE DEF i, p, pos, row
<1>6. PatchedRow(row, p, pos).name = IF p.name = Nil THEN row.name ELSE p.name
  BY <1>3, <1>4, <1>5, PatchedRowType
<1>7. i \in DOMAIN items => row.name = items[i].name
  BY <1>2, <1>3 DEF Row
<1>8. i \in DOMAIN items => written[t][i].name = IF p.name = Nil THEN items[i].name ELSE p.name
  BY <1>1, <1>6, <1>7
<1> QED BY <1>1, <1>2, <1>8 DEF i, p

KeepNames ==
  \A t \in Txn : TypeOK /\ LockedIsThere /\ LocalInv(t) /\ pc[t] = "commit" => CommitsNames(t)

LEMMA WrittenNames == KeepNames
<1> SUFFICES ASSUME NEW t \in Txn, TypeOK, LockedIsThere, LocalInv(t), pc[t] = "commit",
                    NEW i \in DOMAIN written[t]
             PROVE  \/ i \in DOMAIN items /\ owner[i] = t /\ written[t][i].name = items[i].name
                    \/ /\ Naming(t) /\ i = Renamed(t)
                       /\ written[t][i].name = req[t].patch.name
  BY DEF KeepNames, CommitsNames
<1>1. /\ req[t] \in Requests /\ req[t].op \in {"add", "update"}
  BY DEF LocalInv, StageOK
<1>2. i \in ItemId /\ t # Nil
  BY ItemTxnAssumption, RowAssumption DEF TypeOK, IsTable
<1>3. owner[i] = t => i \in DOMAIN items
  BY <1>2 DEF LockedIsThere
<1>4. i \in DOMAIN items => items[i] \in Row
  BY TableFacts DEF TypeOK
<1>5. req[t].op = "add" => req[t].patch.name # Nil
  BY <1>1, ItemTxnAssumption
<1>6. CASE req[t].op = "update"
  <2>1. Updating(t) /\ owner[i] = t /\ i \in DOMAIN items
    BY <1>3, <1>6 DEF Updating, LocalInv, OthersRenumbered
  <2>2. CASE i # req[t].item
    <3>1. written[t][i] = [items[i] EXCEPT !.pos = written[t][i].pos]
      BY <2>1, <2>2 DEF LocalInv, OthersRenumbered
    <3> QED BY <1>4, <2>1, <3>1 DEF Row
  <2>3. CASE i = req[t].item
    <3>1. written[t][i].name = IF req[t].patch.name = Nil THEN items[i].name
                               ELSE req[t].patch.name
      BY <2>1, <2>3, PatchName
    <3> QED BY <1>6, <2>1, <2>3, <3>1 DEF Naming, Renamed
  <2> QED BY <2>2, <2>3
<1>7. CASE req[t].op = "add" /\ todo[t] = <<>>
  <2>1. i = t /\ written[t][i].name = req[t].patch.name
    BY <1>7, NewName
  <2> QED BY <1>5, <1>7, <2>1 DEF Naming, Renamed
<1>8. CASE req[t].op = "add" /\ todo[t] # <<>>
  <2>1. owner[i] = t /\ written[t][i] = Revived(items[i])
    BY <1>8 DEF LocalInv, AddIsReady
  <2> QED BY <1>3, <1>4, <2>1, RevivedRowType
<1> QED BY <1>1, <1>6, <1>7, <1>8

LEMMA WrittenNamesNext == KeepNames'
BY WrittenNames, PTL

\* The row that is about to get a name is among those to be committed.
LEMMA NamingWrites ==
  ASSUME IInv, NEW t \in Txn, Naming(t)
  PROVE  /\ Renamed(t) \in DOMAIN written[t]
         /\ written[t][Renamed(t)].name = req[t].patch.name
         /\ Renamed(t) \in DOMAIN items => owner[Renamed(t)] = t
<1>1. /\ pc[t] = "commit" /\ req[t].patch.name # Nil /\ req[t] \in Requests
      /\ req[t].op \in {"add", "update"}
  BY DEF IInv, LocalInv, StageOK, Naming
<1>2. CASE req[t].op = "update"
  <2>1. Updating(t)
    BY <1>1, <1>2 DEF Updating
  <2>2. /\ req[t].item \in DOMAIN written[t] /\ owner[req[t].item] = t
        /\ req[t].item \in DOMAIN items => written[t][req[t].item].name = req[t].patch.name
    BY <1>1, <2>1, PatchName DEF IInv
  <2>3. req[t].item \in DOMAIN items
    <3>1. t # Nil /\ req[t].item \in ItemId
      BY <1>1, <1>2, RequestFacts, ItemTxnAssumption, RowAssumption
    <3> QED BY <2>2, <3>1 DEF IInv, LockedIsThere
  <2> QED BY <1>2, <2>2, <2>3 DEF Renamed
<1>3. CASE req[t].op = "add"
  <2>1. /\ t \in DOMAIN written[t] /\ t \notin DOMAIN items
        /\ written[t][t].name = req[t].patch.name
    BY <1>1, <1>3, NewName DEF IInv, Naming
  <2> QED BY <1>3, <2>1 DEF Renamed
<1> QED BY <1>1, <1>2, <1>3

\* A step after which the transaction commits nothing, and that leaves the rows
\* alone or takes some away.
LEMMA QuietNames ==
  ASSUME IInv, NEW t \in Txn, \A u \in Txn \ {t} : SameLocals(u), pc'[t] # "commit",
         DOMAIN items' \subseteq DOMAIN items, \A i \in DOMAIN items' : items'[i] = items[i]
  PROVE  NamesUnique' /\ NameIsTaken'
<1>1. NamesUnique'
  BY DEF IInv, NamesUnique
<1>2. ASSUME NEW u \in Txn, Naming(u)'
      PROVE  /\ \A i \in DOMAIN items' \ {Renamed(u)'} : items'[i].name # req'[u].patch.name
             /\ \A v \in Txn \ {u} : pc'[v] = "commit" =>
                  \A i \in DOMAIN written'[v] : written'[v][i].name # req'[u].patch.name
  <2>1. u # t /\ req'[u] = req[u] /\ Naming(u) /\ Renamed(u)' = Renamed(u)
    BY <1>2 DEF Naming, Renamed, SameLocals
  <2>2. /\ \A i \in DOMAIN items \ {Renamed(u)} : items[i].name # req[u].patch.name
        /\ \A v \in Txn \ {u} : pc[v] = "commit" =>
             \A i \in DOMAIN written[v] : written[v][i].name # req[u].patch.name
    BY <2>1 DEF IInv, NameIsTaken
  <2> QED BY <2>1, <2>2 DEF SameLocals
<1> QED BY <1>1, <1>2 DEF NameIsTaken

\* A step after which the transaction can commit, with the name if it was free.
LEMMA ReadyNames ==
  ASSUME IInv, TypeOK', LockedIsThere', NEW t \in Txn, LocalInv(t)',
         \A u \in Txn \ {t} : Keeps(u), pc'[t] = "commit", items' = items, req' = req,
         Naming(t)' => /\ Holders(items, List, req[t].patch.name) \ {Renamed(t)} = {}
                       /\ NameWriters(t) = {}
  PROVE  NamesUnique' /\ NameIsTaken'
<1>1. NamesUnique'
  BY DEF IInv, NamesUnique
<1>2. CommitsNames(t)'
  BY WrittenNamesNext DEF KeepNames
<1>3. \A u \in Txn : Renamed(u)' = Renamed(u)
  BY DEF Renamed
<1>4. \A n : \A i \in DOMAIN items : items[i].name = n => i \in Holders(items, List, n)
  BY TableFacts DEF Holders, IInv, TypeOK
<1>5. ASSUME NEW u \in Txn, Naming(u)'
      PROVE  /\ \A i \in DOMAIN items' \ {Renamed(u)'} : items'[i].name # req'[u].patch.name
             /\ \A v \in Txn \ {u} : pc'[v] = "commit" =>
                  \A i \in DOMAIN written'[v] : written'[v][i].name # req'[u].patch.name
  <2>1. CASE u = t
    <3>1. \A i \in DOMAIN items' \ {Renamed(u)'} : items'[i].name # req'[u].patch.name
      BY <1>3, <1>4, <1>5, <2>1
    <3>2. \A v \in Txn \ {t} : \A i \in DOMAIN written[v] : written[v][i].name # req[t].patch.name
      BY <1>5, <2>1 DEF NameWriters
    <3> QED BY <2>1, <3>1, <3>2 DEF Keeps, SameLocals
  <2>2. CASE u # t
    <3>1. Naming(u) /\ Keeps(u)
      BY <1>5, <2>2 DEF Naming, Keeps, SameLocals
    <3>2. /\ \A i \in DOMAIN items \ {Renamed(u)} : items[i].name # req[u].patch.name
          /\ \A v \in Txn \ {u} : pc[v] = "commit" =>
               \A i \in DOMAIN written[v] : written[v][i].name # req[u].patch.name
      BY <3>1 DEF IInv, NameIsTaken
    <3>3. ASSUME NEW i \in DOMAIN written'[t], written'[t][i].name = req[u].patch.name
          PROVE  FALSE
      <4>1. CASE i \in DOMAIN items /\ owner'[i] = t /\ written'[t][i].name = items[i].name
        <5>1. i = Renamed(u)
          BY <3>2, <3>3, <4>1
        <5>2. owner[i] = u /\ i \in ItemId
          BY <3>1, <4>1, <5>1, NamingWrites DEF IInv, TypeOK, IsTable
        <5> QED BY <2>2, <3>1, <4>1, <5>2 DEF Keeps
      <4>2. CASE Naming(t)' /\ written'[t][i].name = req[t].patch.name
        <5>1. /\ Renamed(u) \in DOMAIN written[u]
              /\ written[u][Renamed(u)].name = req[t].patch.name
          BY <3>1, <3>3, <4>2, NamingWrites
        <5>2. u \in NameWriters(t)
          BY <2>2, <5>1 DEF NameWriters
        <5> QED BY <4>2, <5>2
      <4> QED BY <1>2, <4>1, <4>2 DEF CommitsNames
    <3>4. \A v \in Txn \ {t} : pc'[v] = pc[v] /\ written'[v] = written[v]
      BY DEF Keeps, SameLocals
    <3> QED BY <1>3, <3>2, <3>3, <3>4
  <2> QED BY <2>1, <2>2
<1> QED BY <1>1, <1>5 DEF NameIsTaken

LEMMA CommitNames ==
  ASSUME IInv, NEW t \in Txn, Commit(t)
  PROVE  NamesUnique' /\ NameIsTaken'
<1>1. /\ pc[t] = "commit" /\ Finish(t, "none") /\ \A u \in Txn \ {t} : Keeps(u)
      /\ DOMAIN items' = DOMAIN written[t] \cup DOMAIN items
      /\ \A i \in DOMAIN written[t] : items'[i] = written[t][i]
      /\ \A i \in DOMAIN items \ DOMAIN written[t] : items'[i] = items[i]
  BY CommitEffect
<1>2. pc'[t] = "done" /\ req' = req
  BY <1>1, FinishTypes DEF IInv
<1>3. CommitsNames(t)
  BY <1>1, WrittenNames DEF IInv, KeepNames
<1>4. NamesUnique'
  <2>1. Naming(t) => \A i \in DOMAIN items \ {Renamed(t)} : items[i].name # req[t].patch.name
    BY DEF IInv, NameIsTaken
  <2>2. \A i \in DOMAIN items' :
          \/ i \in DOMAIN items /\ items'[i].name = items[i].name
          \/ Naming(t) /\ i = Renamed(t) /\ items'[i].name = req[t].patch.name
    BY <1>1, <1>3 DEF CommitsNames
  <2>3. \A i, j \in DOMAIN items : items[i].name = items[j].name => i = j
    BY DEF IInv, NamesUnique
  <2>4. ASSUME NEW i \in DOMAIN items', NEW j \in DOMAIN items', items'[i].name = items'[j].name
        PROVE  i = j
    BY <2>1, <2>2, <2>3, <2>4
  <2> QED BY <2>4 DEF NamesUnique
<1>5. ASSUME NEW u \in Txn, Naming(u)'
      PROVE  /\ \A i \in DOMAIN items' \ {Renamed(u)'} : items'[i].name # req'[u].patch.name
             /\ \A v \in Txn \ {u} : pc'[v] = "commit" =>
                  \A i \in DOMAIN written'[v] : written'[v][i].name # req'[u].patch.name
  <2>1. u # t /\ Naming(u) /\ Renamed(u)' = Renamed(u)
    BY <1>1, <1>2, <1>5 DEF Naming, Renamed, Keeps, SameLocals
  <2>2. /\ \A i \in DOMAIN items \ {Renamed(u)} : items[i].name # req[u].patch.name
        /\ \A v \in Txn \ {u} : pc[v] = "commit" =>
             \A i \in DOMAIN written[v] : written[v][i].name # req[u].patch.name
    BY <2>1 DEF IInv, NameIsTaken
  <2>3. \A v \in Txn \ {t} : pc'[v] = pc[v] /\ written'[v] = written[v]
    BY <1>1 DEF Keeps, SameLocals
  <2> QED BY <1>1, <1>2, <2>1, <2>2, <2>3
<1> QED BY <1>4, <1>5 DEF NameIsTaken

-----------------------------------------------------------------------------
\* The invariant

LEMMA Waits ==
  ASSUME NEW t \in Txn, Deadlocked(t)
  PROVE  pc[t] \notin {"idle", "done"}
<1>1. Blockers(t) # {}
  <2>1. {} \in SUBSET Txn
    OBVIOUS
  <2>2. Blockers(t) \subseteq {} /\ (\A u \in {} : Blockers(u) \subseteq {}) => t \in {}
    BY <2>1 DEF Deadlocked
  <2> QED BY <2>2
<1> QED BY <1>1 DEF Blockers

LEMMA QuietTables ==
  ASSUME IInv, TypeOK', NEW t \in Txn, \A u \in Txn \ {t} : Keeps(u),
         items' = items, pc[t] # "done",
         \A i \in ItemId : owner'[i] = t => i \in DOMAIN items,
         snap'[t] \subseteq snap[t] \cup {items}
  PROVE  LockedIsThere' /\ NewIsNew'
<1>1. LockedIsThere'
  <2> SUFFICES ASSUME NEW i \in ItemId, owner'[i] # Nil  PROVE i \in DOMAIN items
    BY DEF LockedIsThere
  <2>1. PICK u \in Txn : owner'[i] = u
    BY DEF TypeOK
  <2>2. CASE u = t
    BY <2>1, <2>2
  <2>3. CASE u # t
    BY <2>1, <2>3 DEF Keeps
  <2> QED BY <2>2, <2>3
<1>2. NewIsNew'
  <2> SUFFICES ASSUME NEW x \in Txn, pc'[x] # "done"
               PROVE  x \notin DOMAIN items /\ \A u \in Txn : \A T \in snap'[u] : x \notin DOMAIN T
    BY DEF NewIsNew
  <2>1. pc[x] # "done"
    BY DEF Keeps, SameLocals
  <2>2. x \notin DOMAIN items /\ \A u \in Txn : \A T \in snap[u] : x \notin DOMAIN T
    BY <2>1 DEF IInv, NewIsNew
  <2>3. \A u \in Txn \ {t} : snap'[u] = snap[u]
    BY DEF Keeps, SameLocals
  <2> QED BY <2>2, <2>3
<1> QED BY <1>1, <1>2

LEMMA OwnAndOthers ==
  ASSUME IInv, TypeOK', NEW t \in Txn, LocalInv(t)', \A u \in Txn \ {t} : Keeps(u),
         LockedIsThere', NewIsNew', NamesUnique', NameIsTaken'
  PROVE  IInv'
<1>1. \A u \in Txn \ {t} : LocalInv(u)'
  BY OthersKeepLocals
<1> QED BY <1>1 DEF IInv

LEMMA QuietStep ==
  ASSUME IInv, TypeOK', NEW t \in Txn, LocalInv(t)', \A u \in Txn \ {t} : Keeps(u),
         items' = items, pc[t] # "done", pc'[t] # "commit",
         \A i \in ItemId : owner'[i] = t => i \in DOMAIN items,
         snap'[t] \subseteq snap[t] \cup {items}
  PROVE  IInv'
<1>1. LockedIsThere' /\ NewIsNew'
  BY QuietTables
<1>2. NamesUnique' /\ NameIsTaken'
  <2>1. \A u \in Txn \ {t} : SameLocals(u)
    BY DEF Keeps
  <2> QED BY <2>1, QuietNames
<1> QED BY <1>1, <1>2, OwnAndOthers

LEMMA ReadyStep ==
  ASSUME IInv, TypeOK', NEW t \in Txn, LocalInv(t)', \A u \in Txn \ {t} : Keeps(u),
         items' = items, req' = req, pc[t] # "done", pc'[t] = "commit",
         \A i \in ItemId : owner'[i] = t => i \in DOMAIN items,
         snap'[t] \subseteq snap[t] \cup {items},
         Naming(t)' => /\ Holders(items, List, req[t].patch.name) \ {Renamed(t)} = {}
                       /\ NameWriters(t) = {}
  PROVE  IInv'
<1>1. LockedIsThere' /\ NewIsNew'
  BY QuietTables
<1>2. NamesUnique' /\ NameIsTaken'
  BY <1>1, ReadyNames
<1> QED BY <1>1, <1>2, OwnAndOthers

LEMMA RollbackStep ==
  ASSUME IInv, NEW t \in Txn, NEW a, Rollback(t, a), pc[t] \notin {"idle", "done"}
  PROVE  IInv'
<1>1. TypeOK' /\ \A u \in Txn \ {t} : Keeps(u)
  BY RollbackKeeps DEF IInv
<1>2. /\ pc'[t] = "done" /\ snap'[t] = {} /\ items' = items
      /\ \A i \in ItemId : owner'[i] = IF owner[i] = t THEN Nil ELSE owner[i]
  BY FinishTypes DEF Rollback, IInv
<1>3. LocalInv(t)'
  BY FinishLocal DEF Rollback
<1>4. \A i \in ItemId : owner'[i] # t
  BY <1>2, ItemTxnAssumption, RowAssumption
<1> QED BY <1>1, <1>2, <1>3, <1>4, QuietStep

\* A row that one's own transaction holds is there.
LEMMA MineIsThere ==
  ASSUME IInv, NEW t \in Txn, NEW i \in ItemId, owner[i] = t
  PROVE  i \in DOMAIN items
BY ItemTxnAssumption, RowAssumption DEF IInv, LockedIsThere

LEMMA InitIInv == Init => IInv
<1> SUFFICES ASSUME Init PROVE IInv
  OBVIOUS
<1>1. TypeOK
  BY InitTypeOK
<1>2. \A t \in Txn : pc[t] = "idle" /\ snap[t] = {}
      /\ todo[t] = <<>> /\ DOMAIN seen[t] = {} /\ DOMAIN written[t] = {}
  BY EmptyTable DEF Init
<1>3. LockedIsThere
  BY DEF Init, LockedIsThere
<1>4. NewIsNew
  <2>1. DOMAIN items \subseteq ItemId \ Txn
    BY ItemTxnAssumption DEF Init, IsTable
  <2> QED BY <1>2, <2>1 DEF NewIsNew
<1>5. NamesUnique
  BY ItemTxnAssumption DEF Init, NamesUnique
<1>6. NameIsTaken
  BY <1>2 DEF NameIsTaken, Naming
<1>7. ASSUME NEW t \in Txn PROVE LocalInv(t)
  <2>1. ~Updating(t)
    BY <1>2 DEF Updating, Updates
  <2>2. StageOK(t)
    BY <1>2, <2>1 DEF StageOK, Adds, Updates
  <2>3. /\ ReadIsHeld(t) /\ NamedAreRead(t) /\ PatchIsWritten(t) /\ OthersRenumbered(t)
        /\ AllRenumbered(t) /\ WantOfRoom(t)
    BY <2>1 DEF ReadIsHeld, NamedAreRead, PatchIsWritten, OthersRenumbered, AllRenumbered, WantOfRoom
  <2>4. ReadsNamed(t) /\ TodoInSnap(t) /\ AddIsReady(t)
    BY <1>2 DEF ReadsNamed, TodoInSnap, AddIsReady
  <2> QED BY <2>2, <2>3, <2>4 DEF LocalInv
<1> QED BY <1>1, <1>3, <1>4, <1>5, <1>6, <1>7 DEF IInv

LEMMA NextIInv == IInv /\ [Next]_vars => IInv'
<1> SUFFICES ASSUME IInv, [Next]_vars PROVE IInv'
  OBVIOUS
<1>0. \A t \in Txn : \A i \in ItemId : owner[i] = t => i \in DOMAIN items
  BY MineIsThere
<1>1. CASE UNCHANGED vars
  <2>1. TypeOK' /\ LockedIsThere' /\ NewIsNew'
    BY <1>1 DEF vars, reads, IInv, TypeOK, LockedIsThere, NewIsNew
  <2>2. NamesUnique' /\ NameIsTaken'
    BY <1>1 DEF vars, reads, IInv, NamesUnique, NameIsTaken, Naming, Renamed
  <2>3. \A u \in Txn : Keeps(u)
    BY <1>0, <1>1 DEF vars, reads, Keeps, SameLocals
  <2>4. \A u \in Txn : LocalInv(u)'
    BY <2>1, <2>3, OthersKeepLocals
  <2> QED BY <2>1, <2>2, <2>4 DEF IInv
<1>2. CASE Next
  <2>1. PICK t \in Txn : Step(t) \/ \E r \in Requests : Begin(t, r)
    BY <1>2 DEF Next
  <2>2. ASSUME NEW r \in Requests, Begin(t, r) PROVE IInv'
    <3>1. /\ TypeOK' /\ \A u \in Txn \ {t} : Keeps(u)
          /\ items' = items /\ owner' = owner /\ pc[t] = "idle"
          /\ snap'[t] = IF r.op = "add" THEN {items} ELSE {}
      BY <2>2, BeginEffect
    <3>2. LocalInv(t)'
      BY <2>2, BeginLocal
    <3>3. pc'[t] # "commit"
      <4>1. r.op \in {"add", "update", "delete"}
        BY ItemTxnAssumption
      <4> QED BY <2>2, <4>1, BeginEffect
    <3>4. snap'[t] \subseteq snap[t] \cup {items} /\ pc[t] # "done"
      BY <3>1
    <3> QED BY <1>0, <3>1, <3>2, <3>3, <3>4, QuietStep
  <2>3. CASE Insert(t)
    <3>1. /\ TypeOK' /\ \A u \in Txn \ {t} : Keeps(u)
          /\ UNCHANGED <<items, owner, req>> /\ pc[t] = "insert" /\ NameWriters(t) = {}
          /\ \/ /\ Holders(items, List, req[t].patch.name) = {} /\ pc'[t] = "commit"
                /\ UNCHANGED snap
             \/ pc'[t] = "select" /\ snap'[t] = {}
      BY <2>3, InsertEffect
    <3>2. LocalInv(t)'
      BY <2>3, InsertLocal
    <3>3. CASE pc'[t] = "commit"
      BY <1>0, <3>1, <3>2, <3>3, ReadyStep
    <3>4. CASE pc'[t] = "select"
      BY <1>0, <3>1, <3>2, <3>4, QuietStep
    <3> QED BY <3>1, <3>3, <3>4
  <2>4. CASE SelectHolder(t)
    <3>1. /\ TypeOK' /\ \A u \in Txn \ {t} : Keeps(u)
          /\ pc[t] = "select" /\ items' = items
          /\ \/ Rollback(t, "not_found")
             \/ pc'[t] = "revive" /\ UNCHANGED <<owner, snap>>
      BY <2>4, SelectHolderEffect
    <3>2. LocalInv(t)'
      BY <2>4, SelectHolderLocal
    <3>3. CASE Rollback(t, "not_found")
      BY <3>1, <3>3, RollbackStep
    <3>4. CASE pc'[t] = "revive" /\ UNCHANGED <<owner, snap>>
      BY <1>0, <3>1, <3>2, <3>4, QuietStep
    <3> QED BY <3>1, <3>3, <3>4
  <2>5. CASE Revive(t)
    <3>1. /\ TypeOK' /\ \A u \in Txn \ {t} : Keeps(u)
          /\ pc[t] = "revive" /\ items' = items
          /\ \/ Rollback(t, "not_found")
             \/ /\ Head(todo[t]) \in DOMAIN items
                /\ \A j \in ItemId : owner'[j] = IF j = Head(todo[t]) THEN t ELSE owner[j]
                /\ pc'[t] = "commit" /\ UNCHANGED <<req, reads, snap>>
      BY <2>5, ReviveEffect
    <3>2. LocalInv(t)'
      BY <2>5, ReviveLocal
    <3>3. CASE Rollback(t, "not_found")
      BY <3>1, <3>3, RollbackStep
    <3>4. CASE ~Rollback(t, "not_found")
      <4>1. ~Naming(t)'
        <5>1. req[t].op = "add" /\ todo[t] # <<>>
          BY <3>1 DEF IInv, LocalInv, StageOK, Adds
        <5> QED BY <3>1, <3>4, <5>1 DEF Naming, reads
      <4> QED BY <1>0, <3>1, <3>2, <3>4, <4>1, ReadyStep
    <3> QED BY <3>3, <3>4
  <2>6. CASE Read(t)
    <3>1. /\ TypeOK' /\ \A u \in Txn \ {t} : Keeps(u)
          /\ pc[t] = "read" /\ items' = items
          /\ \/ Rollback(t, "not_found")
             \/ /\ req[t].item \in DOMAIN items
                /\ \A j \in ItemId : owner'[j] = IF j = req[t].item THEN t ELSE owner[j]
                /\ pc'[t] \in {"write", "place"} /\ UNCHANGED snap
      BY <2>6, ReadEffect
    <3>2. LocalInv(t)'
      BY <2>6, ReadLocal
    <3>3. CASE Rollback(t, "not_found")
      BY <3>1, <3>3, RollbackStep
    <3>4. CASE ~Rollback(t, "not_found")
      BY <1>0, <3>1, <3>2, <3>4, QuietStep
    <3> QED BY <3>3, <3>4
  <2>7. CASE Neighbour(t)
    <3>1. /\ TypeOK' /\ \A u \in Txn \ {t} : Keeps(u)
          /\ pc[t] = "place" /\ items' = items
          /\ \/ Rollback(t, "not_found")
             \/ /\ Head(todo[t]) \in DOMAIN items
                /\ \A j \in ItemId : owner'[j] = IF j = Head(todo[t]) THEN t ELSE owner[j]
                /\ pc'[t] \in {"write", "place"} /\ UNCHANGED snap
      BY <2>7, NeighbourEffect
    <3>2. LocalInv(t)'
      BY <2>7, NeighbourLocal
    <3>3. CASE Rollback(t, "not_found")
      BY <3>1, <3>3, RollbackStep
    <3>4. CASE ~Rollback(t, "not_found")
      BY <1>0, <3>1, <3>2, <3>4, QuietStep
    <3> QED BY <3>3, <3>4
  <2>8. CASE Renormalizes(t)
    <3>1. /\ TypeOK' /\ \A u \in Txn \ {t} : Keeps(u)
          /\ pc[t] = "write"
          /\ UNCHANGED <<items, owner>> /\ pc'[t] = "renumber" /\ snap'[t] = {items}
      BY <2>8, RenormalizesEffect
    <3>2. LocalInv(t)'
      BY <2>8, RenormalizesLocal
    <3> QED BY <1>0, <3>1, <3>2, QuietStep
  <2>9. CASE RenormalizeRow(t)
    <3>1. /\ TypeOK' /\ \A u \in Txn \ {t} : Keeps(u)
          /\ pc[t] = "renumber"
          /\ UNCHANGED <<items, pc, snap>>
          /\ \/ UNCHANGED owner
             \/ /\ Head(todo[t]) \in DOMAIN items
                /\ \A j \in ItemId : owner'[j] = IF j = Head(todo[t]) THEN t ELSE owner[j]
      BY <2>9, RenormalizeRowEffect
    <3>2. LocalInv(t)'
      BY <2>9, RenormalizeRowLocal
    <3> QED BY <1>0, <3>1, <3>2, QuietStep
  <2>10. CASE Reread(t)
    <3>1. /\ TypeOK' /\ \A u \in Txn \ {t} : Keeps(u)
          /\ pc[t] = "renumber"
          /\ UNCHANGED <<items, owner, snap>> /\ pc'[t] = "again"
      BY <2>10, RereadEffect
    <3>2. LocalInv(t)'
      BY <2>10, RereadLocal
    <3> QED BY <1>0, <3>1, <3>2, QuietStep
  <2>11. CASE Write(t)
    <3>1. /\ TypeOK' /\ \A u \in Txn \ {t} : Keeps(u)
          /\ pc[t] \in {"again", "write"}
          /\ items' = items
          /\ \/ \E a : Rollback(t, a)
             \/ /\ pc'[t] = IF req[t].patch.name = Nil THEN "commit" ELSE "index"
                /\ UNCHANGED <<owner, req, snap>>
      BY <2>11, WriteEffect
    <3>2. LocalInv(t)'
      BY <2>11, WriteLocal
    <3>3. CASE \E a : Rollback(t, a)
      BY <3>1, <3>3, RollbackStep
    <3>4. CASE ~(\E a : Rollback(t, a)) /\ req[t].patch.name # Nil
      BY <1>0, <3>1, <3>2, <3>4, QuietStep
    <3>5. CASE ~(\E a : Rollback(t, a)) /\ req[t].patch.name = Nil
      <4>1. ~Naming(t)'
        BY <3>1, <3>5 DEF Naming
      <4> QED BY <1>0, <3>1, <3>2, <3>5, <4>1, ReadyStep
    <3> QED BY <3>3, <3>4, <3>5
  <2>12. CASE TakeName(t)
    <3>1. /\ TypeOK' /\ \A u \in Txn \ {t} : Keeps(u)
          /\ pc[t] = "index"
          /\ NameWriters(t) = {} /\ items' = items
          /\ \/ Rollback(t, "conflict")
             \/ /\ Holders(items, List, req[t].patch.name) \ {req[t].item} = {}
                /\ pc'[t] = "commit" /\ UNCHANGED <<owner, req, snap>>
      BY <2>12, TakeNameEffect
    <3>2. LocalInv(t)'
      BY <2>12, TakeNameLocal
    <3>3. CASE Rollback(t, "conflict")
      BY <3>1, <3>3, RollbackStep
    <3>4. CASE ~Rollback(t, "conflict")
      <4>1. Renamed(t) = req[t].item
        BY <3>1 DEF Renamed, IInv, LocalInv, StageOK, Updates
      <4> QED BY <1>0, <3>1, <3>2, <3>4, <4>1, ReadyStep
    <3> QED BY <3>3, <3>4
  <2>13. CASE Delete(t)
    <3>1. /\ TypeOK' /\ \A u \in Txn \ {t} : Keeps(u)
          /\ pc[t] = "delete"
          /\ \/ Rollback(t, "not_found")
             \/ /\ Finish(t, "none") /\ owner[req[t].item] \in {Nil, t}
                /\ DOMAIN items' = DOMAIN items \ {req[t].item}
                /\ \A i \in DOMAIN items' : items'[i] = items[i]
      BY <2>13, DeleteEffect
    <3>2. CASE Rollback(t, "not_found")
      BY <3>1, <3>2, RollbackStep
    <3>3. CASE ~Rollback(t, "not_found")
      <4>1. /\ pc'[t] = "done" /\ snap'[t] = {}
            /\ \A i \in ItemId : owner'[i] = IF owner[i] = t THEN Nil ELSE owner[i]
        BY <3>1, <3>3, FinishTypes DEF IInv
      <4>2. LocalInv(t)'
        BY <3>1, <3>3, FinishLocal
      <4>3. LockedIsThere'
        BY <3>1, <3>3, <4>1 DEF IInv, LockedIsThere
      <4>4. NewIsNew'
        BY <3>1, <3>3, <4>1 DEF IInv, NewIsNew, Keeps, SameLocals
      <4>5. NamesUnique' /\ NameIsTaken'
        BY <3>1, <3>3, <4>1, QuietNames DEF Keeps
      <4> QED BY <3>1, <4>2, <4>3, <4>4, <4>5, OwnAndOthers
    <3> QED BY <3>2, <3>3
  <2>14. CASE Commit(t)
    <3>1. /\ TypeOK' /\ \A u \in Txn \ {t} : Keeps(u)
          /\ pc[t] = "commit" /\ Finish(t, "none")
          /\ DOMAIN items' = DOMAIN written[t] \cup DOMAIN items
      BY <2>14, CommitEffect
    <3>2. /\ pc'[t] = "done" /\ snap'[t] = {}
          /\ \A i \in ItemId : owner'[i] = IF owner[i] = t THEN Nil ELSE owner[i]
      BY <3>1, FinishTypes DEF IInv
    <3>3. LocalInv(t)'
      BY <3>1, FinishLocal
    <3>4. LockedIsThere'
      BY <3>1, <3>2 DEF IInv, LockedIsThere
    <3>5. NewIsNew'
      <4>1. \A i \in DOMAIN items' : i \in DOMAIN items \/ i = t
        <5>1. DOMAIN written[t] \subseteq ItemId
          BY DEF IInv, TypeOK, IsTable
        <5> QED BY <1>0, <3>1, <5>1, WrittenIsHeld
      <4> QED BY <3>1, <3>2, <4>1 DEF IInv, NewIsNew, Keeps, SameLocals
    <3>6. NamesUnique' /\ NameIsTaken'
      BY <2>14, CommitNames
    <3> QED BY <3>1, <3>3, <3>4, <3>5, <3>6, OwnAndOthers
  <2>15. CASE Abort(t)
    BY <2>15, Waits, RollbackStep DEF Abort
  <2> QED BY <2>1, <2>2, <2>3, <2>4, <2>5, <2>6, <2>7, <2>8, <2>9, <2>10, <2>11, <2>12,
             <2>13, <2>14, <2>15 DEF Step
<1> QED BY <1>1, <1>2

\* What a lock, the unique index and a renumbering are worth holds throughout.
THEOREM Inductive == Spec => []IInv
BY InitIInv, NextIInv, PTL DEF Spec

\* Tables hold rows of the list, and statements lock rows one after the other.
THEOREM TypeCorrect == Spec => []TypeOK
<1>1. IInv => TypeOK
  BY DEF IInv
<1> QED BY <1>1, Inductive, PTL

\* No two items of a list ever have one name, whatever adds and renames race.
THEOREM NamesStayUnique == Spec => []NamesUnique
<1>1. IInv => NamesUnique
  BY DEF IInv
<1> QED BY <1>1, Inductive, PTL

-----------------------------------------------------------------------------
\* Where a reorder lands

\* A position that is computed is strictly between those of the rows named.
LEMMA ComputedBetween ==
  ASSUME NEW T, IsTable(T, ItemId, Row), NEW m \in ItemId, NEW r \in Targets(ItemId),
         TryComputePosition(T, List, m, r).err = "none"
  PROVE  LET pos == TryComputePosition(T, List, m, r).pos IN
         /\ r.before = Nil /\ r.after # Nil => T[r.after].pos < pos
         /\ r.after = Nil /\ r.before # Nil => pos < T[r.before].pos
         /\ r.after # Nil /\ r.before # Nil =>
              \/ T[r.after].pos < pos /\ pos < T[r.before].pos
              \/ T[r.before].pos < pos /\ pos < T[r.after].pos
<1> DEFINE above == r.after
           below == r.before
           try == TryComputePosition(T, List, m, r)
<1>1. \A n \in Named(m, r) : n \in DOMAIN T
  <2>1. ~\E n \in Named(m, r) : ~InList(T, List, n)
    BY DEF TryComputePosition
  <2> QED BY <2>1, TableFacts DEF InList
<1>2. \A n \in DOMAIN T : T[n].pos \in Int
  BY TableFacts DEF Row
<1>3. PositionGap \in Int /\ PositionGap > 0
  BY GapAssumption
<1>4. CASE above # Nil /\ below = Nil
  <2>1. above \in DOMAIN T
    BY <1>1, <1>4 DEF Named
  <2>2. try.pos = T[above].pos + PositionGap
    BY <1>4 DEF TryComputePosition
  <2> QED BY <1>2, <1>3, <1>4, <2>1, <2>2
<1>5. CASE above = Nil /\ below # Nil
  <2>1. below \in DOMAIN T
    BY <1>1, <1>5 DEF Named
  <2>2. try.pos = T[below].pos - PositionGap
    BY <1>5 DEF TryComputePosition
  <2> QED BY <1>2, <1>3, <1>5, <2>1, <2>2
<1>6. CASE above # Nil /\ below # Nil
  <2> DEFINE a == T[above].pos
             b == T[below].pos
  <2>1. above \in DOMAIN T /\ below \in DOMAIN T
    BY <1>1, <1>6 DEF Named
  <2>2. a \in Int /\ b \in Int
    BY <1>2, <2>1
  <2>3. /\ try.pos = Midpoint(a, b)
        /\ ~TooClose(Midpoint(a, b), a) /\ ~TooClose(Midpoint(a, b), b)
    BY <1>6 DEF TryComputePosition
  <2> HIDE DEF a, b, try
  <2>4. Midpoint(a, b) = Midpoint(b, a)
    BY <2>2 DEF Midpoint
  <2>5. \/ a < try.pos /\ try.pos < b
        \/ b < try.pos /\ try.pos < a
    <3>1. CASE a <= b
      BY <2>2, <2>3, <3>1, MidpointBetween
    <3>2. CASE b <= a
      BY <2>2, <2>3, <2>4, <3>2, MidpointBetween
    <3> QED BY <2>2, <3>1, <3>2
  <2> QED BY <1>6, <2>5 DEF a, b, try
<1>7. CASE above = Nil /\ below = Nil
  BY <1>7
<1> QED BY <1>4, <1>5, <1>6, <1>7

\* A reorder commits the positions that it has read, and its own.
LEMMA CommitsWhatIsRead ==
  ASSUME IInv, NEW t \in Txn, Commit(t), req[t].op = "update", target(t) # Nil
  PROVE  /\ req[t].item \in DOMAIN items' /\ items'[req[t].item].pos = Placed(t).pos
         /\ \A i \in Named(req[t].item, target(t)) \ {req[t].item} :
              i \in DOMAIN seen[t] /\ i \in DOMAIN items' /\ items'[i].pos = seen[t][i].pos
<1> DEFINE m == req[t].item
<1>1. /\ pc[t] = "commit"
      /\ DOMAIN items' = DOMAIN written[t] \cup DOMAIN items
      /\ \A i \in DOMAIN written[t] : items'[i] = written[t][i]
      /\ \A i \in DOMAIN items \ DOMAIN written[t] : items'[i] = items[i]
  BY CommitEffect
<1>2. Updating(t)
  BY <1>1 DEF Updating
<1>3. m \in DOMAIN written[t]
      /\ written[t][m] = PatchedRow(seen[t][m], req[t].patch, Placed(t).pos)
  BY <1>1, <1>2 DEF IInv, LocalInv, PatchIsWritten
<1>4. items'[m].pos = Placed(t).pos
  <2>1. req[t].patch \in Patches(Name, ItemId)
    BY <1>1, RequestFacts DEF IInv, LocalInv, StageOK
  <2>2. seen[t][m] \in Row
    <3>1. m \in DOMAIN seen[t] /\ IsTable(seen[t], ItemId, Row)
      BY <1>1, <1>2 DEF IInv, LocalInv, ReadIsHeld, TypeOK
    <3> QED BY <3>1, TableFacts
  <2>3. Placed(t).pos \in Int
    BY <1>1, <1>2, PlacedType DEF IInv
  <2> DEFINE row == seen[t][m]
             p == req[t].patch
             pos == Placed(t).pos
  <2>4. row \in Row /\ p \in Patches(Name, ItemId) /\ pos \in Int
    BY <2>1, <2>2, <2>3
  <2>5. items'[m] = PatchedRow(row, p, pos)
    BY <1>1, <1>3
  <2> HIDE DEF row, p, pos, m
  <2>6. items'[m].pos = pos
    BY <2>4, <2>5, PatchedRowType
  <2> QED BY <2>6 DEF pos, m
<1>5. ASSUME NEW i \in Named(m, target(t)) \ {m}
      PROVE  i \in DOMAIN seen[t] /\ i \in DOMAIN items' /\ items'[i].pos = seen[t][i].pos
  <2>1. i \in DOMAIN seen[t]
    BY <1>1, <1>2 DEF IInv, LocalInv, NamedAreRead
  <2>2. /\ owner[i] = t /\ (snap[t] # {} => i \in DOMAIN written[t])
        /\ (snap[t] = {} => seen[t][i] = items[i])
        /\ \A T \in snap[t] : seen[t][i].pos = Renormalize(T, List)[i].pos
    <3>1. ReadIsHeld(t)
      BY DEF IInv, LocalInv
    <3> QED BY <1>1, <1>2, <2>1, <3>1, ReadFacts
  <2>3. i \in DOMAIN items
    <3>1. i \in ItemId
      BY <2>1 DEF IInv, TypeOK, IsTable
    <3> QED BY <2>2, <3>1, MineIsThere
  <2>4. CASE snap[t] = {}
    <3>1. i \notin DOMAIN written[t]
      BY <1>2, <2>4 DEF IInv, LocalInv, OthersRenumbered
    <3> QED BY <1>1, <2>1, <2>2, <2>3, <2>4, <3>1
  <2>5. CASE snap[t] # {}
    <3>1. PICK T \in snap[t] : TRUE
      BY <2>5
    <3>2. i \in DOMAIN written[t]
      BY <2>2, <2>5
    <3>3. written[t][i].pos = Renormalize(T, List)[i].pos
      <4>1. OthersRenumbered(t)
        BY DEF IInv, LocalInv
      <4> QED BY <1>2, <3>1, <3>2, <4>1 DEF OthersRenumbered
    <3> QED BY <1>1, <2>1, <2>2, <2>3, <3>1, <3>2, <3>3
  <2> QED BY <2>4, <2>5
<1> QED BY <1>1, <1>3, <1>4, <1>5

\* Who ends is who steps.
LEMMA WhoEnds ==
  ASSUME IInv, NEW t \in Txn, [Next]_vars, Ends(t)
  PROVE  Step(t) /\ pc[t] # "idle"
<1>1. pc'[t] # pc[t]
  BY DEF Ends
<1>2. Next
  BY <1>1 DEF vars
<1>3. PICK u \in Txn : Step(u) \/ \E r \in Requests : Begin(u, r)
  BY <1>2 DEF Next
<1>4. ASSUME NEW r \in Requests, Begin(u, r) PROVE FALSE
  <2>1. /\ pc'[u] = CASE r.op = "add" -> "insert" [] r.op = "update" -> "read"
                      [] r.op = "delete" -> "delete"
        /\ \A v \in Txn \ {u} : Keeps(v)
    BY <1>4, BeginEffect
  <2>2. r.op \in {"add", "update", "delete"}
    BY ItemTxnAssumption
  <2>3. pc'[u] # "done"
    BY <2>1, <2>2
  <2> QED BY <1>1, <2>1, <2>3 DEF Ends, Keeps, SameLocals
<1>5. Step(u)
  BY <1>3, <1>4
<1>6. \A v \in Txn \ {u} : pc'[v] = pc[v]
  <2>1. CASE Insert(u)
    BY <2>1, InsertEffect DEF Keeps, SameLocals
  <2>2. CASE SelectHolder(u)
    BY <2>2, SelectHolderEffect DEF Keeps, SameLocals
  <2>3. CASE Revive(u)
    BY <2>3, ReviveEffect DEF Keeps, SameLocals
  <2>4. CASE Read(u)
    BY <2>4, ReadEffect DEF Keeps, SameLocals
  <2>5. CASE Neighbour(u)
    BY <2>5, NeighbourEffect DEF Keeps, SameLocals
  <2>6. CASE Renormalizes(u)
    BY <2>6, RenormalizesEffect DEF Keeps, SameLocals
  <2>7. CASE RenormalizeRow(u)
    BY <2>7, RenormalizeRowEffect DEF Keeps, SameLocals
  <2>8. CASE Reread(u)
    BY <2>8, RereadEffect DEF Keeps, SameLocals
  <2>9. CASE Write(u)
    BY <2>9, WriteEffect DEF Keeps, SameLocals
  <2>10. CASE TakeName(u)
    BY <2>10, TakeNameEffect DEF Keeps, SameLocals
  <2>11. CASE Delete(u)
    BY <2>11, DeleteEffect, ZenonT(60) DEF Keeps, SameLocals
  <2>12. CASE Commit(u)
    BY <2>12, CommitEffect DEF Keeps, SameLocals
  <2>13. CASE Abort(u)
    BY <2>13, RollbackKeeps DEF Abort, IInv, Keeps, SameLocals
  <2> QED BY <1>5, <2>1, <2>2, <2>3, <2>4, <2>5, <2>6, <2>7, <2>8, <2>9, <2>10, <2>11,
             <2>12, <2>13 DEF Step
<1>7. u = t
  BY <1>1, <1>6
<1>8. pc[t] # "idle"
  <2>1. CASE Abort(t)
    BY <2>1, Waits DEF Abort
  <2>2. CASE ~Abort(t)
    BY <1>5, <1>7, <2>2 DEF Step, Insert, SelectHolder, Revive, Read, Neighbour, Renormalizes,
       RenormalizeRow, Reread, Write, TakeName, Delete, Commit, At
  <2> QED BY <2>1, <2>2
<1> QED BY <1>5, <1>7, <1>8

-----------------------------------------------------------------------------
\* Answers

AnswerOK == DOMAIN answer = Txn

LEMMA AnswersThere == Spec => []AnswerOK
<1>1. Init => AnswerOK
  BY DEF Init, AnswerOK
<1>2. AnswerOK /\ [Next]_vars => AnswerOK'
  <2> SUFFICES ASSUME AnswerOK, Next PROVE AnswerOK'
    BY DEF vars, AnswerOK
  <2>1. PICK t \in Txn : Step(t) \/ \E r \in Requests : Begin(t, r)
    BY DEF Next
  <2>2. CASE UNCHANGED answer
    BY <2>2 DEF AnswerOK
  <2>3. CASE \E a : Finish(t, a)
    BY <2>3 DEF Finish, AnswerOK
  <2>4. CASE \E a : Rollback(t, a)
    BY <2>3, <2>4 DEF Rollback
  <2>5. CASE \E r \in Requests : Begin(t, r)
    BY <2>2, <2>5 DEF Begin
  <2>6. CASE Insert(t) \/ Renormalizes(t) \/ RenormalizeRow(t) \/ Reread(t)
    BY <2>2, <2>6 DEF Insert, Renormalizes, RenormalizeRow, Reread
  <2>7. CASE SelectHolder(t)
    BY <2>2, <2>4, <2>7 DEF SelectHolder
  <2>8. CASE Revive(t)
    BY <2>2, <2>4, <2>8 DEF Revive
  <2>9. CASE Read(t)
    BY <2>2, <2>4, <2>9 DEF Read
  <2>10. CASE Neighbour(t)
    BY <2>2, <2>4, <2>10 DEF Neighbour
  <2>11. CASE Write(t)
    BY <2>2, <2>4, <2>11 DEF Write
  <2>12. CASE TakeName(t)
    BY <2>2, <2>4, <2>12 DEF TakeName
  <2>13. CASE Delete(t)
    BY <2>3, <2>4, <2>13 DEF Delete
  <2>14. CASE Commit(t)
    BY <2>3, <2>14 DEF Commit
  <2>15. CASE Abort(t)
    BY <2>4, <2>15 DEF Abort
  <2> QED BY <2>1, <2>5, <2>6, <2>7, <2>8, <2>9, <2>10, <2>11, <2>12, <2>13, <2>14, <2>15 DEF Step
<1> QED BY <1>1, <1>2, PTL DEF Spec

LEMMA FinishAnswers ==
  ASSUME AnswerOK, NEW t \in Txn, NEW a, Finish(t, a)
  PROVE  answer'[t] = a
BY DEF Finish, AnswerOK

\* An update that is answered without an error commits.
LEMMA UpdateCommits ==
  ASSUME IInv, AnswerOK, NEW t \in Txn, [Next]_vars, Ends(t),
         answer'[t] = "none", req[t].op = "update"
  PROVE  Commit(t)
<1>1. Step(t)
  BY WhoEnds
<1>2. ASSUME NEW a, Rollback(t, a) PROVE a = "none"
  BY <1>2, FinishAnswers DEF Rollback
<1>3. pc'[t] = "done"
  BY DEF Ends
<1>4. CASE Insert(t) \/ SelectHolder(t) \/ Revive(t) \/ Delete(t)
  <2>1. pc[t] \in Adds \cup {"delete"}
    BY <1>4, AtIs DEF Insert, SelectHolder, Revive, Delete, Adds
  <2> QED BY <2>1 DEF IInv, LocalInv, StageOK
<1>5. CASE Renormalizes(t) \/ RenormalizeRow(t) \/ Reread(t)
  <2>1. CASE Renormalizes(t)
    BY <1>3, <2>1, RenormalizesEffect
  <2>2. CASE RenormalizeRow(t)
    BY <1>3, <2>2, RenormalizeRowEffect
  <2>3. CASE Reread(t)
    BY <1>3, <2>3, RereadEffect
  <2> QED BY <1>5, <2>1, <2>2, <2>3
<1>6. CASE Read(t)
  BY <1>2, <1>3, <1>6, ReadEffect
<1>7. CASE Neighbour(t)
  BY <1>2, <1>3, <1>7, NeighbourEffect
<1>8. CASE Write(t)
  <2>1. CASE Placed(t).err # "none"
    <3>1. Rollback(t, IF Placed(t).err = "exhausted" THEN "internal" ELSE Placed(t).err)
      BY <1>8, <2>1 DEF Write
    <3> QED BY <1>2, <2>1, <3>1
  <2>2. CASE Placed(t).err = "none"
    <3>1. Goes(t, IF req[t].patch.name = Nil THEN "commit" ELSE "index")
      BY <1>8, <2>2 DEF Write
    <3> QED BY <1>3, <3>1 DEF Goes, IInv, TypeOK
  <2> QED BY <2>1, <2>2
<1>9. CASE TakeName(t)
  BY <1>2, <1>3, <1>9, TakeNameEffect
<1>10. CASE Abort(t)
  BY <1>2, <1>10 DEF Abort
<1> QED BY <1>1, <1>4, <1>5, <1>6, <1>7, <1>8, <1>9, <1>10 DEF Step

LEMMA CommitLands ==
  ASSUME IInv, NEW t \in Txn, Commit(t), req[t].op = "update", target(t) # Nil,
         req[t].item \notin {target(t).after, target(t).before}
  PROVE  Lands(t)
<1> DEFINE m == req[t].item
           r == target(t)
           S == seen[t]
           p(i) == items'[i].pos
<1>1. pc[t] = "commit" /\ Updating(t)
  BY AtIs DEF Commit, Updating
<1>2. m \in ItemId /\ r \in Targets(ItemId)
  BY <1>1, RequestFacts DEF IInv, LocalInv, StageOK
<1>3. IsTable(S, ItemId, Row)
  BY DEF IInv, TypeOK
<1>4. /\ Placed(t) = TryComputePosition(S, List, m, r)
      /\ Placed(t).err = "none"
  BY <1>1 DEF Placed, IInv, LocalInv, PatchIsWritten
<1>5. /\ m \in DOMAIN items' /\ p(m) = Placed(t).pos
      /\ \A i \in Named(m, r) \ {m} : i \in DOMAIN items' /\ p(i) = S[i].pos
  BY CommitsWhatIsRead
<1>6. /\ r.after # Nil => r.after \in Named(m, r) \ {m}
      /\ r.before # Nil => r.before \in Named(m, r) \ {m}
  BY DEF Named
<1>7. {m, r.after, r.before} \ {Nil} \subseteq DOMAIN items'
  BY <1>5, <1>6
<1>8. /\ r.after # Nil => p(r.after) = S[r.after].pos
      /\ r.before # Nil => p(r.before) = S[r.before].pos
  BY <1>5, <1>6
<1> HIDE DEF S
<1>9. LET pos == TryComputePosition(S, List, m, r).pos IN
      /\ r.before = Nil /\ r.after # Nil => S[r.after].pos < pos
      /\ r.after = Nil /\ r.before # Nil => pos < S[r.before].pos
      /\ r.after # Nil /\ r.before # Nil =>
           \/ S[r.after].pos < pos /\ pos < S[r.before].pos
           \/ S[r.before].pos < pos /\ pos < S[r.after].pos
  BY <1>2, <1>3, <1>4, ComputedBetween
<1>10. TryComputePosition(S, List, m, r).pos = p(m)
  BY <1>4, <1>5
<1> HIDE DEF m, r, p
<1>11. /\ r.before = Nil /\ r.after # Nil => p(r.after) < p(m)
       /\ r.after = Nil /\ r.before # Nil => p(m) < p(r.before)
       /\ r.after # Nil /\ r.before # Nil =>
            \/ p(r.after) < p(m) /\ p(m) < p(r.before)
            \/ p(r.before) < p(m) /\ p(m) < p(r.after)
  BY <1>8, <1>9, <1>10
<1> QED BY <1>7, <1>11 DEF Lands, m, r, p

\* However many rows are moved and renumbered meanwhile, a reorder that is
\* answered leaves its row strictly between the neighbours it named.
THEOREM DropsLand == Spec => LandsBetween
<1>1. IInv /\ AnswerOK /\ [Next]_vars => [\A t \in Txn : Lands(t)]_vars
  <2> SUFFICES ASSUME IInv, AnswerOK, [Next]_vars, NEW t \in Txn PROVE Lands(t)
    OBVIOUS
  <2>1. CASE Ends(t) /\ answer'[t] = "none" /\ req[t].op = "update" /\ target(t) # Nil
              /\ req[t].item \notin {target(t).after, target(t).before}
    BY <2>1, UpdateCommits, CommitLands
  <2>2. CASE ~(Ends(t) /\ answer'[t] = "none" /\ req[t].op = "update" /\ target(t) # Nil
              /\ req[t].item \notin {target(t).after, target(t).before})
    BY <2>2 DEF Lands
  <2> QED BY <2>1, <2>2
<1> QED BY <1>1, Inductive, AnswersThere, PTL DEF LandsBetween, Spec

-----------------------------------------------------------------------------
\* Alone

\* Tables that differ in times, and in positions, only.
LEMMA SameRows ==
  ASSUME NEW A, NEW B, IsTable(A, ItemId, Row), IsTable(B, ItemId, Row), DOMAIN A = DOMAIN B,
         \A i \in DOMAIN A : /\ A[i].name = B[i].name /\ A[i].checked = B[i].checked
                             /\ A[i].note = B[i].note
  PROVE  /\ Unplaced(A) = Unplaced(B)
         /\ (\A i \in DOMAIN A : A[i].pos = B[i].pos) => Unborn(A) = Unborn(B)
<1>1. \A i \in DOMAIN A : A[i] \in Row /\ B[i] \in Row
  BY TableFacts
<1>2. ASSUME NEW i \in DOMAIN A
      PROVE  [A[i] EXCEPT !.born = 0, !.pos = 0] = [B[i] EXCEPT !.born = 0, !.pos = 0]
  <2> DEFINE a == A[i]
             b == B[i]
  <2>1. a \in Row /\ b \in Row /\ a.name = b.name /\ a.checked = b.checked /\ a.note = b.note
    BY <1>1
  <2> HIDE DEF a, b
  <2>2. [a EXCEPT !.born = 0, !.pos = 0] = [b EXCEPT !.born = 0, !.pos = 0]
    BY <2>1 DEF Row
  <2> QED BY <2>2 DEF a, b
<1>3. Unplaced(A) = Unplaced(B)
  BY <1>2 DEF Unplaced
<1>4. ASSUME \A i \in DOMAIN A : A[i].pos = B[i].pos PROVE Unborn(A) = Unborn(B)
  <2>1. \A i \in DOMAIN A : [A[i] EXCEPT !.born = 0] = [B[i] EXCEPT !.born = 0]
    BY <1>1, <1>4 DEF Row
  <2> QED BY <2>1 DEF Unborn
<1> QED BY <1>3, <1>4

LEMMA RenormalizedTable ==
  ASSUME NEW T, IsTable(T, ItemId, Row)
  PROVE  /\ IsTable(Renormalize(T, List), ItemId, Row)
         /\ DOMAIN Renormalize(T, List) = DOMAIN T
         /\ \A i \in DOMAIN T : /\ Renormalize(T, List)[i].name = T[i].name
                                /\ Renormalize(T, List)[i].checked = T[i].checked
                                /\ Renormalize(T, List)[i].note = T[i].note
<1> DEFINE R == Renormalize(T, List)
<1>1. \A i \in DOMAIN T : T[i] \in Row
  BY TableFacts
<1>2. DOMAIN R = DOMAIN T /\ \A i \in DOMAIN T : R[i] = [T[i] EXCEPT !.pos = RowNumber(T, List, i) * PositionGap]
  BY <1>1 DEF Renormalize, Row
<1>3. \A i \in DOMAIN T : RowNumber(T, List, i) * PositionGap \in Int
  <2>1. \A i : RowNumber(T, List, i) \in Nat
    BY TableFacts, RowNumbersFollowOrder
  <2> QED BY <2>1, GapAssumption
<1>4. \A i \in DOMAIN T : R[i] \in Row /\ R[i].name = T[i].name /\ R[i].checked = T[i].checked
                          /\ R[i].note = T[i].note
  <2> TAKE i \in DOMAIN T
  <2> DEFINE row == T[i]
             pos == RowNumber(T, List, i) * PositionGap
  <2>1. row \in Row /\ pos \in Int /\ R[i] = [row EXCEPT !.pos = pos]
    BY <1>1, <1>2, <1>3
  <2> HIDE DEF row, pos, R
  <2>2. R[i] \in Row /\ R[i].name = row.name /\ R[i].checked = row.checked
        /\ R[i].note = row.note
    BY <2>1 DEF Row
  <2> QED BY <2>2 DEF row
<1>5. R = [i \in DOMAIN T |-> R[i]]
  BY DEF Renormalize
<1> HIDE DEF R
<1>6. IsTable(R, ItemId, Row)
  BY <1>2, <1>4, <1>5 DEF IsTable
<1> QED BY <1>2, <1>4, <1>6 DEF R

\* What a computation can answer.
LEMMA TryAnswers ==
  ASSUME NEW T, IsTable(T, ItemId, Row), NEW m, NEW r,
         \A i \in Named(m, r) : i \in DOMAIN T
  PROVE  /\ TryComputePosition(T, List, m, r).err \in {"none", "exhausted"}
         /\ r.after # Nil /\ r.after = r.before =>
              TryComputePosition(T, List, m, r).err = "exhausted"
<1>1. \A i \in Named(m, r) : InList(T, List, i)
  BY TableFacts DEF InList
<1>2. TryComputePosition(T, List, m, r).err \in {"none", "exhausted"}
  BY <1>1 DEF TryComputePosition
<1>3. ASSUME r.after # Nil, r.after = r.before
      PROVE  TryComputePosition(T, List, m, r).err = "exhausted"
  <2> DEFINE a == T[r.after].pos
  <2>1. r.after \in DOMAIN T
    BY <1>3 DEF Named
  <2>2. a \in Int
    BY <2>1, TableFacts DEF Row
  <2>3. TooClose(Midpoint(a, a), a)
    <3> HIDE DEF a
    <3> QED BY <2>2, GapAssumption DEF TooClose, Midpoint
  <2> QED BY <1>1, <1>3, <2>3 DEF TryComputePosition
<1> QED BY <1>2, <1>3

\* A position computed after a renormalization is that of its snapshot's.
LEMMA PlacedOnSnapshot ==
  ASSUME IInv, NEW t \in Txn, Updating(t), pc[t] \in {"again", "index", "commit"},
         target(t) # Nil, NEW T \in snap[t]
  PROVE  /\ Placed(t) = TryComputePosition(Renormalize(T, List), List, req[t].item, target(t))
         /\ IsTable(T, ItemId, Row)
         /\ \A i \in Named(req[t].item, target(t)) : i \in DOMAIN T
<1> DEFINE S == seen[t]
           R == Renormalize(T, List)
<1>1. IsTable(T, ItemId, Row) /\ IsTable(S, ItemId, Row)
  BY DEF IInv, TypeOK
<1>2. IsTable(R, ItemId, Row) /\ DOMAIN R = DOMAIN T
  BY <1>1, RenormalizedTable
<1>3. \A i \in Named(req[t].item, target(t)) :
        i \in DOMAIN S /\ i \in DOMAIN T /\ S[i].pos = R[i].pos
  <2>1. \A i \in Named(req[t].item, target(t)) : i \in DOMAIN S
    BY DEF IInv, LocalInv, NamedAreRead
  <2>2. ReadIsHeld(t)
    BY DEF IInv, LocalInv
  <2> QED BY <2>1, <2>2, ReadFacts
<1>4. Placed(t) = TryComputePosition(S, List, req[t].item, target(t))
  BY DEF Placed
<1> HIDE DEF S, R
<1>5. TryComputePosition(S, List, req[t].item, target(t))
        = TryComputePosition(R, List, req[t].item, target(t))
  BY <1>1, <1>2, <1>3, TrySame
<1> QED BY <1>1, <1>3, <1>4, <1>5 DEF R

\* The rows that a reorder names are there.
LEMMA NamedAreThere ==
  ASSUME IInv, NEW t \in Txn, Updating(t), pc[t] \notin {"read", "place"}, target(t) # Nil
  PROVE  \A i \in Named(req[t].item, target(t)) : i \in DOMAIN seen[t] /\ i \in DOMAIN items
<1>1. \A i \in Named(req[t].item, target(t)) : i \in DOMAIN seen[t]
  BY DEF IInv, LocalInv, NamedAreRead
<1>2. DOMAIN seen[t] \subseteq ItemId
  BY DEF IInv, TypeOK, IsTable
<1>3. \A i \in DOMAIN seen[t] : owner[i] = t
  BY ReadFacts DEF IInv, LocalInv
<1> QED BY <1>1, <1>2, <1>3, MineIsThere

\* What a transaction has placed, it would have placed alone, up to the positions
\* of a table that others have changed since.
LEMMA PlacedAlone ==
  ASSUME IInv, NEW t \in Txn, Updating(t), pc[t] \in {"index", "commit"}
  PROVE  LET placed == IF target(t) = Nil
                       THEN [err |-> "none", pos |-> items[req[t].item].pos, items |-> items]
                       ELSE ComputePosition(items, List, req[t].item, target(t))
         IN  /\ placed.err = "none" /\ placed.pos \in Int
             /\ placed.items = IF snap[t] = {} THEN items ELSE Renormalize(items, List)
             /\ snap[t] \subseteq {items} => placed.pos = Placed(t).pos
<1> DEFINE m == req[t].item
           r == target(t)
           R == Renormalize(items, List)
<1>1. IsTable(items, ItemId, Row) /\ IsTable(R, ItemId, Row) /\ DOMAIN R = DOMAIN items
  BY RenormalizedTable DEF IInv, TypeOK
<1>2. Placed(t).err = "none"
  BY DEF IInv, LocalInv, PatchIsWritten
<1>3. CASE r = Nil
  <2>1. snap[t] = {}
    BY <1>3 DEF IInv, LocalInv, WantOfRoom
  <2>2. m \in DOMAIN seen[t] /\ ReadIsHeld(t)
    BY DEF IInv, LocalInv, ReadIsHeld
  <2>3. m \in ItemId /\ owner[m] = t /\ seen[t][m] = items[m]
    <3>1. m \in ItemId
      BY <2>2 DEF IInv, TypeOK, IsTable
    <3> QED BY <2>1, <2>2, <3>1, ReadFacts
  <2>4. items[m].pos \in Int
    BY <1>1, <2>3, MineIsThere, TableFacts DEF Row
  <2>5. Placed(t).pos = items[m].pos
    BY <1>3, <2>3 DEF Placed
  <2> QED BY <1>3, <2>1, <2>4, <2>5
<1>4. CASE r # Nil /\ snap[t] = {}
  <2>1. Placed(t) = TryComputePosition(items, List, m, r)
    BY <1>4, PlacedOnItems
  <2>2. Placed(t).pos \in Int
    BY PlacedType DEF IInv
  <2> HIDE DEF m, r
  <2>3. ComputePosition(items, List, m, r)
          = [err |-> Placed(t).err, pos |-> Placed(t).pos, items |-> items]
    BY <1>2, <2>1 DEF ComputePosition
  <2> QED BY <1>2, <1>4, <2>2, <2>3 DEF m, r
<1>5. CASE r # Nil /\ snap[t] # {}
  <2>1. TryComputePosition(items, List, m, r).err = "exhausted"
    BY <1>5 DEF IInv, LocalInv, WantOfRoom
  <2>2. \A i \in Named(m, r) : i \in DOMAIN items
    BY <1>5, NamedAreThere
  <2>3. PICK T \in snap[t] : TRUE
    BY <1>5
  <2>4. /\ Placed(t) = TryComputePosition(Renormalize(T, List), List, m, r)
        /\ IsTable(T, ItemId, Row) /\ \A i \in Named(m, r) : i \in DOMAIN T
    BY <1>5, PlacedOnSnapshot
  <2>5. r.after = Nil \/ r.after # r.before
    <3> DEFINE P == Renormalize(T, List)
    <3>1. IsTable(P, ItemId, Row) /\ \A i \in Named(m, r) : i \in DOMAIN P
      BY <2>4, RenormalizedTable
    <3>2. TryComputePosition(P, List, m, r).err = "none"
      BY <1>2, <2>4
    <3> HIDE DEF P, m, r
    <3> QED BY <3>1, <3>2, TryAnswers
  <2>6. TryComputePosition(R, List, m, r).err = "none"
    <3>1. TryComputePosition(R, List, m, r).err # "exhausted"
      BY <1>1, <2>5, TableFacts, RenormalizeMakesRoom
    <3> HIDE DEF R, m, r
    <3> QED BY <1>1, <2>2, <3>1, TryAnswers
  <2>7. TryComputePosition(R, List, m, r).pos \in Int
    <3> HIDE DEF R
    <3> QED BY <1>1, TryType
  <2>8. snap[t] \subseteq {items} => Placed(t).pos = TryComputePosition(R, List, m, r).pos
    BY <2>3, <2>4
  <2> HIDE DEF m, r
  <2>9. ComputePosition(items, List, m, r)
          = [err |-> "none", pos |-> TryComputePosition(R, List, m, r).pos, items |-> R]
    BY <2>1, <2>6 DEF ComputePosition
  <2> HIDE DEF R
  <2> QED BY <1>5, <2>7, <2>8, <2>9 DEF m, r, R
<1> QED BY <1>3, <1>4, <1>5

\* What the patch makes of a row does not depend on where it is.
LEMMA PatchedSame ==
  ASSUME NEW row \in Row, NEW other \in Row, NEW p \in Patches(Name, ItemId),
         NEW x \in Int, NEW y \in Int,
         row.name = other.name, row.checked = other.checked, row.note = other.note
  PROVE  /\ PatchedRow(row, p, x).name = PatchedRow(other, p, y).name
         /\ PatchedRow(row, p, x).checked = PatchedRow(other, p, y).checked
         /\ PatchedRow(row, p, x).note = PatchedRow(other, p, y).note
BY DEF PatchedRow, Row, Given

-----------------------------------------------------------------------------
\* How requests end

\* An update that is not found alone.
LEMMA NotFoundAlone ==
  ASSUME IInv, NEW t \in Txn, req[t].op = "update",
         \/ req[t].item \notin DOMAIN items
         \/ target(t) # Nil /\ \E i \in Named(req[t].item, target(t)) : i \notin DOMAIN items
  PROVE  Alone(t).err = "not_found" /\ Alone(t).items = items
<1> DEFINE m == req[t].item
           p == req[t].patch
<1>1. ItemsOf(items, List) = DOMAIN items
  BY TableFacts DEF IInv, TypeOK
<1>2. Alone(t) = UpdateItem(items, List, m, p)
  BY DEF Alone
<1>3. CASE m \notin DOMAIN items
  BY <1>1, <1>2, <1>3 DEF UpdateItem, InList
<1>4. CASE m \in DOMAIN items
  <2>1. p.reorder # Nil /\ \E i \in Named(m, p.reorder) : ~InList(items, List, i)
    BY <1>1, <1>4 DEF InList, target
  <2> HIDE DEF m, p
  <2>2. TryComputePosition(items, List, m, p.reorder).err = "not_found"
    BY <2>1 DEF TryComputePosition
  <2>3. ComputePosition(items, List, m, p.reorder).err = "not_found"
    BY <2>2 DEF ComputePosition
  <2> QED BY <1>1, <1>2, <1>4, <2>1, <2>3 DEF UpdateItem, InList
<1> QED BY <1>3, <1>4

\* A reorder that finds no room after a renormalization would find none alone.
LEMMA WriteFails ==
  ASSUME IInv, NEW t \in Txn, Write(t), Placed(t).err # "none"
  PROVE  /\ Rollback(t, Alone(t).err)
         /\ Alone(t).items = items
<1> DEFINE m == req[t].item
           p == req[t].patch
           r == target(t)
           R == Renormalize(items, List)
           a == IF Placed(t).err = "exhausted" THEN "internal" ELSE Placed(t).err
<1>1. /\ pc[t] = "again" \/ (pc[t] = "write" /\ Placed(t).err # "exhausted")
      /\ Rollback(t, a)
  BY AtIs DEF Write
<1>2. Updating(t) /\ req[t].op = "update" /\ (pc[t] = "write" => snap[t] = {})
  BY <1>1 DEF IInv, LocalInv, StageOK, Updating, Updates
<1>3. r # Nil
  BY DEF Placed
<1>4. /\ \A i \in Named(m, r) : i \in DOMAIN items
      /\ \A i \in Named(m, r) : i \in DOMAIN seen[t]
  BY <1>1, <1>2, <1>3, NamedAreThere
<1>5. IsTable(items, ItemId, Row) /\ IsTable(seen[t], ItemId, Row)
      /\ IsTable(R, ItemId, Row) /\ DOMAIN R = DOMAIN items
  BY RenormalizedTable DEF IInv, TypeOK
<1>6. Placed(t).err = "exhausted"
  <2> DEFINE S == seen[t]
  <2>1. Placed(t) = TryComputePosition(S, List, m, r)
    BY <1>3 DEF Placed
  <2>2. IsTable(S, ItemId, Row) /\ \A i \in Named(m, r) : i \in DOMAIN S
    BY <1>4, <1>5
  <2> HIDE DEF S, m, r
  <2> QED BY <2>1, <2>2, TryAnswers
<1>7. pc[t] = "again" /\ snap[t] # {}
  BY <1>1, <1>6 DEF IInv, LocalInv, StageOK
<1>8. PICK T \in snap[t] : TRUE
  BY <1>7
<1>9. /\ Placed(t) = TryComputePosition(Renormalize(T, List), List, m, r)
      /\ IsTable(T, ItemId, Row)
  BY <1>2, <1>3, <1>7, PlacedOnSnapshot
<1>10. r.after # Nil /\ r.after = r.before
  BY <1>6, <1>9, TableFacts, RenormalizeMakesRoom
<1>11. TryComputePosition(items, List, m, r).err = "exhausted"
  BY <1>2, <1>7 DEF IInv, LocalInv, WantOfRoom
<1>12. TryComputePosition(R, List, m, r).err = "exhausted"
  <2> HIDE DEF R, m, r
  <2> QED BY <1>4, <1>5, <1>10, TryAnswers
<1>13. ComputePosition(items, List, m, r).err = "internal"
  <2> HIDE DEF m, r
  <2> QED BY <1>11, <1>12 DEF ComputePosition, R
<1>14. InList(items, List, m)
  <2>1. ReadIsHeld(t) /\ m \in DOMAIN seen[t]
    BY <1>2, <1>7 DEF IInv, LocalInv, ReadIsHeld
  <2>2. owner[m] = t /\ m \in ItemId
    BY <1>2, <1>5, <1>7, <2>1, ReadFacts DEF IsTable
  <2> QED BY <1>5, <2>2, MineIsThere, TableFacts DEF InList
<1>15. p.reorder = r /\ Alone(t) = UpdateItem(items, List, m, p)
  BY <1>2 DEF Alone, target
<1>16. Alone(t).err = "internal" /\ Alone(t).items = items
  <2> HIDE DEF m, p, r
  <2> QED BY <1>3, <1>13, <1>14, <1>15 DEF UpdateItem
<1> QED BY <1>1, <1>6, <1>16

\* What an update runs into, or does, alone, once it is placed.
LEMMA UpdateAlone ==
  ASSUME IInv, NEW t \in Txn, Updating(t), pc[t] \in {"index", "commit"}
  PROVE  LET i == req[t].item
             n == req[t].patch.name
         IN  /\ i \in DOMAIN items
             /\ n # Nil /\ Holders(items, List, n) \ {i} # {} =>
                  Alone(t).err = "conflict" /\ Alone(t).items = items
             /\ (n # Nil => Holders(items, List, n) \ {i} = {}) =>
                  /\ Alone(t).err = "none"
                  /\ \E pos \in Int :
                       /\ snap[t] \subseteq {items} => pos = Placed(t).pos
                       /\ Alone(t).items =
                            With(IF snap[t] = {} THEN items ELSE Renormalize(items, List), i,
                                 PatchedRow(items[i], req[t].patch, pos))
<1> DEFINE i == req[t].item
           p == req[t].patch
           n == req[t].patch.name
           table == IF snap[t] = {} THEN items ELSE Renormalize(items, List)
           placed == IF p.reorder = Nil
                     THEN [err |-> "none", pos |-> items[i].pos, items |-> items]
                     ELSE ComputePosition(items, List, i, p.reorder)
           row == PatchedRow(items[i], p, placed.pos)
<1>1. req[t] \in Requests /\ req[t].op = "update"
  BY DEF IInv, LocalInv, StageOK, Updating
<1>2. /\ placed.err = "none" /\ placed.pos \in Int /\ placed.items = table
      /\ snap[t] \subseteq {items} => placed.pos = Placed(t).pos
  BY PlacedAlone DEF target
<1>3. i \in DOMAIN items
  <2>1. owner[i] = t /\ i \in ItemId
    BY <1>1, PatchName, RequestFacts DEF IInv
  <2> QED BY <2>1, MineIsThere
<1>4. items[i] \in Row /\ p \in Patches(Name, ItemId) /\ InList(items, List, i)
  BY <1>1, <1>3, TableFacts, RequestFacts DEF IInv, TypeOK, InList
<1>5. Alone(t) = UpdateItem(items, List, i, p)
  BY <1>1 DEF Alone
<1>6. \A k \in Holders(items, List, items[i].name) : k = i
  BY <1>3 DEF IInv, NamesUnique, Holders, ItemsOf
<1>7. p.name = n
  OBVIOUS
<1> HIDE DEF i, p, n, table, placed
<1>8. NoteNotChecked(row) /\ row.name = IF n = Nil THEN items[i].name ELSE n
  <2> DEFINE old == items[i]
             pos == placed.pos
  <2>1. old \in Row /\ pos \in Int /\ row = PatchedRow(old, p, pos)
    BY <1>2, <1>4
  <2> HIDE DEF old, pos, row
  <2>2. NoteNotChecked(row) /\ row.name = IF p.name = Nil THEN old.name ELSE p.name
    BY <1>4, <2>1, PatchedRowType
  <2> QED BY <1>7, <2>2 DEF old
<1> HIDE DEF row
<1>9. UpdateItem(items, List, i, p) =
        IF Holders(items, List, row.name) \ {i} # {}
        THEN [err |-> "conflict", items |-> items]
        ELSE [err |-> "none", items |-> With(table, i, row)]
  <2>1. UpdateItem(items, List, i, p) =
          IF placed.err # "none"
          THEN [err |-> placed.err, items |-> items]
          ELSE IF ~NoteNotChecked(row)
          THEN [err |-> "internal", items |-> items]
          ELSE IF Holders(items, List, row.name) \ {i} # {}
          THEN [err |-> "conflict", items |-> items]
          ELSE [err |-> "none", items |-> With(placed.items, i, row)]
    BY <1>4 DEF UpdateItem, placed, row
  <2> QED BY <1>2, <1>8, <2>1
<1>10. n # Nil /\ Holders(items, List, n) \ {i} # {} =>
         Alone(t).err = "conflict" /\ Alone(t).items = items
  BY <1>5, <1>8, <1>9
<1>11. ASSUME n # Nil => Holders(items, List, n) \ {i} = {}
       PROVE  Alone(t).err = "none" /\ Alone(t).items = With(table, i, row)
  <2>1. Holders(items, List, row.name) \ {i} = {}
    BY <1>6, <1>8, <1>11
  <2> QED BY <1>5, <1>9, <2>1
<1> QED BY <1>2, <1>3, <1>10, <1>11 DEF i, p, n, table, row

\* An update commits what it would have done alone.
LEMMA UpdateEndsAlone ==
  ASSUME IInv, NEW t \in Txn, Commit(t), req[t].op = "update"
  PROVE  /\ Alone(t).err = "none"
         /\ Unplaced(items') = Unplaced(Alone(t).items)
         /\ snap[t] \subseteq {items} => Unborn(items') = Unborn(Alone(t).items)
<1> DEFINE i == req[t].item
           p == req[t].patch
           table == IF snap[t] = {} THEN items ELSE Renormalize(items, List)
<1>1. /\ pc[t] = "commit" /\ TypeOK'
      /\ DOMAIN items' = DOMAIN written[t] \cup DOMAIN items
      /\ \A j \in DOMAIN written[t] : items'[j] = written[t][j]
      /\ \A j \in DOMAIN items \ DOMAIN written[t] : items'[j] = items[j]
  BY CommitEffect
<1>2. Updating(t) /\ req[t] \in Requests
  BY <1>1 DEF Updating, IInv, LocalInv, StageOK
<1>3. p.name # Nil => Holders(items, List, p.name) \ {i} = {}
  <2>1. p.name # Nil => Naming(t) /\ Renamed(t) = i
    BY <1>1 DEF Naming, Renamed
  <2> QED BY <2>1 DEF IInv, NameIsTaken, Holders, ItemsOf
<1>4. /\ i \in DOMAIN items /\ Alone(t).err = "none"
      /\ \E pos \in Int : /\ snap[t] \subseteq {items} => pos = Placed(t).pos
                          /\ Alone(t).items = With(table, i, PatchedRow(items[i], p, pos))
  BY <1>1, <1>2, <1>3, UpdateAlone
<1>5. PICK pos \in Int : /\ snap[t] \subseteq {items} => pos = Placed(t).pos
                         /\ Alone(t).items = With(table, i, PatchedRow(items[i], p, pos))
  BY <1>4
<1> DEFINE alone == Alone(t).items
<1>6. IsTable(items, ItemId, Row) /\ IsTable(items', ItemId, Row)
  BY <1>1 DEF IInv, TypeOK
<1>7. /\ IsTable(table, ItemId, Row) /\ DOMAIN table = DOMAIN items
      /\ \A j \in DOMAIN items : /\ table[j].name = items[j].name
                                 /\ table[j].checked = items[j].checked
                                 /\ table[j].note = items[j].note
  BY <1>6, RenormalizedTable
<1>8. i \in ItemId /\ items[i] \in Row /\ p \in Patches(Name, ItemId)
  BY <1>2, <1>4, <1>6, TableFacts, RequestFacts
<1>9. \A j \in DOMAIN written[t] : j \in DOMAIN items /\ owner[j] = t
  <2>1. DOMAIN written[t] \subseteq ItemId
    BY DEF IInv, TypeOK, IsTable
  <2>2. \A j \in DOMAIN written[t] : owner[j] = t
    BY <1>2 DEF IInv, LocalInv, OthersRenumbered
  <2> QED BY <2>1, <2>2, MineIsThere
<1>10. DOMAIN items' = DOMAIN items
  BY <1>1, <1>9
<1>11. /\ i \in DOMAIN seen[t] /\ seen[t][i] \in Row
       /\ seen[t][i] = [items[i] EXCEPT !.pos = seen[t][i].pos]
  <2>1. i \in DOMAIN seen[t] /\ seen[t][i] = [items[i] EXCEPT !.pos = seen[t][i].pos]
    <3>1. ReadIsHeld(t) /\ pc[t] # "read"
      BY <1>1 DEF IInv, LocalInv
    <3>2. i \in DOMAIN seen[t]
      BY <1>2, <3>1 DEF ReadIsHeld
    <3> QED BY <1>2, <3>1, <3>2 DEF ReadIsHeld
  <2> QED BY <2>1, TableFacts DEF IInv, TypeOK
<1>12. /\ items'[i] = PatchedRow(seen[t][i], p, Placed(t).pos) /\ Placed(t).pos \in Int
  BY <1>1, <1>2, PlacedType DEF IInv, LocalInv, PatchIsWritten
<1>13. /\ IsTable(alone, ItemId, Row) /\ DOMAIN alone = DOMAIN items
       /\ alone[i] = PatchedRow(items[i], p, pos)
       /\ \A j \in DOMAIN items \ {i} : alone[j] = table[j]
  <2> DEFINE row == PatchedRow(items[i], p, pos)
  <2>1. row \in Row
    <3> DEFINE old == items[i]
    <3>1. old \in Row
      BY <1>8
    <3> HIDE DEF old, p
    <3>2. PatchedRow(old, p, pos) \in Row
      BY <1>8, <3>1, PatchedRowType
    <3> QED BY <3>2 DEF old
  <2>2. alone = With(table, i, row)
    BY <1>5
  <2> HIDE DEF row, table, i, alone
  <2> QED BY <1>4, <1>7, <1>8, <2>1, <2>2, WithTable, SMTT(30) DEF row
<1>14. /\ items'[i].name = alone[i].name /\ items'[i].checked = alone[i].checked
       /\ items'[i].note = alone[i].note
       /\ pos = Placed(t).pos => items'[i].pos = alone[i].pos
  <2> DEFINE old == items[i]
             new == seen[t][i]
             x == Placed(t).pos
  <2>1. new \in Row /\ old \in Row /\ new = [old EXCEPT !.pos = new.pos] /\ x \in Int
    BY <1>8, <1>11, <1>12
  <2>2. items'[i] = PatchedRow(new, p, x) /\ alone[i] = PatchedRow(old, p, pos)
    BY <1>12, <1>13
  <2> HIDE DEF old, new, x, i, p, alone
  <2>3. new.name = old.name /\ new.checked = old.checked /\ new.note = old.note
    BY <2>1 DEF Row
  <2>4. PatchedRow(new, p, x).pos = x /\ PatchedRow(old, p, pos).pos = pos
    BY <1>8, <2>1, PatchedRowType
  <2> QED BY <1>8, <2>1, <2>2, <2>3, <2>4, PatchedSame DEF x
<1>15. ASSUME NEW j \in DOMAIN items \ {i}
       PROVE  /\ items'[j].name = items[j].name /\ items'[j].checked = items[j].checked
              /\ items'[j].note = items[j].note
              /\ snap[t] \subseteq {items} => items'[j].pos = table[j].pos
  <2>1. items[j] \in Row
    BY <1>6, TableFacts
  <2>2. CASE j \notin DOMAIN written[t]
    <3>1. items'[j] = items[j]
      BY <1>1, <2>2
    <3>2. snap[t] \subseteq {items} => snap[t] = {}
      <4>1. AllRenumbered(t)
        BY DEF IInv, LocalInv
      <4> QED BY <1>1, <1>2, <2>2, <4>1 DEF AllRenumbered
    <3> QED BY <3>1, <3>2
  <2>3. CASE j \in DOMAIN written[t]
    <3>1. OthersRenumbered(t)
      BY DEF IInv, LocalInv
    <3>2. /\ items'[j] = [items[j] EXCEPT !.pos = items'[j].pos]
          /\ \A T \in snap[t] : items'[j].pos = Renormalize(T, List)[j].pos
          /\ snap[t] # {}
      <4>1. /\ written[t][j] = [items[j] EXCEPT !.pos = written[t][j].pos]
            /\ \A T \in snap[t] : written[t][j].pos = Renormalize(T, List)[j].pos
            /\ snap[t] # {}
        BY <1>2, <2>3, <3>1 DEF OthersRenumbered
      <4>2. items'[j] = written[t][j]
        BY <1>1, <2>3
      <4> DEFINE new == items'[j]
                 w == written[t][j]
      <4>3. new = w /\ w = [items[j] EXCEPT !.pos = w.pos]
        BY <4>1, <4>2
      <4>4. \A T \in snap[t] : w.pos = Renormalize(T, List)[j].pos
        BY <4>1
      <4> HIDE DEF new, w
      <4>5. /\ new = [items[j] EXCEPT !.pos = new.pos]
            /\ \A T \in snap[t] : new.pos = Renormalize(T, List)[j].pos
        BY <4>3, <4>4
      <4> QED BY <4>1, <4>5 DEF new
    <3>3. /\ items'[j].name = items[j].name /\ items'[j].checked = items[j].checked
          /\ items'[j].note = items[j].note
      <4> DEFINE old == items[j]
                 new == items'[j]
      <4>1. old \in Row /\ new = [old EXCEPT !.pos = new.pos]
        BY <2>1, <3>2
      <4> HIDE DEF old, new
      <4>2. new.name = old.name /\ new.checked = old.checked /\ new.note = old.note
        BY <4>1 DEF Row
      <4> QED BY <4>2 DEF old, new
    <3>4. snap[t] \subseteq {items} => items'[j].pos = table[j].pos
      BY <3>2
    <3> QED BY <3>3, <3>4
  <2> QED BY <2>2, <2>3
<1>16. \A j \in DOMAIN items' :
         /\ items'[j].name = alone[j].name /\ items'[j].checked = alone[j].checked
         /\ items'[j].note = alone[j].note
         /\ snap[t] \subseteq {items} => items'[j].pos = alone[j].pos
  <2> TAKE j \in DOMAIN items'
  <2>1. CASE j = i
    <3> HIDE DEF i, alone
    <3> QED BY <1>5, <1>14, <2>1
  <2>2. CASE j # i
    <3>1. j \in DOMAIN items \ {i}
      BY <1>10, <2>2
    <3> HIDE DEF i, alone, table
    <3> QED BY <1>7, <1>13, <1>15, <3>1
  <2> QED BY <2>1, <2>2
<1> HIDE DEF alone
<1>17. /\ Unplaced(items') = Unplaced(alone)
       /\ (\A j \in DOMAIN items' : items'[j].pos = alone[j].pos) => Unborn(items') = Unborn(alone)
  BY <1>6, <1>10, <1>13, <1>16, SameRows
<1> QED BY <1>4, <1>16, <1>17 DEF alone

\* An add commits what it would have done alone.
LEMMA AddEndsAlone ==
  ASSUME IInv, NEW t \in Txn, Commit(t), req[t].op = "add"
  PROVE  /\ Alone(t).err = "none"
         /\ Unplaced(items') = Unplaced(Alone(t).items)
         /\ snap[t] \subseteq {items} => Unborn(items') = Unborn(Alone(t).items)
<1> DEFINE n == req[t].patch.name
           lists == [l \in {List} |-> Nil]
           alone == Alone(t).items
<1>1. /\ pc[t] = "commit" /\ TypeOK'
      /\ DOMAIN items' = DOMAIN written[t] \cup DOMAIN items
      /\ \A j \in DOMAIN written[t] : items'[j] = written[t][j]
      /\ \A j \in DOMAIN items \ DOMAIN written[t] : items'[j] = items[j]
  BY CommitEffect
<1>2. req[t] \in Requests /\ n \in Name /\ n # Nil
  <2>1. req[t] \in Requests
    BY <1>1 DEF IInv, LocalInv, StageOK
  <2> QED BY <2>1, RequestFacts, ItemTxnAssumption
<1>3. Alone(t) = CreateOrRevive(items, lists, List, n, t)
  BY DEF Alone
<1>4. IsTable(items, ItemId, Row) /\ IsTable(items', ItemId, Row) /\ t \in ItemId
      /\ ItemsOf(items, List) = DOMAIN items /\ \A j \in DOMAIN items : items[j] \in Row
  BY <1>1, ItemTxnAssumption, TableFacts DEF IInv, TypeOK
<1>5. CASE todo[t] = <<>>
  <2>1. /\ snap[t] # {} /\ DOMAIN written[t] = {t} /\ t \notin DOMAIN items
        /\ \A T \in snap[t] : written[t][t] = [NewItem(T, List, n) EXCEPT !.born = born[t]]
    BY <1>1, <1>5 DEF IInv, LocalInv, AddIsReady
  <2>2. Holders(items, List, n) = {}
    <3>1. Naming(t) /\ Renamed(t) = t
      BY <1>1, <1>2, <1>5 DEF Naming, Renamed
    <3> QED BY <2>1, <3>1 DEF IInv, NameIsTaken, Holders, ItemsOf
  <2>3. Alone(t).err = "none" /\ alone = With(items, t, NewItem(items, List, n))
    <3> HIDE DEF n
    <3> QED BY <1>3, <2>1, <2>2 DEF CreateOrRevive
  <2> DEFINE row == NewItem(items, List, n)
  <2>4. row \in Row
    <3>1. MaxPosition(items, List) \in Int /\ Now(items) \in Nat /\ PositionGap \in Int
      BY <1>4, TableFacts, SaneRows, MaxPositionBounds, NowIsLater, GapAssumption
    <3> QED BY <1>2, <3>1 DEF NewItem, Row
  <2>5. /\ IsTable(alone, ItemId, Row) /\ DOMAIN alone = DOMAIN items \cup {t}
        /\ alone[t] = row /\ \A j \in DOMAIN items \ {t} : alone[j] = items[j]
    <3>1. alone = With(items, t, row)
      BY <2>3
    <3>2. IsTable(items, ItemId, Row) /\ t \in ItemId /\ row \in Row
      BY <1>4, <2>4
    <3> HIDE DEF row, alone
    <3> DEFINE new == With(items, t, row)
    <3>3. /\ IsTable(new, ItemId, Row) /\ DOMAIN new = DOMAIN items \cup {t}
          /\ new[t] = row /\ \A j \in DOMAIN items \ {t} : new[j] = items[j]
      BY <3>2 DEF IsTable, With
    <3> HIDE DEF new
    <3>4. alone = new
      BY <3>1 DEF new
    <3> QED BY <3>3, <3>4
  <2>6. PICK T \in snap[t] : written[t][t] = [NewItem(T, List, n) EXCEPT !.born = born[t]]
    BY <2>1
  <2>7. /\ items'[t].name = row.name /\ items'[t].checked = row.checked
        /\ items'[t].note = row.note
        /\ T = items => items'[t].pos = row.pos
    <3>1. items'[t] = [NewItem(T, List, n) EXCEPT !.born = born[t]]
      BY <1>1, <2>1, <2>6
    <3> QED BY <3>1 DEF NewItem
  <2>8. DOMAIN items' = DOMAIN alone
    BY <1>1, <2>1, <2>5
  <2>9. \A j \in DOMAIN items' :
          /\ items'[j].name = alone[j].name /\ items'[j].checked = alone[j].checked
          /\ items'[j].note = alone[j].note
          /\ T = items => items'[j].pos = alone[j].pos
    <3> HIDE DEF row, alone
    <3> QED BY <1>1, <2>1, <2>5, <2>7
  <2> HIDE DEF alone
  <2>10. /\ Unplaced(items') = Unplaced(alone)
         /\ (\A j \in DOMAIN items' : items'[j].pos = alone[j].pos) => Unborn(items') = Unborn(alone)
    BY <1>4, <2>5, <2>8, <2>9, SameRows
  <2> QED BY <2>3, <2>6, <2>9, <2>10 DEF alone
<1>6. CASE todo[t] # <<>>
  <2> DEFINE i == Head(todo[t])
  <2>1. /\ owner[i] = t /\ items[i].name = n
        /\ DOMAIN written[t] \subseteq {i}
        /\ IF i \in DOMAIN written[t]
           THEN written[t][i] = Revived(items[i])
           ELSE ~items[i].checked /\ ~items[i].note
    BY <1>1, <1>6 DEF IInv, LocalInv, AddIsReady
  <2>2. i \in ItemId /\ i \in DOMAIN items
    <3>1. i \in ItemId
      BY <1>6, SeqFacts DEF IInv, TypeOK
    <3> QED BY <2>1, <3>1, MineIsThere
  <2>3. Holders(items, List, n) = {i}
    BY <1>4, <2>1, <2>2 DEF IInv, NamesUnique, Holders
  <2>4. Alone(t).err = "none" /\ alone = With(items, i, Revived(items[i]))
    <3> HIDE DEF n, i
    <3>1. (CHOOSE j \in Holders(items, List, n) : TRUE) = i
      BY <2>3
    <3> QED BY <1>3, <2>3, <3>1 DEF CreateOrRevive
  <2> DEFINE row == Revived(items[i])
  <2>5. row \in Row
    BY <1>4, <2>2, RevivedRowType
  <2>6. /\ IsTable(alone, ItemId, Row) /\ DOMAIN alone = DOMAIN items \cup {i}
        /\ alone[i] = row /\ \A j \in DOMAIN items \ {i} : alone[j] = items[j]
    <3>1. alone = With(items, i, row)
      BY <2>4
    <3>2. IsTable(items, ItemId, Row) /\ i \in ItemId /\ row \in Row
      BY <1>4, <2>2, <2>5
    <3> HIDE DEF row, alone, i
    <3> DEFINE new == With(items, i, row)
    <3>3. /\ IsTable(new, ItemId, Row) /\ DOMAIN new = DOMAIN items \cup {i}
          /\ new[i] = row /\ \A j \in DOMAIN items \ {i} : new[j] = items[j]
      BY <3>2 DEF IsTable, With
    <3> HIDE DEF new
    <3>4. alone = new
      BY <3>1 DEF new
    <3> QED BY <3>3, <3>4
  <2>7. items'[i] = row
    <3>1. CASE i \in DOMAIN written[t]
      BY <1>1, <2>1, <3>1
    <3>2. CASE i \notin DOMAIN written[t]
      <4>1. items'[i] = items[i] /\ ~items[i].checked /\ ~items[i].note
        BY <1>1, <2>1, <2>2, <3>2
      <4>2. items[i] \in Row
        BY <1>4, <2>2
      <4> DEFINE old == items[i]
      <4>3. old \in Row /\ ~old.checked /\ ~old.note
        BY <4>1, <4>2
      <4> HIDE DEF old
      <4>4. Revived(old) = old
        BY <4>3 DEF Revived, Row
      <4> QED BY <4>1, <4>4 DEF old
    <3> QED BY <3>1, <3>2
  <2>8. DOMAIN items' = DOMAIN alone
    BY <1>1, <2>1, <2>2, <2>6
  <2>9. \A j \in DOMAIN items' : items'[j] = alone[j]
    <3> HIDE DEF row, alone, i
    <3> QED BY <1>1, <2>1, <2>6, <2>7
  <2> HIDE DEF alone
  <2>10. Unplaced(items') = Unplaced(alone) /\ Unborn(items') = Unborn(alone)
    BY <1>4, <2>6, <2>8, <2>9, SameRows
  <2> QED BY <2>4, <2>10 DEF alone
<1> QED BY <1>5, <1>6

LEMMA StepEndsAlone ==
  ASSUME IInv, AnswerOK, NEW t \in Txn, [Next]_vars, Ends(t)
  PROVE  EndsAlone(t)
<1>1. Step(t)
  BY WhoEnds
<1>2. pc'[t] = "done"
  BY DEF Ends
<1>3. ASSUME NEW a, Rollback(t, a) PROVE answer'[t] = a /\ items' = items
  BY <1>3, FinishAnswers DEF Rollback
<1>4. CASE Insert(t)
  BY <1>2, <1>4, InsertEffect
<1>5. CASE SelectHolder(t)
  <2>1. pc[t] = "select" /\ Rollback(t, "not_found")
    BY <1>2, <1>5, SelectHolderEffect
  <2>2. req[t].op = "add"
    BY <2>1 DEF IInv, LocalInv, StageOK, Adds
  <2> QED BY <1>3, <2>1, <2>2 DEF EndsAlone
<1>6. CASE Revive(t)
  <2>1. pc[t] = "revive" /\ Rollback(t, "not_found")
    BY <1>2, <1>6, ReviveEffect
  <2>2. req[t].op = "add"
    BY <2>1 DEF IInv, LocalInv, StageOK, Adds
  <2> QED BY <1>3, <2>1, <2>2 DEF EndsAlone
<1>7. CASE Read(t)
  <2>1. pc[t] = "read" /\ Rollback(t, "not_found")
    BY <1>2, <1>7, ReadEffect
  <2>2. req[t].op = "update"
    BY <2>1 DEF IInv, LocalInv, StageOK, Updates
  <2>3. req[t].item \notin DOMAIN items
    <3> SUFFICES ASSUME req[t].item \in DOMAIN items PROVE FALSE
      OBVIOUS
    <3>1. Goes(t, "write") \/ Goes(t, "place")
      BY <1>7 DEF Read
    <3> QED BY <1>2, <3>1 DEF Goes, IInv, TypeOK
  <2>4. Alone(t).err = "not_found" /\ Alone(t).items = items
    BY <2>2, <2>3, NotFoundAlone
  <2> QED BY <1>3, <2>1, <2>4 DEF EndsAlone
<1>8. CASE Neighbour(t)
  <2>1. pc[t] = "place" /\ Rollback(t, "not_found")
    BY <1>2, <1>8, NeighbourEffect
  <2>2. req[t].op = "update" /\ target(t) # Nil /\ todo[t] # <<>>
    BY <2>1 DEF IInv, LocalInv, StageOK, Updates
  <2>3. Head(todo[t]) \notin DOMAIN items
    <3> SUFFICES ASSUME Head(todo[t]) \in DOMAIN items PROVE FALSE
      OBVIOUS
    <3>1. Goes(t, "write") \/ UNCHANGED pc
      BY <1>8 DEF Neighbour
    <3> QED BY <1>2, <2>1, <3>1 DEF Goes, IInv, TypeOK
  <2>4. Head(todo[t]) \in Named(req[t].item, target(t))
    <3>1. Head(todo[t]) \in Range(todo[t])
      BY <2>2, SeqFacts DEF IInv, TypeOK
    <3> QED BY <2>1, <3>1 DEF IInv, LocalInv, ReadsNamed
  <2>5. Alone(t).err = "not_found" /\ Alone(t).items = items
    BY <2>2, <2>3, <2>4, NotFoundAlone
  <2> QED BY <1>3, <2>1, <2>5 DEF EndsAlone
<1>9. CASE Renormalizes(t)
  BY <1>2, <1>9, RenormalizesEffect
<1>10. CASE RenormalizeRow(t)
  BY <1>2, <1>10, RenormalizeRowEffect
<1>11. CASE Reread(t)
  BY <1>2, <1>11, RereadEffect
<1>12. CASE Write(t)
  <2>1. Placed(t).err # "none"
    <3> SUFFICES ASSUME Placed(t).err = "none" PROVE FALSE
      OBVIOUS
    <3>1. Goes(t, IF req[t].patch.name = Nil THEN "commit" ELSE "index")
      BY <1>12 DEF Write
    <3> QED BY <1>2, <3>1 DEF Goes, IInv, TypeOK
  <2>2. Rollback(t, Alone(t).err) /\ Alone(t).items = items
    BY <1>12, <2>1, WriteFails
  <2> QED BY <1>3, <2>2 DEF EndsAlone
<1>13. CASE TakeName(t)
  <2>1. pc[t] = "index" /\ Rollback(t, "conflict")
    BY <1>2, <1>13, TakeNameEffect
  <2>2. Updating(t) /\ req[t].patch.name # Nil
    BY <2>1 DEF IInv, LocalInv, StageOK, Updates, Updating
  <2>3. Holders(items, List, req[t].patch.name) \ {req[t].item} # {}
    <3> SUFFICES ASSUME Holders(items, List, req[t].patch.name) \ {req[t].item} = {} PROVE FALSE
      OBVIOUS
    <3>1. Goes(t, "commit")
      BY <1>13 DEF TakeName
    <3> QED BY <1>2, <3>1 DEF Goes, IInv, TypeOK
  <2>4. Alone(t).err = "conflict" /\ Alone(t).items = items
    BY <2>1, <2>2, <2>3, UpdateAlone
  <2> QED BY <1>3, <2>1, <2>4 DEF EndsAlone
<1>14. CASE Delete(t)
  <2>1. pc[t] = "delete"
    BY <1>14, AtIs DEF Delete
  <2>2. req[t].op = "delete" /\ ItemsOf(items, List) = DOMAIN items
    BY <2>1, TableFacts DEF IInv, LocalInv, StageOK, TypeOK
  <2>3. Alone(t) = DeleteItem(items, List, req[t].item)
    BY <2>2 DEF Alone
  <2>4. CASE req[t].item \notin DOMAIN items
    <3>1. Rollback(t, "not_found")
      BY <1>14, <2>4 DEF Delete
    <3>2. Alone(t).err = "not_found" /\ Alone(t).items = items
      BY <2>2, <2>3, <2>4 DEF DeleteItem, InList
    <3> QED BY <1>3, <3>1, <3>2 DEF EndsAlone
  <2>5. CASE req[t].item \in DOMAIN items
    <3>1. items' = Without(items, {req[t].item}) /\ Finish(t, "none")
      BY <1>14, <2>5 DEF Delete
    <3>2. answer'[t] = "none"
      BY <3>1, FinishAnswers
    <3>3. Alone(t).err = "none" /\ Alone(t).items = Without(items, {req[t].item})
      BY <2>2, <2>3, <2>5 DEF DeleteItem, InList
    <3> QED BY <3>1, <3>2, <3>3 DEF EndsAlone
  <2> QED BY <2>4, <2>5
<1>15. CASE Commit(t)
  <2>1. pc[t] = "commit" /\ Finish(t, "none")
    BY <1>15, CommitEffect
  <2>2. answer'[t] = "none"
    BY <2>1, FinishAnswers
  <2>3. req[t].op \in {"add", "update"}
    BY <2>1 DEF IInv, LocalInv, StageOK
  <2>4. /\ Alone(t).err = "none"
        /\ Unplaced(items') = Unplaced(Alone(t).items)
        /\ snap[t] \subseteq {items} => Unborn(items') = Unborn(Alone(t).items)
    BY <1>15, <2>3, AddEndsAlone, UpdateEndsAlone
  <2> QED BY <2>2, <2>4 DEF EndsAlone
<1>16. CASE Abort(t)
  <2>1. Deadlocked(t) /\ Rollback(t, "internal")
    BY <1>16 DEF Abort
  <2> QED BY <1>3, <2>1 DEF EndsAlone
<1> QED BY <1>1, <1>4, <1>5, <1>6, <1>7, <1>8, <1>9, <1>10, <1>11, <1>12, <1>13, <1>14, <1>15,
           <1>16 DEF Step

\* Every request is answered, and changes the items, as if it had run alone at
\* the moment it ends, but for the victim of a deadlock, an add whose row went
\* away, and positions computed from a table that others have changed.
THEOREM EndAsIfAlone == Spec => EndsAsIfAlone
<1>1. IInv /\ AnswerOK /\ [Next]_vars => [\A t \in Txn : EndsAlone(t)]_vars
  <2> SUFFICES ASSUME IInv, AnswerOK, [Next]_vars, NEW t \in Txn PROVE EndsAlone(t)
    OBVIOUS
  <2>1. CASE Ends(t)
    BY <2>1, StepEndsAlone
  <2>2. CASE ~Ends(t)
    BY <2>2 DEF EndsAlone
  <2> QED BY <2>1, <2>2
<1> QED BY <1>1, Inductive, AnswersThere, PTL DEF EndsAsIfAlone, Spec

-----------------------------------------------------------------------------
\* Progress

Busy(t) == pc[t] \notin {"idle", "done"}

\* No row and no name is waited for forever: while a request is unanswered, some
\* transaction waits for nobody, or for itself, and is then aborted.
SomeoneIsFree ==
  (\E t \in Txn : Busy(t)) => \E t \in Txn : Busy(t) /\ (Blockers(t) = {} \/ Deadlocked(t))

\* Who holds a row is running.
HoldersRun == \A i \in ItemId : \A t \in Txn : owner[i] = t => Busy(t)

\* Statements run in running transactions only, which lock rows in their own
\* name and hold none when they are done.
LEMMA StepHolds ==
  ASSUME IInv, NEW t \in Txn, Step(t) \/ \E r \in Requests : Begin(t, r)
  PROVE  \/ \E a : Finish(t, a)
         \/ /\ pc'[t] \notin {"idle", "done"} /\ \A u \in Txn \ {t} : pc'[u] = pc[u]
            /\ \A i \in ItemId : owner'[i] \in {owner[i], t}
<1> DEFINE Held == \A i \in ItemId : owner'[i] \in {owner[i], t}
           Runs == pc'[t] \notin {"idle", "done"} /\ \A u \in Txn \ {t} : pc'[u] = pc[u]
<1>1. /\ pc \in [Txn -> Statements] /\ owner \in [ItemId -> Txn \cup {Nil}]
  BY DEF IInv, TypeOK
<1>2. ASSUME NEW s, Goes(t, s), s \notin {"idle", "done"} PROVE Runs
  BY <1>1, <1>2 DEF Goes
<1>3. ASSUME UNCHANGED pc, Busy(t) PROVE Runs
  BY <1>3 DEF Busy
<1>4. ASSUME NEW i, Lock(t, i) PROVE Held
  BY <1>1, <1>4 DEF Lock
<1>5. UNCHANGED owner => Held
  OBVIOUS
<1>6. (\E a : Rollback(t, a)) => \E a : Finish(t, a)
  BY DEF Rollback
<1> HIDE DEF Held, Runs
<1>7. CASE \E r \in Requests : Begin(t, r)
  <2>1. PICK r \in Requests : Begin(t, r)
    BY <1>7
  <2>2. r.op \in {"add", "update", "delete"}
    BY ItemTxnAssumption
  <2> QED BY <1>2, <1>5, <2>1, <2>2 DEF Begin, Held, Runs
<1>8. CASE Insert(t)
  BY <1>2, <1>5, <1>8 DEF Insert, Held, Runs
<1>9. CASE SelectHolder(t)
  BY <1>2, <1>5, <1>6, <1>9 DEF SelectHolder, Held, Runs
<1>10. CASE Revive(t)
  BY <1>2, <1>4, <1>6, <1>10 DEF Revive, Held, Runs
<1>11. CASE Read(t)
  BY <1>2, <1>4, <1>6, <1>11 DEF Read, Held, Runs
<1>12. CASE Neighbour(t)
  <2>1. Busy(t)
    BY <1>12 DEF Neighbour, At, Busy
  <2> QED BY <1>2, <1>3, <1>4, <1>6, <1>12, <2>1 DEF Neighbour, LockNeighbour, Held, Runs
<1>13. CASE Renormalizes(t)
  BY <1>2, <1>5, <1>13 DEF Renormalizes, Held, Runs
<1>14. CASE RenormalizeRow(t)
  <2>1. Busy(t)
    BY <1>14 DEF RenormalizeRow, At, Busy
  <2> QED BY <1>3, <1>4, <1>5, <1>14, <2>1 DEF RenormalizeRow, Held, Runs
<1>15. CASE Reread(t)
  BY <1>2, <1>5, <1>15 DEF Reread, Held, Runs
<1>16. CASE Write(t)
  BY <1>2, <1>5, <1>6, <1>16 DEF Write, Held, Runs
<1>17. CASE TakeName(t)
  BY <1>2, <1>5, <1>6, <1>17 DEF TakeName, Held, Runs
<1>18. CASE Delete(t)
  BY <1>6, <1>18 DEF Delete
<1>19. CASE Commit(t)
  BY <1>19 DEF Commit
<1>20. CASE Abort(t)
  BY <1>6, <1>20 DEF Abort
<1> QED BY <1>7, <1>8, <1>9, <1>10, <1>11, <1>12, <1>13, <1>14, <1>15, <1>16, <1>17, <1>18, <1>19,
           <1>20 DEF Step

LEMMA HoldersAlwaysRun == Spec => []HoldersRun
<1>1. Init => HoldersRun
  BY ItemTxnAssumption, RowAssumption DEF Init, HoldersRun
<1>2. IInv /\ HoldersRun /\ [Next]_vars => HoldersRun'
  <2> SUFFICES ASSUME IInv, HoldersRun, [Next]_vars PROVE HoldersRun'
    OBVIOUS
  <2>1. CASE UNCHANGED vars
    BY <2>1 DEF vars, HoldersRun, Busy
  <2>2. CASE Next
    <3>1. PICK t \in Txn : Step(t) \/ \E r \in Requests : Begin(t, r)
      BY <2>2 DEF Next
    <3>2. CASE \E a : Finish(t, a)
      <4>1. /\ \A u \in Txn \ {t} : pc'[u] = pc[u]
            /\ \A i \in ItemId : owner'[i] = IF owner[i] = t THEN Nil ELSE owner[i]
        BY <3>2, FinishTypes DEF IInv
      <4>2. \A u \in Txn : u # Nil
        BY ItemTxnAssumption, RowAssumption
      <4>3. ASSUME NEW i \in ItemId, NEW u \in Txn, owner'[i] = u PROVE Busy(u)'
        <5>1. owner[i] = u /\ u # t
          BY <4>1, <4>2, <4>3
        <5> QED BY <4>1, <5>1 DEF HoldersRun, Busy
      <4> QED BY <4>3 DEF HoldersRun
    <3>3. CASE /\ pc'[t] \notin {"idle", "done"} /\ \A u \in Txn \ {t} : pc'[u] = pc[u]
               /\ \A i \in ItemId : owner'[i] \in {owner[i], t}
      <4>1. ASSUME NEW i \in ItemId, NEW u \in Txn, owner'[i] = u PROVE Busy(u)'
        BY <3>3, <4>1 DEF HoldersRun, Busy
      <4> QED BY <4>1 DEF HoldersRun
    <3> QED BY <3>1, <3>2, <3>3, StepHolds
  <2> QED BY <2>1, <2>2
<1> QED BY <1>1, <1>2, Inductive, PTL DEF Spec

\* Only running transactions are waited for.
LEMMA BlockersAreBusy ==
  ASSUME IInv, HoldersRun, NEW t \in Txn
  PROVE  Blockers(t) \subseteq {u \in Txn : Busy(u)}
<1> SUFFICES ASSUME NEW u \in Blockers(t) PROVE u \in Txn /\ Busy(u)
  OBVIOUS
<1>1. /\ owner \in [ItemId -> Txn \cup {Nil}] /\ todo[t] \in Seq(ItemId)
      /\ StageOK(t)
  BY DEF IInv, TypeOK, LocalInv
<1>2. CASE u \in Lockers(t) /\ Wanted(t) \in ItemId
  BY <1>1, <1>2 DEF Lockers, HoldersRun
<1>3. CASE u \in NameWriters(t)
  <2>1. u \in Txn /\ DOMAIN written[u] # {}
    BY <1>3 DEF NameWriters
  <2>2. StageOK(u)
    BY <2>1 DEF IInv, LocalInv
  <2> QED BY <2>1, <2>2 DEF StageOK, Busy
<1>4. ASSUME todo[t] # <<>> PROVE Wanted(t) \in ItemId
  BY <1>1, <1>4 DEF Wanted
<1>5. ASSUME pc[t] \in {"delete", "read"} PROVE Wanted(t) \in ItemId
  <2>1. req[t].op # "add" /\ req[t] \in Requests /\ todo[t] = <<>>
    BY <1>1, <1>5 DEF StageOK, Updates
  <2> QED BY <2>1, RequestFacts DEF Wanted
<1>6. CASE pc[t] \in {"delete", "read", "place", "revive"}
  <2>1. Wanted(t) \in ItemId
    BY <1>1, <1>4, <1>5, <1>6 DEF StageOK
  <2> QED BY <1>2, <1>6, <2>1 DEF Blockers
<1>7. CASE pc[t] = "renumber"
  BY <1>2, <1>4, <1>7 DEF Blockers
<1>8. CASE pc[t] \in {"insert", "index"}
  BY <1>3, <1>8 DEF Blockers
<1> QED BY <1>6, <1>7, <1>8 DEF Blockers

\* In a set of transactions that wait only for each other, one waits for nobody
\* or for itself.
LEMMA WaitGraph ==
  ASSUME NEW S \in SUBSET Txn, S # {}, \A t \in S : Blockers(t) \subseteq S
  PROVE  \E t \in S : Blockers(t) = {} \/ Deadlocked(t)
<1> DEFINE Closed(C) == C \subseteq S /\ C # {} /\ \A t \in C : Blockers(t) \subseteq C
           T == {C \in SUBSET S : Closed(C)}
<1>1. \A C \in SUBSET S : IsFiniteSet(C)
  BY ItemTxnAssumption, FS_Subset
<1>2. PICK C \in T : \A D \in T : <<D, C>> \notin StrictSubsetOrdering(S)
  <2>1. S \in T /\ IsFiniteSet(S)
    BY <1>1
  <2>2. T \subseteq FiniteSubsetsOf(S)
    BY <1>1 DEF FiniteSubsetsOf
  <2> HIDE DEF T
  <2> QED BY <2>1, <2>2, FS_StrictSubsetOrderingWellFounded, WFMin
<1>3. PICK t \in C : TRUE
  BY <1>2
<1>4. CASE Blockers(t) = {} \/ Deadlocked(t)
  BY <1>2, <1>3, <1>4
<1>5. CASE Blockers(t) # {} /\ ~Deadlocked(t)
  <2>1. PICK D \in SUBSET Txn : /\ Blockers(t) \subseteq D /\ t \notin D
                               /\ \A u \in D : Blockers(u) \subseteq D
    BY <1>5 DEF Deadlocked
  <2>2. C \cap D \in T
    BY <1>2, <1>3, <1>5, <2>1
  <2>3. C \cap D \subseteq C /\ t \in C /\ t \notin C \cap D /\ C \subseteq S
    BY <1>2, <1>3, <2>1
  <2>4. <<C \cap D, C>> \in StrictSubsetOrdering(S)
    BY <2>3 DEF StrictSubsetOrdering
  <2> QED BY <1>2, <2>2, <2>4
<1> QED BY <1>4, <1>5

\* Whatever requests run at once, they never all wait for others: one waits for
\* nobody, or is the victim that ends a deadlock.
THEOREM NeverAllWait == Spec => []SomeoneIsFree
<1>1. IInv /\ HoldersRun => SomeoneIsFree
  <2> SUFFICES ASSUME IInv, HoldersRun, NEW t \in Txn, Busy(t)
               PROVE  \E u \in Txn : Busy(u) /\ (Blockers(u) = {} \/ Deadlocked(u))
    BY DEF SomeoneIsFree
  <2> DEFINE S == {u \in Txn : Busy(u)}
  <2>1. S \in SUBSET Txn /\ S # {} /\ \A u \in S : Blockers(u) \subseteq S
    BY BlockersAreBusy
  <2> HIDE DEF S
  <2>2. \E u \in S : Blockers(u) = {} \/ Deadlocked(u)
    BY <2>1, WaitGraph
  <2> QED BY <2>2 DEF S
<1> QED BY <1>1, Inductive, HoldersAlwaysRun, PTL

-----------------------------------------------------------------------------
\* Termination

\* How many steps t may still take: it locks the rows of its statements and ends.
\* A renormalization meets no more rows than there may be items.
StepsLeft(t) ==
  CASE pc[t] = "idle" -> Cardinality(ItemId) + 9
    [] pc[t] = "insert" -> 4
    [] pc[t] = "select" -> 3
    [] pc[t] \in {"revive", "index"} -> 2
    [] pc[t] \in {"delete", "commit"} -> 1
    [] pc[t] = "read" -> Cardinality(ItemId) + 8
    [] pc[t] = "place" -> Cardinality(ItemId) + 5 + Len(todo[t])
    [] pc[t] = "write" -> Cardinality(ItemId) + 5
    [] pc[t] = "renumber" -> 4 + Len(todo[t])
    [] pc[t] = "again" -> 3
    [] pc[t] = "done" -> 0

\* Every step brings the transaction that takes it nearer its end, and no other
\* one farther from it: nothing is retried, and a list is renumbered once.
NearsTheEnd(t) ==
  /\ StepsLeft(t) \in Nat /\ StepsLeft(t)' \in Nat /\ StepsLeft(t)' < StepsLeft(t)
  /\ \A u \in Txn \ {t} : StepsLeft(u)' = StepsLeft(u)

StepsRunOut == [][\E t \in Txn : NearsTheEnd(t)]_vars

\* The guards of the statements of t: it is at one that waits for nobody, and
\* that has what it chooses from, or it is aborted.
CanStep(t) ==
  \/ pc[t] \in {"select", "revive", "read", "place", "again", "index", "delete", "commit"}
       /\ Blockers(t) = {}
  \/ pc[t] \in {"insert", "renumber"} /\ Blockers(t) = {} /\ snap[t] # {}
  \/ pc[t] = "write" /\ Blockers(t) = {}
       /\ SetToSeqs(DOMAIN items \ {i \in DOMAIN items : owner[i] = t}) # {}
  \/ Deadlocked(t)

\* While a request is unanswered, the next statement of some transaction can run.
SomeoneCanStep == (\E t \in Txn : Busy(t)) => \E t \in Txn : Busy(t) /\ CanStep(t)

\* A finite set of rows can be met in some order, which is as long as it is large.
LEMMA RowsHaveAnOrder ==
  ASSUME NEW S \in SUBSET ItemId
  PROVE  /\ Cardinality(ItemId) \in Nat
         /\ SetToSeqs(S) # {}
         /\ \A s \in SetToSeqs(S) : Len(s) \in Nat /\ Len(s) <= Cardinality(ItemId)
<1> DEFINE n == Cardinality(S)
<1>1. /\ IsFiniteSet(S) /\ n \in Nat /\ Cardinality(ItemId) \in Nat
      /\ n <= Cardinality(ItemId)
  BY ItemTxnAssumption, FS_Subset, FS_CardinalityType
<1>2. PICK f \in Bijection(1 .. n, S) : TRUE
  BY <1>1, FS_CardinalityType DEF ExistsBijection
<1>3. f \in SetToSeqs(S)
  BY <1>2 DEF Bijection, Injection, IsInjective, SetToSeqs
<1>4. ASSUME NEW s \in SetToSeqs(S) PROVE Len(s) = n
  <2>1. DOMAIN s = 1 .. n /\ s \in Seq(S)
    BY <1>1, <1>4, OrderFacts DEF SetToSeqs
  <2> QED BY <1>1, <2>1, LenProperties
<1> QED BY <1>1, <1>3, <1>4

\* A reorder reads one row, or two.
LEMMA FewNeighbours ==
  ASSUME NEW t
  PROVE  target(t) \in Targets(ItemId) => Len(Neighbours(t)) \in {1, 2}
BY DEF Neighbours, Targets

\* A step leaves the other transactions where they are.
LEMMA OthersStay ==
  ASSUME IInv, NEW t \in Txn, Step(t) \/ \E r \in Requests : Begin(t, r)
  PROVE  \A u \in Txn \ {t} : pc'[u] = pc[u] /\ todo'[u] = todo[u]
<1> DEFINE Stays(f) == \A u \in Txn \ {t} : f'[u] = f[u]
<1>1. pc \in [Txn -> Statements] /\ todo \in [Txn -> Seq(ItemId)]
  BY DEF IInv, TypeOK
<1>2. \A s : Goes(t, s) => Stays(pc)
  BY <1>1 DEF Goes
<1>3. \A s : todo' = [todo EXCEPT ![t] = s] => Stays(todo)
  BY <1>1
<1>4. (UNCHANGED pc => Stays(pc)) /\ (UNCHANGED todo => Stays(todo))
  OBVIOUS
<1>5. ASSUME NEW a, Finish(t, a) PROVE Stays(pc) /\ Stays(todo)
  BY <1>2, <1>3, <1>5 DEF Finish
<1>6. \A a : Rollback(t, a) => Stays(pc) /\ Stays(todo)
  BY <1>5 DEF Rollback
<1> SUFFICES Stays(pc) /\ Stays(todo)
  OBVIOUS
<1> HIDE DEF Stays
<1>7. CASE \E r \in Requests : Begin(t, r)
  BY <1>2, <1>4, <1>7 DEF Begin, reads
<1>8. CASE Insert(t)
  BY <1>2, <1>4, <1>8 DEF Insert, reads
<1>9. CASE SelectHolder(t)
  BY <1>2, <1>3, <1>6, <1>9 DEF SelectHolder
<1>10. CASE Revive(t)
  BY <1>2, <1>4, <1>6, <1>10 DEF Revive, reads
<1>11. CASE Read(t)
  BY <1>2, <1>3, <1>4, <1>6, <1>11 DEF Read
<1>12. CASE Neighbour(t)
  BY <1>2, <1>3, <1>4, <1>6, <1>12 DEF Neighbour
<1>13. CASE Renormalizes(t)
  BY <1>2, <1>3, <1>13 DEF Renormalizes
<1>14. CASE RenormalizeRow(t)
  BY <1>3, <1>4, <1>14 DEF RenormalizeRow
<1>15. CASE Reread(t)
  BY <1>2, <1>4, <1>15 DEF Reread
<1>16. CASE Write(t)
  BY <1>2, <1>4, <1>6, <1>16 DEF Write, reads
<1>17. CASE TakeName(t)
  BY <1>2, <1>4, <1>6, <1>17 DEF TakeName, reads
<1>18. CASE Delete(t)
  BY <1>5, <1>6, <1>18 DEF Delete
<1>19. CASE Commit(t) \/ Abort(t)
  BY <1>5, <1>6, <1>19 DEF Commit, Abort
<1> QED BY <1>7, <1>8, <1>9, <1>10, <1>11, <1>12, <1>13, <1>14, <1>15, <1>16, <1>17, <1>18, <1>19
        DEF Step

\* A statement advances its own transaction.
LEMMA OwnStepNears ==
  ASSUME IInv, NEW t \in Txn, Step(t) \/ \E r \in Requests : Begin(t, r)
  PROVE  StepsLeft(t) \in Nat /\ StepsLeft(t)' \in Nat /\ StepsLeft(t)' < StepsLeft(t)
<1> DEFINE Nearer == StepsLeft(t) \in Nat /\ StepsLeft(t)' \in Nat /\ StepsLeft(t)' < StepsLeft(t)
           n == Cardinality(ItemId)
<1>0. n \in Nat
  BY RowsHaveAnOrder
<1>1. /\ pc \in [Txn -> Statements] /\ todo \in [Txn -> Seq(ItemId)]
      /\ pc[t] \in Statements /\ todo[t] \in Seq(ItemId) /\ Len(todo[t]) \in Nat
      /\ n \in Nat /\ StageOK(t)
  BY <1>0 DEF IInv, TypeOK, LocalInv
<1>2. todo[t] # <<>> => Len(todo[t]) > 0 /\ Len(Tail(todo[t])) = Len(todo[t]) - 1
  BY <1>1, HeadTailProperties, EmptySeq
<1>3. ASSUME NEW a, Finish(t, a), pc[t] \notin {"idle", "done"} PROVE Nearer
  <2>1. pc'[t] = "done"
    BY <1>1, <1>3 DEF Finish, Goes
  <2>2. StepsLeft(t)' = 0
    BY <2>1 DEF StepsLeft
  <2>3. StepsLeft(t) \in Nat /\ StepsLeft(t) > 0
    <3>1. \/ pc[t] \in {"insert", "select", "revive", "index", "delete", "commit", "again"}
          \/ pc[t] \in {"read", "place", "write", "renumber"}
      BY <1>1, <1>3 DEF Statements
    <3>2. CASE pc[t] \in {"insert", "select", "revive", "index", "delete", "commit", "again"}
      <4>1. StepsLeft(t) \in {4, 3, 2, 1}
        BY <3>2 DEF StepsLeft
      <4> QED BY <4>1
    <3>3. CASE pc[t] \in {"read", "place", "write", "renumber"}
      <4>1. StepsLeft(t) \in {n + 8, n + 5 + Len(todo[t]), n + 5, 4 + Len(todo[t])}
        BY <3>3 DEF StepsLeft
      <4> QED BY <1>1, <4>1
    <3> QED BY <3>1, <3>2, <3>3
  <2> QED BY <2>2, <2>3
<1>4. ASSUME NEW a, Rollback(t, a), pc[t] \notin {"idle", "done"} PROVE Nearer
  BY <1>3, <1>4 DEF Rollback
<1>5. \A s : Goes(t, s) => pc'[t] = s
  BY <1>1 DEF Goes
<1>6. CASE \E r \in Requests : Begin(t, r)
  <2>1. pc[t] = "idle" /\ pc'[t] \in {"insert", "read", "delete"}
    BY <1>5, <1>6, ItemTxnAssumption DEF Begin
  <2> QED BY <1>1, <2>1 DEF StepsLeft
<1>7. CASE Insert(t)
  <2>1. pc[t] = "insert" /\ pc'[t] \in {"commit", "select"}
    BY <1>5, <1>7, AtIs DEF Insert
  <2>2. StepsLeft(t) = 4 /\ StepsLeft(t)' \in {1, 3}
    BY <2>1 DEF StepsLeft
  <2> QED BY <2>2
<1>8. CASE SelectHolder(t)
  <2>1. pc[t] = "select" /\ (pc'[t] = "revive" \/ \E a : Rollback(t, a))
    BY <1>5, <1>8, AtIs DEF SelectHolder
  <2>2. CASE pc'[t] = "revive"
    BY <2>1, <2>2 DEF StepsLeft
  <2> QED BY <1>4, <2>1, <2>2
<1>9. CASE Revive(t)
  <2>1. pc[t] = "revive" /\ (pc'[t] = "commit" \/ \E a : Rollback(t, a))
    BY <1>5, <1>9, AtIs DEF Revive
  <2>2. CASE pc'[t] = "commit"
    BY <2>1, <2>2 DEF StepsLeft
  <2> QED BY <1>4, <2>1, <2>2
<1>10. CASE Read(t)
  <2>1. /\ pc[t] = "read"
        /\ \/ \E a : Rollback(t, a)
           \/ pc'[t] = "write"
           \/ target(t) # Nil /\ pc'[t] = "place" /\ todo'[t] = Neighbours(t)
    BY <1>1, <1>5, <1>10, AtIs DEF Read
  <2>2. CASE pc'[t] = "write"
    BY <1>1, <2>1, <2>2 DEF StepsLeft
  <2>3. CASE target(t) # Nil /\ pc'[t] = "place" /\ todo'[t] = Neighbours(t)
    <3>1. target(t) \in Targets(ItemId)
      BY <1>1, <2>1, <2>3, RequestFacts DEF StageOK
    <3>2. Len(todo'[t]) \in {1, 2}
      BY <2>3, <3>1, FewNeighbours
    <3>3. StepsLeft(t) = n + 8
      BY <2>1 DEF StepsLeft
    <3>4. StepsLeft(t)' = n + 5 + Len(todo'[t])
      BY <2>3 DEF StepsLeft
    <3>5. StepsLeft(t) \in Nat /\ StepsLeft(t)' \in Nat /\ StepsLeft(t)' < StepsLeft(t)
      <4>1. \A a, b, c : a \in Nat /\ b = a + 8 /\ (c = a + 5 + 1 \/ c = a + 5 + 2)
                           => b \in Nat /\ c \in Nat /\ c < b
        OBVIOUS
      <4> HIDE DEF n
      <4> QED BY <1>0, <3>2, <3>3, <3>4, <4>1
    <3> QED BY <3>5
  <2>4. CASE \E a : Rollback(t, a)
    BY <1>4, <2>1, <2>4
  <2> QED BY <2>1, <2>2, <2>3, <2>4
<1>11. CASE Neighbour(t)
  <2>1. /\ pc[t] = "place" /\ todo[t] # <<>>
        /\ \/ \E a : Rollback(t, a)
           \/ pc'[t] = "write"
           \/ pc'[t] = "place" /\ todo'[t] = Tail(todo[t])
    BY <1>1, <1>5, <1>11, AtIs DEF Neighbour, StageOK
  <2>2. CASE pc'[t] = "write"
    BY <1>1, <1>2, <2>1, <2>2 DEF StepsLeft
  <2>3. CASE pc'[t] = "place" /\ todo'[t] = Tail(todo[t])
    BY <1>1, <1>2, <2>1, <2>3 DEF StepsLeft
  <2> QED BY <1>4, <2>1, <2>2, <2>3
<1>12. CASE Renormalizes(t)
  <2>1. /\ pc[t] = "write" /\ pc'[t] = "renumber"
        /\ todo'[t] \in SetToSeqs(DOMAIN items \ {i \in DOMAIN items : owner[i] = t})
    BY <1>1, <1>5, <1>12, AtIs DEF Renormalizes
  <2>2. Len(todo'[t]) \in Nat /\ Len(todo'[t]) <= n
    BY <2>1, RowsHaveAnOrder DEF IInv, TypeOK, IsTable
  <2> QED BY <1>1, <2>1, <2>2 DEF StepsLeft
<1>13. CASE RenormalizeRow(t)
  <2>1. pc[t] = "renumber" /\ pc'[t] = "renumber" /\ todo[t] # <<>> /\ todo'[t] = Tail(todo[t])
    BY <1>1, <1>13, AtIs DEF RenormalizeRow
  <2> QED BY <1>1, <1>2, <2>1 DEF StepsLeft
<1>14. CASE Reread(t)
  <2>1. pc[t] = "renumber" /\ pc'[t] = "again"
    BY <1>5, <1>14, AtIs DEF Reread
  <2> QED BY <1>1, <2>1 DEF StepsLeft
<1>15. CASE Write(t)
  <2>1. /\ pc[t] \in {"again", "write"}
        /\ pc'[t] \in {"commit", "index"} \/ \E a : Rollback(t, a)
    BY <1>5, <1>15, AtIs DEF Write
  <2>2. CASE pc'[t] \in {"commit", "index"}
    BY <1>1, <2>1, <2>2 DEF StepsLeft
  <2> QED BY <1>4, <2>1, <2>2
<1>16. CASE TakeName(t)
  <2>1. pc[t] = "index" /\ (pc'[t] = "commit" \/ \E a : Rollback(t, a))
    BY <1>5, <1>16, AtIs DEF TakeName
  <2>2. CASE pc'[t] = "commit"
    BY <2>1, <2>2 DEF StepsLeft
  <2> QED BY <1>4, <2>1, <2>2
<1>17. CASE Delete(t)
  BY <1>3, <1>4, <1>17, AtIs DEF Delete
<1>18. CASE Commit(t)
  BY <1>3, <1>18, AtIs DEF Commit
<1>19. CASE Abort(t)
  BY <1>4, <1>19, Waits DEF Abort
<1> QED BY <1>6, <1>7, <1>8, <1>9, <1>10, <1>11, <1>12, <1>13, <1>14, <1>15, <1>16, <1>17, <1>18,
           <1>19 DEF Step

\* Whatever requests run at once, the next statement of one of them can run: with
\* TransactionsEnd, no server that runs what it can leaves a request unanswered.
THEOREM OneCanAlwaysStep == Spec => []SomeoneCanStep
<1>1. IInv /\ SomeoneIsFree => SomeoneCanStep
  <2> SUFFICES ASSUME IInv, SomeoneIsFree, NEW t \in Txn, Busy(t)
               PROVE  \E u \in Txn : Busy(u) /\ CanStep(u)
    BY DEF SomeoneCanStep
  <2>1. PICK u \in Txn : Busy(u) /\ (Blockers(u) = {} \/ Deadlocked(u))
    BY DEF SomeoneIsFree
  <2>2. pc[u] \in Statements \ {"idle", "done"} /\ StageOK(u)
    BY <2>1 DEF Busy, IInv, TypeOK, LocalInv
  <2>3. pc[u] \in {"insert", "renumber"} => snap[u] # {}
    BY <2>2 DEF StageOK
  <2>4. SetToSeqs(DOMAIN items \ {i \in DOMAIN items : owner[i] = u}) # {}
    BY RowsHaveAnOrder DEF IInv, TypeOK, IsTable
  <2> QED BY <2>1, <2>2, <2>3, <2>4 DEF CanStep, Statements
<1> QED BY <1>1, Inductive, NeverAllWait, PTL

\* Every transaction ends after a number of steps that it does not choose: no
\* statement of items.go is repeated but for the rows of its list, whatever the
\* others do meanwhile.
THEOREM TransactionsEnd == Spec => StepsRunOut
<1>1. IInv /\ [Next]_vars => [\E t \in Txn : NearsTheEnd(t)]_vars
  <2> SUFFICES ASSUME IInv, Next PROVE \E t \in Txn : NearsTheEnd(t)
    OBVIOUS
  <2>1. PICK t \in Txn : Step(t) \/ \E r \in Requests : Begin(t, r)
    BY DEF Next
  <2>2. \A u \in Txn \ {t} : StepsLeft(u)' = StepsLeft(u)
    BY <2>1, OthersStay DEF StepsLeft
  <2> QED BY <2>1, <2>2, OwnStepNears DEF NearsTheEnd
<1> QED BY <1>1, Inductive, PTL DEF Spec, StepsRunOut
=============================================================================
