------------------------------ MODULE ItemTxn ------------------------------
(***************************************************************************)
(* Concurrent transactions on the items of one list, statement by          *)
(* statement: CreateOrRevive, Update and Delete of items.go with the       *)
(* reorder of position.go, as PostgreSQL runs them under READ COMMITTED.   *)
(* Store has the same methods run one at a time.                           *)
(*                                                                         *)
(* What the code relies on PostgreSQL for is modelled as it uses it: a     *)
(* statement works on the rows committed when it starts and on its own     *)
(* transaction's; a row that another transaction has locked is waited for  *)
(* and then taken as it is by then, or skipped if it is gone; what a       *)
(* statement has already computed from its snapshot is not computed again; *)
(* the unique index waits for a transaction that is writing a row of the   *)
(* name; one member of a cycle of waiting transactions is aborted.         *)
(*                                                                         *)
(* The id of the item that an add inserts is fresh; its transaction's      *)
(* number stands for it.  The list itself stays: ListTxn deletes it.       *)
(***************************************************************************)
EXTENDS StoreOps, SequencesExt

CONSTANTS
  Txn,      \* transactions, one request each
  List,     \* the list
  Tables,   \* the tables of its items to begin with
  Epoch,    \* a time at which those items exist
  Requests  \* the requests considered

Row == [list : {List}, name : Name, checked : BOOLEAN, note : BOOLEAN, pos : Int, born : Nat]

ASSUME ItemTxnAssumption ==
  /\ IsFiniteSet(ItemId) /\ Txn \subseteq ItemId
  /\ List \in ListId /\ Epoch \in Nat
  /\ \A T \in Tables :
       /\ IsTable(T, ItemId \ Txn, Row)
       /\ \A i, j \in DOMAIN T : T[i].name = T[j].name => i = j
  /\ Requests \subseteq [op : {"add", "update", "delete"}, item : ItemId \cup {Nil},
                        patch : Patches(Name, ItemId)]
  /\ \A r \in Requests : IF r.op = "add" THEN r.patch.name # Nil ELSE r.item # Nil

VARIABLES
  items,    \* the committed rows
  owner,    \* the transaction that holds a row FOR UPDATE, or Nil
  req,      \* the request a transaction serves, or Nil
  pc,       \* the statement a transaction is at
  born,     \* its now()
  todo,     \* the rows its statements have still to lock
  seen,     \* the rows it has read
  written,  \* the row versions it has written
  snap,     \* the snapshot that a statement has computed from, if any
  answer    \* its answer, or Nil

reads == <<todo, seen>>
vars  == <<items, owner, req, pc, born, reads, written, snap, answer>>

Empty == [i \in {} |-> Nil]

\* A table as a transaction sees it that has written some rows of it.
Over(w, table) ==
  [i \in DOMAIN w \cup DOMAIN table |-> IF i \in DOMAIN w THEN w[i] ELSE table[i]]

Init ==
  /\ items \in Tables
  /\ owner = [i \in ItemId |-> Nil]
  /\ req = [t \in Txn |-> Nil]
  /\ pc = [t \in Txn |-> "idle"]
  /\ born = [t \in Txn |-> 0]
  /\ todo = [t \in Txn |-> <<>>]
  /\ seen = [t \in Txn |-> Empty]
  /\ written = [t \in Txn |-> Empty]
  /\ snap = [t \in Txn |-> {}]
  /\ answer = [t \in Txn |-> Nil]

-----------------------------------------------------------------------------
\* Who waits for whom

\* The row whose lock the next step of t takes.
Wanted(t) == IF todo[t] # <<>> THEN Head(todo[t]) ELSE req[t].item

Lockers(t) == {owner[Wanted(t)]} \ {Nil, t}

\* Mutant: no unique index.
NameWritersNone(t) == {}

\* The transactions that have written a row of the name, or are taking it from one.
NameWriters(t) ==
  {u \in Txn \ {t} : \E i \in DOMAIN written[u] :
     \/ written[u][i].name = req[t].patch.name
     \/ i \in DOMAIN items /\ items[i].name = req[t].patch.name}

Blockers(t) ==
  CASE pc[t] \in {"delete", "read", "place", "revive"} -> Lockers(t)
    [] pc[t] = "renumber" -> IF todo[t] = <<>> THEN {} ELSE Lockers(t)
    [] pc[t] \in {"insert", "index"} -> NameWriters(t)
    [] OTHER -> {}

\* t waits for itself: every set closed under waiting that holds those it
\* waits for holds t as well.
Deadlocked(t) ==
  \A C \in SUBSET Txn :
    Blockers(t) \subseteq C /\ (\A u \in C : Blockers(u) \subseteq C) => t \in C

At(t, statement) == pc[t] = statement /\ Blockers(t) = {}

-----------------------------------------------------------------------------

Goes(t, statement) == pc' = [pc EXCEPT ![t] = statement]

\* Mutant: the locks stay held.
FinishLocked(t, a) ==
  /\ Goes(t, "done")
  /\ answer' = [answer EXCEPT ![t] = a]
  /\ todo' = [todo EXCEPT ![t] = <<>>]
  /\ seen' = [seen EXCEPT ![t] = Empty]
  /\ written' = [written EXCEPT ![t] = Empty]
  /\ snap' = [snap EXCEPT ![t] = {}]
  /\ UNCHANGED <<owner, req, born>>

\* The transaction ends, its locks are released and what it did not commit is gone.
Finish(t, a) ==
  /\ Goes(t, "done")
  /\ answer' = [answer EXCEPT ![t] = a]
  /\ owner' = [i \in ItemId |-> IF owner[i] = t THEN Nil ELSE owner[i]]
  /\ todo' = [todo EXCEPT ![t] = <<>>]
  /\ seen' = [seen EXCEPT ![t] = Empty]
  /\ written' = [written EXCEPT ![t] = Empty]
  /\ snap' = [snap EXCEPT ![t] = {}]
  /\ UNCHANGED <<req, born>>

Rollback(t, a) == Finish(t, a) /\ UNCHANGED items

Commit(t) ==
  /\ At(t, "commit")
  /\ items' = Over(written[t], items)
  /\ Finish(t, "none")

\* deadlock_detected, which the handler answers as an internal error.
Abort(t) == Deadlocked(t) /\ Rollback(t, "internal")

\* The transaction begins, and its first statement takes its snapshot.
Begin(t, r) ==
  /\ pc[t] = "idle"
  /\ req' = [req EXCEPT ![t] = r]
  /\ Goes(t, CASE r.op = "add" -> "insert" [] r.op = "update" -> "read" [] r.op = "delete" -> "delete")
  /\ born' = [born EXCEPT ![t] = Epoch + Cardinality({u \in Txn : pc[u] # "idle"}) + 1]
  /\ snap' = [snap EXCEPT ![t] = IF r.op = "add" THEN {items} ELSE {}]
  /\ UNCHANGED <<items, owner, reads, written, answer>>

\* Mutant: a SELECT without FOR UPDATE.
LockNot(t, i) == UNCHANGED owner

Lock(t, i) == owner' = [owner EXCEPT ![i] = t]

Writes(t, i, row) == written' = [written EXCEPT ![t] = With(@, i, row)]

-----------------------------------------------------------------------------
\* CreateOrRevive

\* INSERT ... ON CONFLICT (list_id, name) DO NOTHING; its position was computed
\* before it waited.
Insert(t) ==
  /\ At(t, "insert")
  /\ IF Holders(items, List, req[t].patch.name) = {}
     THEN /\ \E T \in snap[t] :
               Writes(t, t, [NewItem(T, List, req[t].patch.name) EXCEPT !.born = born[t]])
          /\ Goes(t, "commit")
          /\ UNCHANGED snap
     ELSE /\ Goes(t, "select")
          /\ snap' = [snap EXCEPT ![t] = {}]
          /\ UNCHANGED written
  /\ UNCHANGED <<items, owner, req, born, reads, answer>>

\* SELECT ... WHERE name = $2 FOR UPDATE finds a row, or none,
SelectHolder(t) ==
  /\ At(t, "select")
  /\ IF Holders(items, List, req[t].patch.name) = {}
     THEN Rollback(t, "not_found")
     ELSE /\ \E i \in Holders(items, List, req[t].patch.name) :
               todo' = [todo EXCEPT ![t] = <<i>>]
          /\ Goes(t, "revive")
          /\ UNCHANGED <<items, owner, req, born, seen, written, snap, answer>>

\* and, when it has the lock, looks again; then the UPDATE.
Revive(t) ==
  LET i == Head(todo[t]) IN
  /\ At(t, "revive")
  /\ IF i \notin Holders(items, List, req[t].patch.name)
     THEN Rollback(t, "not_found")
     ELSE /\ Lock(t, i)
          /\ IF items[i].checked \/ items[i].note
             THEN Writes(t, i, Revived(items[i]))
             ELSE UNCHANGED written
          /\ Goes(t, "commit")
          /\ UNCHANGED <<items, req, born, reads, snap, answer>>

-----------------------------------------------------------------------------
\* Update

target(t) == req[t].patch.reorder

\* The rows whose positions are selected, in the order of the statements.
Neighbours(t) ==
  LET above == target(t).after  below == target(t).before IN
  CASE above = Nil /\ below = Nil -> <<req[t].item>>
    [] above # Nil /\ below = Nil -> <<above>>
    [] above = Nil /\ below # Nil -> <<below>>
    [] above # Nil /\ below # Nil -> <<above, below>>

\* SELECT ... FOR UPDATE of the row itself.
Read(t) ==
  LET i == req[t].item IN
  /\ At(t, "read")
  /\ IF i \notin DOMAIN items
     THEN Rollback(t, "not_found")
     ELSE /\ Lock(t, i)
          /\ seen' = [seen EXCEPT ![t] = With(@, i, items[i])]
          /\ IF target(t) = Nil
             THEN Goes(t, "write") /\ UNCHANGED todo
             ELSE Goes(t, "place") /\ todo' = [todo EXCEPT ![t] = Neighbours(t)]
          /\ UNCHANGED <<items, req, born, written, snap, answer>>

\* Mutant: neighborPosition without FOR UPDATE.
LockNeighbourNot(t, i) == UNCHANGED owner

LockNeighbour(t, i) == Lock(t, i)

\* neighborPosition: SELECT ... FOR UPDATE of the next neighbour.
Neighbour(t) ==
  LET i == Head(todo[t]) IN
  /\ At(t, "place")
  /\ IF i \notin DOMAIN items
     THEN Rollback(t, "not_found")
     ELSE /\ LockNeighbour(t, i)
          /\ seen' = [seen EXCEPT ![t] = With(@, i, items[i])]
          /\ todo' = [todo EXCEPT ![t] = Tail(@)]
          /\ IF Tail(todo[t]) = <<>> THEN Goes(t, "write") ELSE UNCHANGED pc
          /\ UNCHANGED <<items, req, born, written, snap, answer>>

\* What tryComputePosition makes of the positions read.
Placed(t) ==
  IF target(t) = Nil THEN [err |-> "none", pos |-> seen[t][req[t].item].pos]
  ELSE TryComputePosition(seen[t], List, req[t].item, target(t))

\* renormalize: the row numbers are those of the snapshot, also for a row that
\* is waited for; the rows that are locked already come first.
Renumbered(table, i) == [items[i] EXCEPT !.pos = Renormalize(table, List)[i].pos]

Renormalizes(t) ==
  LET mine == {i \in DOMAIN items : owner[i] = t} IN
  /\ At(t, "write") /\ Placed(t).err = "exhausted"
  /\ snap' = [snap EXCEPT ![t] = {items}]
  /\ written' = [written EXCEPT ![t] = [i \in mine |-> Renumbered(items, i)]]
  /\ \E order \in SetToSeqs(DOMAIN items \ mine) : todo' = [todo EXCEPT ![t] = order]
  /\ Goes(t, "renumber")
  /\ UNCHANGED <<items, owner, req, born, seen, answer>>

RenormalizeRow(t) ==
  LET i == Head(todo[t]) IN
  /\ At(t, "renumber") /\ todo[t] # <<>>
  /\ todo' = [todo EXCEPT ![t] = Tail(@)]
  /\ IF i \in DOMAIN items
     THEN Lock(t, i) /\ \E T \in snap[t] : Writes(t, i, Renumbered(T, i))
     ELSE UNCHANGED <<owner, written>>
  /\ UNCHANGED <<items, req, pc, born, seen, snap, answer>>

\* The second tryComputePosition, of rows that are locked.
Reread(t) ==
  /\ At(t, "renumber") /\ todo[t] = <<>>
  /\ seen' = [seen EXCEPT ![t] =
             LET table == Over(written[t], items)
             IN  [i \in DOMAIN seen[t] \cap DOMAIN table |-> table[i]]]
  /\ Goes(t, "again")
  /\ UNCHANGED <<items, owner, req, born, todo, written, snap, answer>>

\* UPDATE items: the row is replaced,
Write(t) ==
  LET i == req[t].item IN
  /\ At(t, "again") \/ (At(t, "write") /\ Placed(t).err # "exhausted")
  /\ IF Placed(t).err # "none"
     THEN Rollback(t, IF Placed(t).err = "exhausted" THEN "internal" ELSE Placed(t).err)
     ELSE /\ Writes(t, i, PatchedRow(seen[t][i], req[t].patch, Placed(t).pos))
          /\ Goes(t, IF req[t].patch.name = Nil THEN "commit" ELSE "index")
          /\ UNCHANGED <<items, owner, req, born, reads, snap, answer>>

\* and the unique index takes a new name, or refuses it.
TakeName(t) ==
  /\ At(t, "index")
  /\ IF Holders(items, List, req[t].patch.name) \ {req[t].item} # {}
     THEN Rollback(t, "conflict")
     ELSE /\ Goes(t, "commit")
          /\ UNCHANGED <<items, owner, req, born, reads, written, snap, answer>>

-----------------------------------------------------------------------------
\* Delete, one statement that commits by itself.
Delete(t) ==
  /\ At(t, "delete")
  /\ IF req[t].item \notin DOMAIN items
     THEN Rollback(t, "not_found")
     ELSE items' = Without(items, {req[t].item}) /\ Finish(t, "none")

Step(t) ==
  \/ Insert(t) \/ SelectHolder(t) \/ Revive(t)
  \/ Read(t) \/ Neighbour(t) \/ Renormalizes(t) \/ RenormalizeRow(t) \/ Reread(t)
  \/ Write(t) \/ TakeName(t)
  \/ Delete(t) \/ Commit(t) \/ Abort(t)

Next == \E t \in Txn : Step(t) \/ \E r \in Requests : Begin(t, r)

Spec == Init /\ [][Next]_vars

-----------------------------------------------------------------------------

Statements ==
  {"idle", "insert", "select", "revive", "read", "place", "write", "renumber", "again",
   "index", "delete", "commit", "done"}

\* Tables hold rows of the list, and statements lock rows one after the other.
TypeOK ==
  /\ IsTable(items, ItemId, Row)
  /\ owner \in [ItemId -> Txn \cup {Nil}]
  /\ req \in [Txn -> Requests \cup {Nil}]
  /\ pc \in [Txn -> Statements]
  /\ born \in [Txn -> Nat]
  /\ todo \in [Txn -> Seq(ItemId)]
  /\ DOMAIN seen = Txn /\ DOMAIN written = Txn /\ DOMAIN snap = Txn
  /\ \A t \in Txn : \A T \in {seen[t], written[t]} \cup snap[t] : IsTable(T, ItemId, Row)

\* What the store method does that the transaction runs, alone on the table.
Alone(t) ==
  CASE req[t].op = "add"    -> CreateOrRevive(items, [l \in {List} |-> Nil], List,
                                              req[t].patch.name, t)
    [] req[t].op = "update" -> UpdateItem(items, List, req[t].item, req[t].patch)
    [] req[t].op = "delete" -> DeleteItem(items, List, req[t].item)

Ends(t) == pc[t] # "done" /\ pc'[t] = "done"

Unborn(table)   == [i \in DOMAIN table |-> [table[i] EXCEPT !.born = 0]]
Unplaced(table) == [i \in DOMAIN table |-> [table[i] EXCEPT !.born = 0, !.pos = 0]]

EndsAlone(t) ==
  Ends(t) =>
    \/ Deadlocked(t) /\ answer'[t] = "internal"
    \/ /\ answer'[t] = "not_found" /\ req[t].op = "add" /\ UNCHANGED items
       /\ pc[t] \in {"select", "revive"}
    \/ /\ answer'[t] = Alone(t).err
       /\ Unplaced(items') = Unplaced(Alone(t).items)
       /\ snap[t] \subseteq {items} => Unborn(items') = Unborn(Alone(t).items)

\* Every request is answered, and changes the items, as if it had run alone at
\* the moment it ends, but for three things: a victim of a deadlock, an add whose
\* row was deleted or renamed after it conflicted with it, and the positions that
\* an add or a renormalization computed from a table that others have changed.
EndsAsIfAlone == [][\A t \in Txn : EndsAlone(t)]_vars

Lands(t) ==
  Ends(t) /\ answer'[t] = "none" /\ req[t].op = "update"
    /\ target(t) # Nil /\ req[t].item \notin {target(t).after, target(t).before} =>
    LET p(i) == items'[i].pos
        i == req[t].item  above == target(t).after  below == target(t).before
    IN  /\ {i, above, below} \ {Nil} \subseteq DOMAIN items'
        /\ below = Nil /\ above # Nil => p(above) < p(i)
        /\ above = Nil /\ below # Nil => p(i) < p(below)
        /\ above # Nil /\ below # Nil =>
             \/ p(above) < p(i) /\ p(i) < p(below)
             \/ p(below) < p(i) /\ p(i) < p(above)

\* However many rows are moved and renumbered meanwhile, a reorder that is
\* answered leaves its row strictly between the neighbours it named, if it did
\* not name the row itself.
LandsBetween == [][\A t \in Txn : Lands(t)]_vars

\* No row and no name is waited for forever: while a request is unanswered,
\* some transaction can go on, and each of its steps brings it nearer its end.
SomeoneGoesOn ==
  (\E t \in Txn : pc[t] \notin {"idle", "done"}) => \E t \in Txn : ENABLED Step(t)
=============================================================================
