------------------------------ MODULE ListTxn ------------------------------
(***************************************************************************)
(* Concurrent transactions on the lists table, statement by statement:     *)
(* DeleteList, CreateList and RenameList of backend/internal/store/lists.go*)
(* and the foreign-key side of CreateOrRevive, as PostgreSQL runs them     *)
(* under READ COMMITTED.                                                   *)
(*                                                                         *)
(* What the code relies on PostgreSQL for is modelled as it uses it: a     *)
(* statement sees the rows committed when it starts; FOR UPDATE locks them *)
(* in heap order, waits for another transaction's lock, skips a row that   *)
(* was deleted meanwhile and follows one that was updated; a written row   *)
(* version lands anywhere in the heap; the foreign-key check of an insert  *)
(* takes FOR KEY SHARE, which FOR UPDATE excludes; a unique index makes a  *)
(* statement wait for a transaction that is giving up or taking the name;  *)
(* one member of a cycle of waiting transactions is aborted.               *)
(*                                                                         *)
(* A transaction serves one request.  The list a create inserts has a      *)
(* fresh uuid, so the transaction's own name stands for it, and likewise   *)
(* for the item an add inserts.                                            *)
(***************************************************************************)
EXTENDS Naturals, FiniteSets, SequencesExt

CONSTANTS
  Txn,       \* transactions, one request each
  Seeded,    \* the lists there are to begin with
  ListName,  \* case-folded list names
  Ops,       \* the requests considered: "delete", "create", "rename", "add"
  Nil

ListId == Seeded \cup Txn

Requests ==
  {r \in [op : Ops, list : ListId \cup {Nil}, name : ListName \cup {Nil}] :
     /\ r.list = Nil <=> r.op = "create"
     /\ r.name = Nil <=> r.op \in {"delete", "add"}}

ASSUME ListTxnAssumption ==
  /\ IsFiniteSet(Seeded) /\ Seeded # {}
  /\ IsFiniteSet(Txn) /\ Txn \cap Seeded = {}
  /\ Nil \notin Txn \cup Seeded \cup ListName \cup {"ok"} \cup Requests
  /\ Ops \subseteq {"delete", "create", "rename", "add"}

VARIABLES
  names,    \* committed table lists: the ids present, each with its name
  items,    \* committed table items: the ids present, each with its list
  heap,     \* the present ids in the order a scan meets their rows
  owner,    \* the transaction that holds a row FOR UPDATE, or Nil
  sharers,  \* the transactions that hold a row FOR KEY SHARE
  req,      \* the request a transaction serves, or Nil
  pc,       \* the statement a transaction is at
  todo,     \* rows its SELECT ... FOR UPDATE has still to lock
  counted,  \* rows its SELECT ... FOR UPDATE has locked
  answer    \* its answer, or Nil

locks == <<owner, sharers>>
vars  == <<names, items, heap, owner, sharers, req, pc, todo, counted, answer>>

Present == DOMAIN names

-----------------------------------------------------------------------------
\* Who waits for whom

\* Mutants: a SELECT without FOR UPDATE; one that shares rows with inserts.
LockersNone(t, l) == {}
LockersOwner(t, l) == {owner[l]} \ {Nil, t}

\* The transactions whose lock on the row of l a FOR UPDATE by t waits for.
Lockers(t, l) == ({owner[l]} \cup sharers[l]) \ {Nil, t}

\* Transactions that have written the row or the name they are to write, and
\* have not committed: an UPDATE replaces its row before it takes the new name.
Writers == {u \in Txn : pc[u] = "commit"}
Replacers == Writers \cup {u \in Txn : pc[u] = "name"}

\* Mutant: no unique index.
NameWritersNone(n) == {}

\* The transactions that are taking the name n, or giving it up.
NameWriters(n) ==
  {u \in Writers : req[u].op \in {"create", "rename"} /\ req[u].name = n}
    \cup
  {u \in Replacers : /\ req[u].op \in {"delete", "rename"}
                     /\ req[u].list \in Present
                     /\ names[req[u].list] = n}

\* The row the next step of t locks, if it locks one.
Wanted(t) ==
  IF pc[t] = "lock" /\ todo[t] # <<>> THEN Head(todo[t]) ELSE req[t].list

\* The transactions that t is waiting for.
Blockers(t) ==
  CASE pc[t] \in {"lock", "rename"} ->
         IF Wanted(t) \in Present THEN Lockers(t, Wanted(t)) ELSE {}
    [] pc[t] = "name" -> NameWriters(req[t].name) \ {t}
    [] pc[t] = "add"  -> {owner[req[t].list]} \ {Nil, t}
    [] OTHER          -> {}

\* t waits for itself: every set closed under waiting that holds those it
\* waits for holds t as well.
Deadlocked(t) ==
  \A C \in SUBSET Txn :
    Blockers(t) \subseteq C /\ (\A u \in C : Blockers(u) \subseteq C) => t \in C

-----------------------------------------------------------------------------

Init ==
  /\ names \in [Seeded -> ListName]
  /\ \A k, l \in Seeded : names[k] = names[l] => k = l
  /\ heap \in SetToSeqs(Seeded)
  /\ items = [i \in {} |-> Nil]
  /\ owner = [l \in ListId |-> Nil]
  /\ sharers = [l \in ListId |-> {}]
  /\ req = [t \in Txn |-> Nil]
  /\ pc = [t \in Txn |-> "idle"]
  /\ todo = [t \in Txn |-> <<>>]
  /\ counted = [t \in Txn |-> {}]
  /\ answer = [t \in Txn |-> Nil]

FirstStatement(op) ==
  CASE op = "delete" -> "lock"
    [] op = "create" -> "name"
    [] op = "rename" -> "rename"
    [] op = "add"    -> "add"

\* Mutant: the list to delete is locked before the others.
SnapshotOwnFirst(r) == <<r.list>> \o heap

\* The rows that DeleteList's SELECT ... FOR UPDATE sees, in scan order.
Snapshot(r) == heap

\* The first statement starts, with its snapshot.
Begin(t, r) ==
  /\ pc[t] = "idle"
  /\ req' = [req EXCEPT ![t] = r]
  /\ pc' = [pc EXCEPT ![t] = FirstStatement(r.op)]
  /\ todo' = [todo EXCEPT ![t] = IF r.op = "delete" THEN Snapshot(r) ELSE <<>>]
  /\ UNCHANGED <<names, items, heap, locks, counted, answer>>

\* Mutant: the locks stay held.
FinishLocked(t, a) ==
  /\ pc' = [pc EXCEPT ![t] = "done"]
  /\ answer' = [answer EXCEPT ![t] = a]
  /\ UNCHANGED locks

\* The transaction ends, by commit or rollback, and its locks are released.
Finish(t, a) ==
  /\ pc' = [pc EXCEPT ![t] = "done"]
  /\ answer' = [answer EXCEPT ![t] = a]
  /\ owner' = [l \in ListId |-> IF owner[l] = t THEN Nil ELSE owner[l]]
  /\ sharers' = [l \in ListId |-> sharers[l] \ {t}]

Rollback(t, a) ==
  /\ Finish(t, a)
  /\ UNCHANGED <<names, items, heap, req, todo, counted>>

Lock(t, l) == owner' = [owner EXCEPT ![l] = t]

\* DeleteList, SELECT count(*) FROM (SELECT id FROM lists FOR UPDATE): the next
\* row of the snapshot, if it is still there.
LockNext(t) ==
  /\ pc[t] = "lock" /\ todo[t] # <<>>
  /\ Blockers(t) = {}
  /\ todo' = [todo EXCEPT ![t] = Tail(@)]
  /\ IF Head(todo[t]) \in Present
     THEN /\ Lock(t, Head(todo[t]))
          /\ counted' = [counted EXCEPT ![t] = @ \cup {Head(todo[t])}]
     ELSE UNCHANGED <<owner, counted>>
  /\ UNCHANGED <<names, items, heap, sharers, req, pc, answer>>

\* Mutant: the rows affected are not looked at.
DeleteRowAnyway(t) ==
  /\ pc[t] = "lock" /\ todo[t] = <<>>
  /\ Blockers(t) = {}
  /\ IF Cardinality(counted[t]) <= 1
     THEN Rollback(t, "last_list")
     ELSE /\ Lock(t, req[t].list)
          /\ pc' = [pc EXCEPT ![t] = "commit"]
          /\ UNCHANGED <<names, items, heap, sharers, req, todo, counted, answer>>

\* DeleteList, DELETE FROM lists WHERE id = $1, and the two tests after it.
DeleteRow(t) ==
  /\ pc[t] = "lock" /\ todo[t] = <<>>
  /\ Blockers(t) = {}
  /\ IF req[t].list \notin Present
     THEN Rollback(t, "list_not_found")
     ELSE IF Cardinality(counted[t]) <= 1
     THEN Rollback(t, "last_list")
     ELSE /\ Lock(t, req[t].list)
          /\ pc' = [pc EXCEPT ![t] = "commit"]
          /\ UNCHANGED <<names, items, heap, sharers, req, todo, counted, answer>>

\* RenameList, UPDATE lists: the row is locked before the name is written.
LockRenamed(t) ==
  /\ pc[t] = "rename"
  /\ Blockers(t) = {}
  /\ IF req[t].list \notin Present
     THEN Rollback(t, "list_not_found")
     ELSE /\ Lock(t, req[t].list)
          /\ pc' = [pc EXCEPT ![t] = "name"]
          /\ UNCHANGED <<names, items, heap, sharers, req, todo, counted, answer>>

\* CreateList and RenameList: the unique index takes the name, or refuses it.
WriteName(t) ==
  /\ pc[t] = "name"
  /\ Blockers(t) = {}
  /\ IF \E k \in Present : /\ names[k] = req[t].name
                           /\ ~(req[t].op = "rename" /\ k = req[t].list)
     THEN Rollback(t, "conflict")
     ELSE /\ pc' = [pc EXCEPT ![t] = "commit"]
          /\ UNCHANGED <<names, items, heap, locks, req, todo, counted, answer>>

\* CreateOrRevive, the foreign-key check of its INSERT.
CheckList(t) ==
  /\ pc[t] = "add"
  /\ Blockers(t) = {}
  /\ IF req[t].list \notin Present
     THEN Rollback(t, "list_not_found")
     ELSE /\ sharers' = [sharers EXCEPT ![req[t].list] = @ \cup {t}]
          /\ pc' = [pc EXCEPT ![t] = "commit"]
          /\ UNCHANGED <<names, items, heap, owner, req, todo, counted, answer>>

\* The committed tables once t commits: names, and items with the cascade.
NamesAfter(t) ==
  CASE req[t].op = "delete" -> [k \in Present \ {req[t].list} |-> names[k]]
    [] req[t].op = "create" ->
         [k \in Present \cup {t} |-> IF k = t THEN req[t].name ELSE names[k]]
    [] req[t].op = "rename" -> [names EXCEPT ![req[t].list] = req[t].name]
    [] req[t].op = "add"    -> names

ItemsAfter(t) ==
  CASE req[t].op = "delete" ->
         [i \in {j \in DOMAIN items : items[j] # req[t].list} |-> items[i]]
    [] req[t].op = "add" ->
         [i \in DOMAIN items \cup {t} |-> IF i = t THEN req[t].list ELSE items[i]]
    [] OTHER -> items

Before(h, k, l) == \E i, j \in DOMAIN h : i < j /\ h[i] = k /\ h[j] = l

\* The scan orders a commit may leave: a new row version is put where there is
\* room, and the rows that were not written stay where they are.
HeapsAfter(t) ==
  LET written == IF req[t].op = "create" THEN {t}
                 ELSE IF req[t].op = "rename" THEN {req[t].list}
                 ELSE {}
  IN  {h \in SetToSeqs(DOMAIN NamesAfter(t)) :
         \A k, l \in DOMAIN NamesAfter(t) \ written :
           Before(h, k, l) <=> Before(heap, k, l)}

Commit(t) ==
  /\ pc[t] = "commit"
  /\ names' = NamesAfter(t)
  /\ items' = ItemsAfter(t)
  /\ heap' \in HeapsAfter(t)
  /\ Finish(t, "ok")
  /\ UNCHANGED <<req, todo, counted>>

\* deadlock_detected: one transaction of a cycle is aborted, which the handler
\* answers as an internal error.
Abort(t) ==
  /\ Deadlocked(t)
  /\ Rollback(t, "internal")

Step(t) ==
  \/ LockNext(t) \/ DeleteRow(t) \/ LockRenamed(t) \/ WriteName(t)
  \/ CheckList(t) \/ Commit(t) \/ Abort(t)

Next == \E t \in Txn : Step(t) \/ \E r \in Requests : Begin(t, r)

Spec == Init /\ [][Next]_vars

-----------------------------------------------------------------------------

Statements == {"idle", "lock", "name", "rename", "add", "commit", "done"}
Answers == {"ok", "list_not_found", "last_list", "conflict", "internal"}

\* The tables, the locks and the progress of each transaction are well formed.
TypeOK ==
  /\ Present \subseteq ListId /\ names \in [Present -> ListName]
  /\ DOMAIN items \subseteq Txn /\ items \in [DOMAIN items -> ListId]
  /\ heap \in Seq(ListId)
  /\ owner \in [ListId -> Txn \cup {Nil}]
  /\ sharers \in [ListId -> SUBSET Txn]
  /\ req \in [Txn -> Requests \cup {Nil}]
  /\ pc \in [Txn -> Statements]
  /\ todo \in [Txn -> Seq(ListId)]
  /\ counted \in [Txn -> SUBSET ListId]
  /\ answer \in [Txn -> Answers \cup {Nil}]

\* A list always survives: concurrent deletes of the remaining lists cannot all
\* succeed, whatever is created and renamed meanwhile.
ListSurvives == Present # {}

\* An item never ends up in a list that is gone, though it may be added while
\* the list is being deleted.
NoOrphans == \A i \in DOMAIN items : items[i] \in Present

\* Deletes and adds lock lists in one order and never deadlock; it takes a
\* concurrent rename or create to put the rows in another order.
DeletesNeverDeadlock ==
  (\A t \in Txn : req[t] # Nil => req[t].op \in {"delete", "add"})
    => \A t \in Txn : ~Deadlocked(t)

\* Of two deletes of one list, at most one is answered as done.
OneDeleteWins ==
  \A t, u \in Txn :
    /\ answer[t] = "ok" /\ answer[u] = "ok"
    /\ req[t].op = "delete" /\ req[u].op = "delete"
    /\ req[t].list = req[u].list
    => t = u

\* No lock is waited for forever: while a request is unanswered, some transaction
\* can go on, and each of its steps brings it nearer its end.
SomeoneGoesOn ==
  (\E t \in Txn : pc[t] \notin {"idle", "done"}) => \E t \in Txn : ENABLED Step(t)

Registry ==
  INSTANCE ListRegistry WITH ListId <- ListId, ListName <- ListName, names <- names

\* Seen from outside, the lists change one request at a time, keep unique names
\* and are never all deleted: the transactions implement the registry.
ImplementsRegistry == Registry!Spec
=============================================================================
