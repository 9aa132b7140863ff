--------------------------- MODULE ListTxnProofs ---------------------------
(***************************************************************************)
(* Theorems about ListTxn, for any number of transactions, lists and       *)
(* names.  The inductive invariant says what holding a lock is worth: the  *)
(* rows a DeleteList has counted are present and its own until it ends,    *)
(* and a row locked FOR UPDATE has no other transaction adding under it.   *)
(*                                                                         *)
(* At the end, without fairness: one of the transactions can always take   *)
(* its next step, and each step brings its transaction nearer its end.     *)
(***************************************************************************)
EXTENDS ListTxn, FiniteSetTheorems, SequenceTheorems, TLAPS

\* The rows counted by a running DeleteList are present, and locked by it.
CountedIsHeld ==
  \A t \in Txn : pc[t] \in {"lock", "commit"} =>
    \A l \in counted[t] : l \in Present /\ owner[l] = t

\* A writer about to commit holds the row it changes, and a delete has counted
\* another row besides.
WriterHoldsRow ==
  \A t \in Txn :
    /\ pc[t] = "commit" /\ req[t].op \in {"delete", "rename"}
         => req[t].list \in Present /\ owner[req[t].list] = t
    /\ pc[t] = "name" /\ req[t].op = "rename"
         => req[t].list \in Present /\ owner[req[t].list] = t
    /\ pc[t] = "commit" /\ req[t].op = "delete"
         => ~(Cardinality(counted[t]) <= 1)
    /\ pc[t] = "commit" /\ req[t].op = "add"
         => req[t].list \in Present /\ t \in sharers[req[t].list]

\* FOR UPDATE excludes FOR KEY SHARE.
UpdateExcludesShare ==
  \A l \in ListId : owner[l] # Nil => sharers[l] \subseteq {owner[l]}

\* What each statement is a statement of.
StatementOfRequest ==
  \A t \in Txn :
    /\ pc[t] # "idle" => req[t] \in Requests
    /\ pc[t] \in {"idle", "rename", "name", "add"} => counted[t] = {}
    /\ pc[t] = "lock" => req[t].op = "delete"
    /\ pc[t] = "rename" => req[t].op = "rename"
    /\ pc[t] = "name" => req[t].op \in {"create", "rename"}
    /\ pc[t] = "add" => req[t].op = "add"

IInv ==
  /\ TypeOK
  /\ StatementOfRequest
  /\ CountedIsHeld
  /\ WriterHoldsRow
  /\ UpdateExcludesShare
  /\ ListSurvives
  /\ NoOrphans

-----------------------------------------------------------------------------
\* Types

\* There are finitely many lists.
LEMMA FiniteLists ==
  ASSUME NEW S \in SUBSET ListId
  PROVE  IsFiniteSet(S)
<1>1. IsFiniteSet(ListId)
  BY ListTxnAssumption, FS_Union DEF ListId
<1> QED BY <1>1, FS_Subset

\* An enumeration of a finite set of lists is a sequence of lists.
LEMMA EnumerationType ==
  ASSUME NEW S \in SUBSET ListId, NEW h \in SetToSeqs(S)
  PROVE  h \in Seq(ListId)
<1>1. IsFiniteSet(S)
  BY FiniteLists
<1>2. Cardinality(S) \in Nat
  BY <1>1, FS_CardinalityType
<1>3. h \in [1 .. Cardinality(S) -> ListId]
  BY DEF SetToSeqs
<1> HIDE DEF ListId
<1> QED BY <1>2, <1>3, IsASeq

LEMMA RequestsType ==
  ASSUME NEW r \in Requests
  PROVE  /\ r.op \in {"delete", "create", "rename", "add"}
         /\ r.op # "create" => r.list \in ListId
         /\ r.op \in {"create", "rename"} => r.name \in ListName
BY ListTxnAssumption DEF Requests

LEMMA InitIInv == Init => IInv
<1> SUFFICES ASSUME Init PROVE IInv
  OBVIOUS
<1>1. heap \in Seq(ListId)
  <2>1. Seeded \in SUBSET ListId
    BY DEF ListId
  <2> QED BY <2>1, EnumerationType DEF Init
<1>2. TypeOK
  BY <1>1, ListTxnAssumption DEF Init, TypeOK, Present, ListId, Statements
<1>3. ListSurvives
  BY ListTxnAssumption DEF Init, ListSurvives, Present
<1>4. NoOrphans
  BY DEF Init, NoOrphans
<1>5. StatementOfRequest /\ CountedIsHeld /\ WriterHoldsRow /\ UpdateExcludesShare
  BY DEF Init, StatementOfRequest, CountedIsHeld, WriterHoldsRow, UpdateExcludesShare
<1> QED BY <1>2, <1>3, <1>4, <1>5 DEF IInv

-----------------------------------------------------------------------------
\* Steps that touch no committed row

\* Ending a transaction without committing keeps the invariant.
LEMMA RollbackIInv ==
  ASSUME IInv, NEW t \in Txn, NEW a \in Answers, Rollback(t, a), pc[t] # "idle"
  PROVE  IInv'
<1>1. TypeOK'
  BY DEF IInv, TypeOK, Rollback, Finish, Statements, Present
<1>2. StatementOfRequest'
  BY DEF IInv, TypeOK, StatementOfRequest, Rollback, Finish
<1>3. CountedIsHeld'
  BY DEF IInv, TypeOK, CountedIsHeld, Rollback, Finish, Present
<1>4. WriterHoldsRow'
  <2> SUFFICES ASSUME NEW u \in Txn, u # t
               PROVE  /\ pc[u] = "commit" /\ req[u].op \in {"delete", "rename"}
                           => req[u].list \in Present /\ owner'[req[u].list] = u
                      /\ pc[u] = "name" /\ req[u].op = "rename"
                           => req[u].list \in Present /\ owner'[req[u].list] = u
                      /\ pc[u] = "commit" /\ req[u].op = "add"
                           => req[u].list \in Present /\ u \in sharers'[req[u].list]
    BY DEF WriterHoldsRow, Rollback, Finish, IInv, TypeOK, Present
  <2>1. \A l \in Present : l \in ListId
    BY DEF IInv, TypeOK
  <2>2. \A l \in ListId : owner'[l] = (IF owner[l] = t THEN Nil ELSE owner[l])
    BY DEF Rollback, Finish
  <2>3. \A l \in ListId : sharers'[l] = sharers[l] \ {t}
    BY DEF Rollback, Finish
  <2> QED BY <2>1, <2>2, <2>3 DEF IInv, WriterHoldsRow
<1>5. UpdateExcludesShare'
  BY DEF IInv, TypeOK, UpdateExcludesShare, Rollback, Finish
<1>6. ListSurvives' /\ NoOrphans'
  BY DEF IInv, ListSurvives, NoOrphans, Rollback, Present
<1> QED BY <1>1, <1>2, <1>3, <1>4, <1>5, <1>6 DEF IInv

LEMMA BeginIInv ==
  ASSUME IInv, NEW t \in Txn, NEW r \in Requests, Begin(t, r)
  PROVE  IInv'
<1>1. FirstStatement(r.op) \in Statements /\ FirstStatement(r.op) \notin {"idle", "commit"}
  BY RequestsType DEF FirstStatement, Statements
<1>2. TypeOK'
  BY <1>1 DEF IInv, TypeOK, Begin, Snapshot, Present, locks
<1>3. StatementOfRequest'
  <2>1. /\ FirstStatement(r.op) = "lock" => r.op = "delete"
        /\ FirstStatement(r.op) = "rename" => r.op = "rename"
        /\ FirstStatement(r.op) = "name" => r.op \in {"create", "rename"}
        /\ FirstStatement(r.op) = "add" => r.op = "add"
    BY RequestsType DEF FirstStatement
  <2> QED BY <1>1, <2>1 DEF IInv, TypeOK, StatementOfRequest, Begin
<1>4. CountedIsHeld'
  BY DEF IInv, TypeOK, StatementOfRequest, CountedIsHeld, Begin, Present, locks
<1>5. WriterHoldsRow'
  <2>1. FirstStatement(r.op) = "name" => r.op = "create"
    BY RequestsType DEF FirstStatement
  <2> QED BY <1>1, <2>1 DEF IInv, TypeOK, WriterHoldsRow, Begin, Present, locks
<1>6. UpdateExcludesShare' /\ ListSurvives' /\ NoOrphans'
  BY DEF IInv, UpdateExcludesShare, ListSurvives, NoOrphans, Begin, Present, locks
<1> QED BY <1>2, <1>3, <1>4, <1>5, <1>6 DEF IInv

\* A row that is locked was free, or locked already by the same transaction:
\* no other transaction loses a lock, and no insert is under way below it.
LEMMA LockIsExclusive ==
  ASSUME IInv, NEW t \in Txn, NEW l \in ListId, Lockers(t, l) = {}, Lock(t, l)
  PROVE  /\ owner' \in [ListId -> Txn \cup {Nil}]
         /\ owner'[l] = t
         /\ \A k \in ListId : owner[k] \in Txn => owner'[k] = owner[k]
         /\ sharers' = sharers => UpdateExcludesShare'
<1>1. owner[l] \in {Nil, t} /\ sharers[l] \subseteq {t}
  BY ListTxnAssumption DEF Lockers, IInv, TypeOK
<1>2. /\ owner' \in [ListId -> Txn \cup {Nil}]
      /\ owner'[l] = t
      /\ \A k \in ListId \ {l} : owner'[k] = owner[k]
  BY DEF Lock, IInv, TypeOK
<1>3. \A k \in ListId : owner[k] \in Txn => owner'[k] = owner[k]
  BY <1>1, <1>2, ListTxnAssumption
<1>4. sharers' = sharers => UpdateExcludesShare'
  BY <1>1, <1>2 DEF UpdateExcludesShare, IInv
<1> QED BY <1>2, <1>3, <1>4

LEMMA LockNextIInv ==
  ASSUME IInv, NEW t \in Txn, LockNext(t)
  PROVE  IInv'
<1> DEFINE l == Head(todo[t])
<1>1. /\ l \in ListId /\ Tail(todo[t]) \in Seq(ListId)
  BY DEF IInv, TypeOK, LockNext
<1>2. Wanted(t) = l
  BY DEF LockNext, Wanted
<1> HIDE DEF l
<1>3. CASE l \in Present
  <2>1. Lock(t, l) /\ counted' = [counted EXCEPT ![t] = @ \cup {l}]
    BY <1>3 DEF LockNext, l
  <2>2. Lockers(t, l) = {}
    BY <1>2, <1>3 DEF LockNext, Blockers
  <2>3. /\ owner' \in [ListId -> Txn \cup {Nil}]
        /\ owner'[l] = t
        /\ \A k \in ListId : owner[k] \in Txn => owner'[k] = owner[k]
        /\ UpdateExcludesShare'
    BY <1>1, <2>1, <2>2, LockIsExclusive DEF LockNext
  <2>4. TypeOK'
    BY <1>1, <2>1, <2>3 DEF IInv, TypeOK, LockNext, Present, l
  <2>5. StatementOfRequest'
    BY <2>1 DEF IInv, TypeOK, StatementOfRequest, LockNext
  <2>6. CountedIsHeld'
    BY <1>1, <1>3, <2>1, <2>3 DEF IInv, TypeOK, CountedIsHeld, LockNext, Present
  <2>7. WriterHoldsRow'
    BY <2>1, <2>3, RequestsType DEF IInv, TypeOK, WriterHoldsRow, StatementOfRequest, LockNext, Present
  <2> QED BY <2>3, <2>4, <2>5, <2>6, <2>7 DEF IInv, LockNext, ListSurvives, NoOrphans, Present
<1>4. CASE l \notin Present
  <2>1. UNCHANGED <<names, items, heap, owner, sharers, req, pc, counted, answer>>
    BY <1>4 DEF LockNext, l
  <2>2. TypeOK'
    BY <1>1, <2>1 DEF IInv, TypeOK, LockNext, Present, l
  <2> QED BY <2>1, <2>2 DEF IInv, StatementOfRequest, CountedIsHeld, WriterHoldsRow,
                        UpdateExcludesShare, ListSurvives, NoOrphans, Present
<1> QED BY <1>3, <1>4

LEMMA DeleteRowIInv ==
  ASSUME IInv, NEW t \in Txn, DeleteRow(t)
  PROVE  IInv'
<1> DEFINE l == req[t].list
<1>1. /\ pc[t] = "lock" /\ req[t] \in Requests /\ req[t].op = "delete" /\ l \in ListId
  BY RequestsType DEF DeleteRow, IInv, StatementOfRequest
<1>2. CASE \E a \in Answers : Rollback(t, a)
  BY <1>1, <1>2, RollbackIInv
<1>3. CASE /\ l \in Present /\ ~(Cardinality(counted[t]) <= 1)
           /\ Lock(t, l)
           /\ pc' = [pc EXCEPT ![t] = "commit"]
           /\ UNCHANGED <<names, items, heap, sharers, req, todo, counted, answer>>
  <2>1. Wanted(t) = l
    BY DEF DeleteRow, Wanted
  <2>2. Lockers(t, l) = {}
    BY <1>1, <1>3, <2>1 DEF DeleteRow, Blockers
  <2> HIDE DEF l
  <2>3. /\ owner' \in [ListId -> Txn \cup {Nil}]
        /\ owner'[l] = t
        /\ \A k \in ListId : owner[k] \in Txn => owner'[k] = owner[k]
        /\ UpdateExcludesShare'
    BY <1>1, <1>3, <2>2, LockIsExclusive
  <2>4. TypeOK'
    BY <1>3, <2>3 DEF IInv, TypeOK, Present, Statements
  <2>5. StatementOfRequest'
    BY <1>1, <1>3 DEF IInv, TypeOK, StatementOfRequest
  <2>6. CountedIsHeld'
    BY <1>1, <1>3, <2>3 DEF IInv, TypeOK, CountedIsHeld, Present
  <2>7. WriterHoldsRow'
    BY <1>1, <1>3, <2>3, RequestsType
       DEF IInv, TypeOK, WriterHoldsRow, StatementOfRequest, Present, l
  <2> QED BY <1>3, <2>3, <2>4, <2>5, <2>6, <2>7 DEF IInv, ListSurvives, NoOrphans, Present
<1>4. {"list_not_found", "last_list"} \subseteq Answers
  BY DEF Answers
<1> QED BY <1>1, <1>2, <1>3, <1>4 DEF DeleteRow

LEMMA LockRenamedIInv ==
  ASSUME IInv, NEW t \in Txn, LockRenamed(t)
  PROVE  IInv'
<1> DEFINE l == req[t].list
<1>1. /\ pc[t] = "rename" /\ req[t] \in Requests /\ req[t].op = "rename" /\ l \in ListId
  BY RequestsType DEF LockRenamed, IInv, StatementOfRequest
<1>2. CASE Rollback(t, "list_not_found")
  BY <1>1, <1>2, RollbackIInv DEF Answers
<1>3. CASE /\ l \in Present
           /\ Lock(t, l)
           /\ pc' = [pc EXCEPT ![t] = "name"]
           /\ UNCHANGED <<names, items, heap, sharers, req, todo, counted, answer>>
  <2>1. Wanted(t) = l
    BY <1>1 DEF Wanted
  <2>2. Lockers(t, l) = {}
    BY <1>1, <1>3, <2>1 DEF LockRenamed, Blockers
  <2> HIDE DEF l
  <2>3. /\ owner' \in [ListId -> Txn \cup {Nil}]
        /\ owner'[l] = t
        /\ \A k \in ListId : owner[k] \in Txn => owner'[k] = owner[k]
        /\ UpdateExcludesShare'
    BY <1>1, <1>3, <2>2, LockIsExclusive
  <2>4. TypeOK'
    BY <1>3, <2>3 DEF IInv, TypeOK, Present, Statements
  <2>5. StatementOfRequest'
    BY <1>1, <1>3 DEF IInv, TypeOK, StatementOfRequest
  <2>6. CountedIsHeld'
    BY <1>1, <1>3, <2>3 DEF IInv, TypeOK, CountedIsHeld, Present
  <2>7. WriterHoldsRow'
    BY <1>1, <1>3, <2>3, RequestsType
       DEF IInv, TypeOK, WriterHoldsRow, StatementOfRequest, Present, l
  <2> QED BY <1>3, <2>3, <2>4, <2>5, <2>6, <2>7 DEF IInv, ListSurvives, NoOrphans, Present
<1> QED BY <1>2, <1>3 DEF LockRenamed

LEMMA WriteNameIInv ==
  ASSUME IInv, NEW t \in Txn, WriteName(t)
  PROVE  IInv'
<1>1. /\ pc[t] = "name" /\ req[t] \in Requests /\ req[t].op \in {"create", "rename"}
  BY DEF WriteName, IInv, StatementOfRequest
<1>2. CASE Rollback(t, "conflict")
  BY <1>1, <1>2, RollbackIInv DEF Answers
<1>3. CASE /\ pc' = [pc EXCEPT ![t] = "commit"]
           /\ UNCHANGED <<names, items, heap, locks, req, todo, counted, answer>>
  <2>1. UNCHANGED <<names, items, heap, owner, sharers, req, todo, counted, answer>>
    BY <1>3 DEF locks
  <2>2. TypeOK'
    BY <1>3, <2>1 DEF IInv, TypeOK, Present, Statements
  <2>3. StatementOfRequest'
    BY <1>1, <1>3, <2>1 DEF IInv, TypeOK, StatementOfRequest
  <2>4. counted[t] \in SUBSET ListId
    BY DEF IInv, TypeOK
  <2>5. CountedIsHeld'
    <3>1. counted[t] = {}
      BY <1>1 DEF IInv, StatementOfRequest
    <3> QED BY <1>3, <2>1, <3>1 DEF IInv, TypeOK, CountedIsHeld, Present
  <2>6. WriterHoldsRow'
    BY <1>1, <1>3, <2>1 DEF IInv, TypeOK, WriterHoldsRow, Present
  <2>7. UpdateExcludesShare' /\ ListSurvives' /\ NoOrphans'
    BY <2>1 DEF IInv, UpdateExcludesShare, ListSurvives, NoOrphans, Present
  <2> QED BY <2>2, <2>3, <2>5, <2>6, <2>7 DEF IInv
<1> QED BY <1>2, <1>3 DEF WriteName

LEMMA CheckListIInv ==
  ASSUME IInv, NEW t \in Txn, CheckList(t)
  PROVE  IInv'
<1> DEFINE l == req[t].list
<1>1. /\ pc[t] = "add" /\ req[t] \in Requests /\ req[t].op = "add" /\ l \in ListId
  BY RequestsType DEF CheckList, IInv, StatementOfRequest
<1>2. CASE Rollback(t, "list_not_found")
  BY <1>1, <1>2, RollbackIInv DEF Answers
<1>3. CASE /\ l \in Present
           /\ sharers' = [sharers EXCEPT ![l] = @ \cup {t}]
           /\ pc' = [pc EXCEPT ![t] = "commit"]
           /\ UNCHANGED <<names, items, heap, owner, req, todo, counted, answer>>
  <2>1. owner[l] \in {Nil, t}
    BY <1>1 DEF CheckList, Blockers
  <2>2. TypeOK'
    BY <1>1, <1>3 DEF IInv, TypeOK, Present, Statements
  <2>3. StatementOfRequest'
    BY <1>1, <1>3 DEF IInv, TypeOK, StatementOfRequest
  <2>4. CountedIsHeld'
    <3>1. counted[t] = {}
      BY <1>1 DEF IInv, StatementOfRequest
    <3> QED BY <1>3, <3>1 DEF IInv, TypeOK, CountedIsHeld, Present
  <2>5. UpdateExcludesShare'
    BY <1>1, <1>3, <2>1 DEF IInv, TypeOK, UpdateExcludesShare
  <2>6. WriterHoldsRow'
    <3>1. \A u \in Txn \ {t} : pc'[u] = pc[u]
      BY <1>3 DEF IInv, TypeOK
    <3>2. pc'[t] = "commit"
      BY <1>3 DEF IInv, TypeOK
    <3>3. \A k \in ListId : sharers[k] \subseteq sharers'[k]
      BY <1>1, <1>3 DEF IInv, TypeOK
    <3>4. t \in sharers'[l]
      BY <1>1, <1>3 DEF IInv, TypeOK
    <3>5. Present \subseteq ListId
      BY DEF IInv, TypeOK
    <3> QED BY <1>1, <1>3, <3>1, <3>2, <3>3, <3>4, <3>5 DEF IInv, WriterHoldsRow, Present
  <2> QED BY <1>3, <2>2, <2>3, <2>4, <2>5, <2>6 DEF IInv, ListSurvives, NoOrphans, Present
<1> QED BY <1>2, <1>3 DEF CheckList

-----------------------------------------------------------------------------
\* Commits and aborts

\* Of more than one row, one is not the row deleted.
LEMMA AnotherCounted ==
  ASSUME NEW S \in SUBSET ListId, ~(Cardinality(S) <= 1), NEW l
  PROVE  \E k \in S : k # l
<1> SUFFICES ASSUME S \subseteq {l} PROVE FALSE
  OBVIOUS
<1>1. IsFiniteSet({l}) /\ Cardinality({l}) = 1
  BY FS_Singleton
<1>2. Cardinality(S) <= Cardinality({l})
  BY <1>1, FS_Subset
<1> QED BY <1>1, <1>2

\* The tables after a commit: which lists there are, and that items keep to them.
LEMMA AfterCommit ==
  ASSUME IInv, NEW t \in Txn, pc[t] = "commit"
  PROVE  /\ \A k \in Present :
              k \in DOMAIN NamesAfter(t) \/ (req[t].op = "delete" /\ k = req[t].list)
         /\ NamesAfter(t) \in [DOMAIN NamesAfter(t) -> ListName]
         /\ DOMAIN NamesAfter(t) \subseteq ListId
         /\ DOMAIN NamesAfter(t) # {}
         /\ DOMAIN ItemsAfter(t) \subseteq Txn
         /\ ItemsAfter(t) \in [DOMAIN ItemsAfter(t) -> ListId]
         /\ \A i \in DOMAIN ItemsAfter(t) : ItemsAfter(t)[i] \in DOMAIN NamesAfter(t)
<1> DEFINE l == req[t].list
           n == req[t].name
<1>1. /\ req[t].op \in {"delete", "create", "rename", "add"}
      /\ req[t].op # "create" => l \in ListId
      /\ req[t].op \in {"create", "rename"} => n \in ListName
  BY RequestsType DEF IInv, StatementOfRequest
<1>2. /\ Present \subseteq ListId /\ names \in [Present -> ListName] /\ Present # {}
      /\ DOMAIN items \subseteq Txn /\ items \in [DOMAIN items -> ListId]
      /\ \A i \in DOMAIN items : items[i] \in Present
  BY DEF IInv, TypeOK, ListSurvives, NoOrphans
<1>3. t \in ListId
  BY DEF ListId
<1>4. CASE req[t].op = "delete"
  <2>1. /\ NamesAfter(t) = [k \in Present \ {l} |-> names[k]]
        /\ ItemsAfter(t) = [i \in {j \in DOMAIN items : items[j] # l} |-> items[i]]
    BY <1>4 DEF NamesAfter, ItemsAfter
  <2>2. \E k \in Present : k # l
    <3>1. ~(Cardinality(counted[t]) <= 1) /\ counted[t] \in SUBSET ListId
          /\ counted[t] \subseteq Present
      BY <1>4 DEF IInv, WriterHoldsRow, TypeOK, CountedIsHeld
    <3> QED BY <3>1, AnotherCounted
  <2> HIDE DEF l
  <2> QED BY <1>2, <1>4, <2>1, <2>2 DEF l
<1>5. CASE req[t].op = "create"
  <2>1. /\ NamesAfter(t) = [k \in Present \cup {t} |-> IF k = t THEN n ELSE names[k]]
        /\ ItemsAfter(t) = items
    BY <1>5 DEF NamesAfter, ItemsAfter
  <2> HIDE DEF n
  <2> QED BY <1>1, <1>2, <1>3, <1>5, <2>1
<1>6. CASE req[t].op = "rename"
  <2>1. /\ NamesAfter(t) = [names EXCEPT ![l] = n]
        /\ ItemsAfter(t) = items
    BY <1>6 DEF NamesAfter, ItemsAfter
  <2> HIDE DEF l, n
  <2>2. DOMAIN NamesAfter(t) = Present
    BY <2>1 DEF Present
  <2>3. NamesAfter(t) \in [Present -> ListName]
    BY <1>1, <1>2, <1>6, <2>1 DEF Present
  <2> QED BY <1>2, <2>1, <2>2, <2>3
<1>7. CASE req[t].op = "add"
  <2>1. /\ NamesAfter(t) = names
        /\ ItemsAfter(t) = [i \in DOMAIN items \cup {t} |-> IF i = t THEN l ELSE items[i]]
    BY <1>7 DEF NamesAfter, ItemsAfter
  <2>2. l \in Present
    BY <1>7 DEF IInv, WriterHoldsRow
  <2> HIDE DEF l
  <2> QED BY <1>1, <1>2, <1>7, <2>1, <2>2 DEF Present
<1>8. \/ req[t].op = "delete" \/ req[t].op = "create"
      \/ req[t].op = "rename" \/ req[t].op = "add"
  BY <1>1
<1> QED BY <1>4, <1>5, <1>6, <1>7, <1>8

LEMMA CommitIInv ==
  ASSUME IInv, NEW t \in Txn, Commit(t)
  PROVE  IInv'
<1> DEFINE l == req[t].list
<1>1. /\ pc[t] = "commit" /\ names' = NamesAfter(t) /\ items' = ItemsAfter(t)
      /\ UNCHANGED <<req, todo, counted>>
  BY DEF Commit
<1>2. /\ pc' = [pc EXCEPT ![t] = "done"]
      /\ answer' = [answer EXCEPT ![t] = "ok"]
      /\ owner' = [k \in ListId |-> IF owner[k] = t THEN Nil ELSE owner[k]]
      /\ sharers' = [k \in ListId |-> sharers[k] \ {t}]
  BY DEF Commit, Finish
<1>3. heap' \in Seq(ListId)
  <2>1. heap' \in SetToSeqs(DOMAIN NamesAfter(t))
    BY DEF Commit, HeapsAfter
  <2>2. DOMAIN NamesAfter(t) \in SUBSET ListId
    BY <1>1, AfterCommit
  <2> QED BY <2>1, <2>2, EnumerationType
<1>5. TypeOK'
  <2>1. /\ Present' \subseteq ListId /\ names' \in [Present' -> ListName]
        /\ DOMAIN items' \subseteq Txn /\ items' \in [DOMAIN items' -> ListId]
    BY <1>1, AfterCommit DEF Present
  <2>2. /\ owner' \in [ListId -> Txn \cup {Nil}]
        /\ sharers' \in [ListId -> SUBSET Txn]
        /\ pc' \in [Txn -> Statements]
        /\ answer' \in [Txn -> Answers \cup {Nil}]
    BY <1>2 DEF IInv, TypeOK, Statements, Answers
  <2> QED BY <1>1, <1>3, <2>1, <2>2 DEF IInv, TypeOK
<1>6. \* the rows that other transactions hold or share stay
      \A k \in Present : k \in Present' \/ (req[t].op = "delete" /\ k = l)
  BY <1>1, AfterCommit DEF Present
<1>7. req[t].op = "delete" => l \in ListId /\ owner[l] = t /\ sharers[l] \subseteq {t}
  <2>1. req[t].op = "delete" => l \in Present /\ owner[l] = t
    BY <1>1 DEF IInv, WriterHoldsRow
  <2>2. Present \subseteq ListId /\ t # Nil
    BY ListTxnAssumption DEF IInv, TypeOK
  <2>3. \A k \in ListId : owner[k] # Nil => sharers[k] \subseteq {owner[k]}
    BY DEF IInv, UpdateExcludesShare
  <2> HIDE DEF l
  <2> QED BY <2>1, <2>2, <2>3
<1>8. \A u \in Txn \ {t} : \A k \in Present :
        owner[k] = u \/ u \in sharers[k] => k \in Present'
  BY <1>6, <1>7
<1>9. \A u \in Txn \ {t} : pc'[u] = pc[u]
  BY <1>2 DEF IInv, TypeOK
<1>10. pc'[t] = "done"
  BY <1>2 DEF IInv, TypeOK
<1>11. \A u \in Txn \ {t} : \A k \in ListId :
         (owner[k] = u => owner'[k] = u) /\ (u \in sharers[k] => u \in sharers'[k])
  BY <1>2
<1>12. Present \subseteq ListId
  BY DEF IInv, TypeOK
<1> HIDE DEF l
<1>13. StatementOfRequest'
  BY <1>1, <1>9, <1>10 DEF IInv, StatementOfRequest
<1>14. CountedIsHeld'
  BY <1>1, <1>8, <1>9, <1>10, <1>11, <1>12 DEF IInv, CountedIsHeld
<1>15. WriterHoldsRow'
  BY <1>1, <1>8, <1>9, <1>10, <1>11, <1>12 DEF IInv, WriterHoldsRow
<1>16. UpdateExcludesShare'
  BY <1>2 DEF IInv, TypeOK, UpdateExcludesShare
<1>17. ListSurvives' /\ NoOrphans'
  BY <1>1, AfterCommit DEF ListSurvives, NoOrphans, Present
<1> QED BY <1>5, <1>13, <1>14, <1>15, <1>16, <1>17 DEF IInv

\* Only a transaction that has begun waits for another.
LEMMA AbortIInv ==
  ASSUME IInv, NEW t \in Txn, Abort(t)
  PROVE  IInv'
<1>1. pc[t] # "idle"
  <2> SUFFICES ASSUME pc[t] = "idle" PROVE FALSE
    OBVIOUS
  <2>1. Blockers(t) = {}
    BY DEF Blockers
  <2>2. t \in {}
    BY <2>1 DEF Abort, Deadlocked
  <2> QED BY <2>2
<1> QED BY <1>1, RollbackIInv DEF Abort, Answers

LEMMA StepIInv == IInv /\ [Next]_vars => IInv'
<1> SUFFICES ASSUME IInv, [Next]_vars PROVE IInv'
  OBVIOUS
<1>1. ASSUME NEW t \in Txn, NEW r \in Requests, Begin(t, r) PROVE IInv'
  BY <1>1, BeginIInv
<1>2. ASSUME NEW t \in Txn, Step(t) PROVE IInv'
  <2>1. CASE LockNext(t)
    BY <2>1, LockNextIInv
  <2>2. CASE DeleteRow(t)
    BY <2>2, DeleteRowIInv
  <2>3. CASE LockRenamed(t)
    BY <2>3, LockRenamedIInv
  <2>4. CASE WriteName(t)
    BY <2>4, WriteNameIInv
  <2>5. CASE CheckList(t)
    BY <2>5, CheckListIInv
  <2>6. CASE Commit(t)
    BY <2>6, CommitIInv
  <2>7. CASE Abort(t)
    BY <2>7, AbortIInv
  <2> QED BY <1>2, <2>1, <2>2, <2>3, <2>4, <2>5, <2>6, <2>7 DEF Step
<1>3. CASE UNCHANGED vars
  BY <1>3 DEF vars, locks, IInv, TypeOK, StatementOfRequest, CountedIsHeld, WriterHoldsRow,
              UpdateExcludesShare, ListSurvives, NoOrphans, Present
<1> QED BY <1>1, <1>2, <1>3 DEF Next

LEMMA Inductive == Spec => []IInv
BY InitIInv, StepIInv, PTL DEF Spec

-----------------------------------------------------------------------------
\* One request at a time

Naming(t) == req[t].op \in {"create", "rename"}

\* A name that is being written is free, but for the row that it is written to,
\* and nobody else is writing it.
NameIsTaken ==
  \A t \in Txn : pc[t] = "commit" /\ Naming(t) =>
    /\ \A k \in Present :
         names[k] = req[t].name => req[t].op = "rename" /\ k = req[t].list
    /\ \A u \in Txn \ {t} :
         pc[u] = "commit" /\ Naming(u) => req[u].name # req[t].name

\* A list is there once its create is done, and never again once its delete is.
GoneForGood ==
  \A t \in Txn :
    /\ answer[t] = "ok" => pc[t] = "done"
    /\ t \in Present => pc[t] = "done"
    /\ answer[t] = "ok" /\ req[t].op = "delete" =>
         /\ req[t].list \notin Present
         /\ req[t].list \in Txn => pc[req[t].list] = "done"

SerialInv == NameIsTaken /\ GoneForGood /\ OneDeleteWins

LEMMA InitSerialInv == Init => SerialInv
<1> SUFFICES ASSUME Init PROVE SerialInv
  OBVIOUS
<1>1. Present = Seeded /\ \A t \in Txn : pc[t] = "idle" /\ answer[t] # "ok"
  BY ListTxnAssumption DEF Init, Present
<1>2. \A t \in Txn : t \notin Seeded
  BY ListTxnAssumption
<1> QED BY <1>1, <1>2 DEF SerialInv, NameIsTaken, GoneForGood, OneDeleteWins

\* A statement that changes no table, and is not the end of its transaction,
\* and after which no name is about to be written.
LEMMA StatementSerialInv ==
  ASSUME IInv, SerialInv, NEW t \in Txn, NEW s \in Statements,
         pc[t] # "done", pc' = [pc EXCEPT ![t] = s],
         s = "commit" => ~Naming(t),
         UNCHANGED <<names, req, answer>>
  PROVE  SerialInv'
<1>1. \A u \in Txn : pc'[u] = IF u = t THEN s ELSE pc[u]
  BY DEF IInv, TypeOK
<1>2. NameIsTaken'
  BY <1>1 DEF SerialInv, NameIsTaken, Naming, Present
<1>3. GoneForGood'
  BY <1>1 DEF SerialInv, GoneForGood, Present
<1>4. OneDeleteWins'
  BY DEF SerialInv, OneDeleteWins
<1> QED BY <1>2, <1>3, <1>4 DEF SerialInv

LEMMA RollbackSerialInv ==
  ASSUME IInv, SerialInv, NEW t \in Txn, NEW a \in Answers \ {"ok"}, Rollback(t, a)
  PROVE  SerialInv'
<1>1. \A u \in Txn : /\ pc'[u] = IF u = t THEN "done" ELSE pc[u]
                     /\ answer'[u] = IF u = t THEN a ELSE answer[u]
  BY DEF IInv, TypeOK, Rollback, Finish
<1>2. UNCHANGED <<names, req>>
  BY DEF Rollback
<1>3. NameIsTaken'
  BY <1>1, <1>2 DEF SerialInv, NameIsTaken, Naming, Present
<1>4. GoneForGood'
  BY <1>1, <1>2 DEF SerialInv, GoneForGood, Present
<1>5. OneDeleteWins'
  BY <1>1, <1>2 DEF SerialInv, OneDeleteWins
<1> QED BY <1>3, <1>4, <1>5 DEF SerialInv

LEMMA BeginSerialInv ==
  ASSUME IInv, SerialInv, NEW t \in Txn, NEW r \in Requests, Begin(t, r)
  PROVE  SerialInv'
<1>1. FirstStatement(r.op) # "commit"
  BY RequestsType DEF FirstStatement
<1>2. \A u \in Txn : /\ pc'[u] = IF u = t THEN FirstStatement(r.op) ELSE pc[u]
                     /\ req'[u] = IF u = t THEN r ELSE req[u]
  BY DEF IInv, TypeOK, Begin
<1>3. pc[t] = "idle" /\ UNCHANGED <<names, answer>>
  BY DEF Begin
<1>4. NameIsTaken'
  BY <1>1, <1>2, <1>3 DEF SerialInv, NameIsTaken, Naming, Present
<1>5. GoneForGood'
  BY <1>2, <1>3 DEF SerialInv, GoneForGood, Present
<1>6. OneDeleteWins'
  BY <1>2, <1>3 DEF SerialInv, GoneForGood, OneDeleteWins
<1> QED BY <1>4, <1>5, <1>6 DEF SerialInv

\* The unique index: the name is free, and everybody who was taking it has ended.
LEMMA WriteNameSerialInv ==
  ASSUME IInv, SerialInv, NEW t \in Txn, WriteName(t)
  PROVE  SerialInv'
<1>1. pc[t] = "name" /\ Naming(t)
  BY DEF WriteName, Naming, IInv, StatementOfRequest
<1>2. CASE Rollback(t, "conflict")
  BY <1>2, RollbackSerialInv DEF Answers
<1>3. CASE /\ ~\E k \in Present : /\ names[k] = req[t].name
                                  /\ ~(req[t].op = "rename" /\ k = req[t].list)
           /\ pc' = [pc EXCEPT ![t] = "commit"]
           /\ UNCHANGED <<names, items, heap, locks, req, todo, counted, answer>>
  <2>1. \A u \in Txn : pc'[u] = IF u = t THEN "commit" ELSE pc[u]
    BY <1>3 DEF IInv, TypeOK
  <2>2. NameWriters(req[t].name) \ {t} = {}
    BY <1>1 DEF WriteName, Blockers
  <2>3. \A u \in Txn \ {t} :
          pc[u] = "commit" /\ Naming(u) => req[u].name # req[t].name
    BY <2>2 DEF NameWriters, Writers, Naming
  <2>4. NameIsTaken'
    BY <1>1, <1>3, <2>1, <2>3 DEF SerialInv, NameIsTaken, Naming, Present
  <2>5. GoneForGood'
    BY <1>1, <1>3, <2>1 DEF SerialInv, GoneForGood, Present
  <2>6. OneDeleteWins'
    BY <1>3 DEF SerialInv, OneDeleteWins
  <2> QED BY <2>4, <2>5, <2>6 DEF SerialInv
<1> QED BY <1>2, <1>3 DEF WriteName

\* What a commit does to the lists is what one request does.
LEMMA CommitIsRequest ==
  ASSUME IInv, SerialInv, NEW t \in Txn, Commit(t)
  PROVE  \/ /\ req[t].op = "create" /\ Registry!Create(t, req[t].name)
            /\ req[t].name \in ListName
         \/ /\ req[t].op = "rename" /\ Registry!Rename(req[t].list, req[t].name)
            /\ req[t].list \in ListId /\ req[t].name \in ListName
         \/ /\ req[t].op = "delete" /\ Registry!Delete(req[t].list)
            /\ req[t].list \in ListId
         \/ req[t].op = "add" /\ UNCHANGED names
<1> DEFINE l == req[t].list
           n == req[t].name
<1>1. pc[t] = "commit" /\ names' = NamesAfter(t)
  BY DEF Commit
<1>2. /\ req[t].op \in {"delete", "create", "rename", "add"}
      /\ req[t].op # "create" => l \in ListId
      /\ req[t].op \in {"create", "rename"} => n \in ListName
  BY <1>1, RequestsType DEF IInv, StatementOfRequest
<1>3. Registry!Present = Present
  BY DEF Registry!Present, Present
<1>4. CASE req[t].op = "create"
  <2>1. names' = [k \in Present \cup {t} |-> IF k = t THEN n ELSE names[k]]
    BY <1>1, <1>4 DEF NamesAfter
  <2>2. t \notin Present /\ \A k \in Present : names[k] # n
    BY <1>1, <1>4 DEF SerialInv, GoneForGood, NameIsTaken, Naming
  <2> QED BY <1>2, <1>3, <1>4, <2>1, <2>2 DEF Registry!Create, Registry!Free
<1>5. CASE req[t].op = "rename"
  <2>1. names' = [names EXCEPT ![l] = n]
    BY <1>1, <1>5 DEF NamesAfter
  <2>2. l \in Present /\ \A k \in Present : names[k] = n => k = l
    BY <1>1, <1>5 DEF SerialInv, NameIsTaken, Naming, IInv, WriterHoldsRow
  <2>3. names[l] = n \/ \A k \in Present : names[k] # n
    BY <2>2
  <2> QED BY <1>2, <1>3, <1>5, <2>1, <2>2, <2>3 DEF Registry!Rename, Registry!Free
<1>6. CASE req[t].op = "delete"
  <2>1. names' = [k \in Present \ {l} |-> names[k]]
    BY <1>1, <1>6 DEF NamesAfter
  <2>2. /\ l \in Present /\ ~(Cardinality(counted[t]) <= 1)
        /\ counted[t] \in SUBSET ListId /\ counted[t] \subseteq Present
    BY <1>1, <1>6 DEF IInv, WriterHoldsRow, TypeOK, CountedIsHeld
  <2>3. Present # {l}
    BY <2>2, AnotherCounted
  <2> QED BY <1>2, <1>3, <1>6, <2>1, <2>2, <2>3 DEF Registry!Delete
<1>7. CASE req[t].op = "add"
  BY <1>1, <1>7 DEF NamesAfter
<1> QED BY <1>2, <1>4, <1>5, <1>6, <1>7

LEMMA CommitSerialInv ==
  ASSUME IInv, SerialInv, NEW t \in Txn, Commit(t)
  PROVE  SerialInv'
<1> DEFINE l == req[t].list
           n == req[t].name
<1>1. pc[t] = "commit" /\ UNCHANGED req
  BY DEF Commit
<1>2. \A u \in Txn : /\ pc'[u] = IF u = t THEN "done" ELSE pc[u]
                     /\ answer'[u] = IF u = t THEN "ok" ELSE answer[u]
  BY DEF Commit, Finish, IInv, TypeOK
<1>3. \/ req[t].op = "create" /\ t \notin Present /\ Present' = Present \cup {t}
      \/ req[t].op = "rename" /\ l \in Present /\ Present' = Present
      \/ req[t].op = "delete" /\ l \in Present /\ Present' = Present \ {l}
      \/ req[t].op = "add" /\ Present' = Present
  BY CommitIsRequest
     DEF Registry!Create, Registry!Rename, Registry!Delete, Registry!Present, Present
<1>4. \A k \in Present' :
        \/ k \in Present /\ names'[k] = names[k]
        \/ Naming(t) /\ names'[k] = n
  BY CommitIsRequest
     DEF Registry!Create, Registry!Rename, Registry!Delete, Registry!Present, Present, Naming
<1> HIDE DEF l, n
<1>5. NameIsTaken'
  <2> SUFFICES ASSUME NEW u \in Txn \ {t}, pc[u] = "commit", Naming(u)
               PROVE  /\ \A k \in Present' : names'[k] = req[u].name =>
                           req[u].op = "rename" /\ k = req[u].list
                      /\ \A v \in Txn \ {u} :
                           pc'[v] = "commit" /\ Naming(v) => req[v].name # req[u].name
    BY <1>1, <1>2 DEF NameIsTaken, Naming
  <2>1. Naming(t) => n # req[u].name
    BY <1>1 DEF SerialInv, NameIsTaken, n
  <2> QED BY <1>2, <1>4, <2>1 DEF SerialInv, NameIsTaken
<1>6. GoneForGood'
  <2>1. \A u \in Txn : u \in Present' => pc'[u] = "done"
    BY <1>2, <1>3 DEF SerialInv, GoneForGood
  <2>2. \A u \in Txn \ {t} : answer[u] = "ok" /\ req[u].op = "delete" =>
          /\ req[u].list \notin Present'
          /\ req[u].list \in Txn => pc'[req[u].list] = "done"
    BY <1>1, <1>2, <1>3 DEF SerialInv, GoneForGood
  <2>3. req[t].op = "delete" =>
          l \notin Present' /\ (l \in Txn => pc'[l] = "done")
    BY <1>2, <1>3 DEF SerialInv, GoneForGood
  <2> QED BY <1>1, <1>2, <2>1, <2>2, <2>3 DEF SerialInv, GoneForGood, l
<1>7. OneDeleteWins'
  <2>1. \A u \in Txn \ {t} : answer[u] = "ok" /\ req[u].op = "delete" /\ req[t].op = "delete"
          => req[u].list # l
    BY <1>3 DEF SerialInv, GoneForGood
  <2> QED BY <1>1, <1>2, <2>1 DEF SerialInv, OneDeleteWins, l
<1> QED BY <1>5, <1>6, <1>7 DEF SerialInv

LEMMA StepSerialInv == IInv /\ SerialInv /\ [Next]_vars => SerialInv'
<1> SUFFICES ASSUME IInv, SerialInv, [Next]_vars PROVE SerialInv'
  OBVIOUS
<1>1. ASSUME NEW t \in Txn, NEW r \in Requests, Begin(t, r) PROVE SerialInv'
  BY <1>1, BeginSerialInv
<1>2. ASSUME NEW t \in Txn, Step(t) PROVE SerialInv'
  <2>1. CASE LockNext(t)
    <3>1. UNCHANGED <<names, req, pc, answer>>
      BY <2>1 DEF LockNext
    <3> QED BY <3>1 DEF SerialInv, NameIsTaken, Naming, GoneForGood, OneDeleteWins, Present
  <2>2. CASE DeleteRow(t)
    <3>1. pc[t] = "lock" /\ ~Naming(t)
      BY <2>2 DEF DeleteRow, Naming, IInv, StatementOfRequest
    <3>2. "commit" \in Statements /\ {"list_not_found", "last_list"} \subseteq Answers \ {"ok"}
      BY DEF Statements, Answers
    <3> QED BY <2>2, <3>1, <3>2, StatementSerialInv, RollbackSerialInv DEF DeleteRow
  <2>3. CASE LockRenamed(t)
    <3>1. pc[t] = "rename" /\ "name" \in Statements /\ "list_not_found" \in Answers \ {"ok"}
      BY <2>3 DEF LockRenamed, Statements, Answers
    <3> QED BY <2>3, <3>1, StatementSerialInv, RollbackSerialInv DEF LockRenamed
  <2>4. CASE WriteName(t)
    BY <2>4, WriteNameSerialInv
  <2>5. CASE CheckList(t)
    <3>1. pc[t] = "add" /\ ~Naming(t)
      BY <2>5 DEF CheckList, Naming, IInv, StatementOfRequest
    <3>2. "commit" \in Statements /\ "list_not_found" \in Answers \ {"ok"}
      BY DEF Statements, Answers
    <3> QED BY <2>5, <3>1, <3>2, StatementSerialInv, RollbackSerialInv DEF CheckList
  <2>6. CASE Commit(t)
    BY <2>6, CommitSerialInv
  <2>7. CASE Abort(t)
    BY <2>7, RollbackSerialInv DEF Abort, Answers
  <2> QED BY <1>2, <2>1, <2>2, <2>3, <2>4, <2>5, <2>6, <2>7 DEF Step
<1>3. CASE UNCHANGED vars
  BY <1>3 DEF vars, SerialInv, NameIsTaken, Naming, GoneForGood, OneDeleteWins, Present
<1> QED BY <1>1, <1>2, <1>3 DEF Next

\* Every step is a request of the registry, or does not show in it.
LEMMA StepImplements == IInv /\ SerialInv /\ [Next]_vars => [Registry!Next]_names
<1> SUFFICES ASSUME IInv, SerialInv, [Next]_vars, names' # names
             PROVE  Registry!Next
  OBVIOUS
<1>1. PICK t \in Txn : Commit(t)
  BY DEF Next, Begin, Step, LockNext, DeleteRow, LockRenamed, WriteName, CheckList,
         Abort, Rollback, vars
<1>2. t \in ListId
  BY DEF ListId
<1> QED BY <1>1, <1>2, CommitIsRequest DEF Registry!Next

LEMMA InitImplements == Init => Registry!Init
<1> SUFFICES ASSUME Init PROVE Registry!Init
  OBVIOUS
<1>1. Seeded \in (SUBSET ListId) \ {{}}
  BY ListTxnAssumption DEF ListId
<1> QED BY <1>1 DEF Init, Registry!Init

LEMMA SerialInductive == Spec => []SerialInv
BY InitSerialInv, StepSerialInv, Inductive, PTL DEF Spec

-----------------------------------------------------------------------------
\* Waiting

\* A row is locked by a running transaction, which has counted it if it is still
\* locking rows, and shared by adds that are about to commit.
HoldersRun ==
  \A l \in ListId :
    /\ \A u \in Txn : owner[l] = u =>
         /\ pc[u] \in {"lock", "name", "commit"}
         /\ pc[u] = "lock" => l \in counted[u]
    /\ \A u \in sharers[l] : pc[u] = "commit"

IdleHasNoRequest == \A t \in Txn : pc[t] = "idle" => req[t] = Nil

\* The scan meets every row there is once.
HeapIsPresent == heap \in SetToSeqs(Present)

NoWriters == \A t \in Txn : req[t] # Nil => req[t].op \in {"delete", "add"}

\* A delete has counted or has still to lock every row there is, in the order of
\* the scan.
LocksInOrder(t) ==
  pc[t] = "lock" =>
    /\ \A l \in Present : l \in counted[t] \/ \E n \in DOMAIN todo[t] : todo[t][n] = l
    /\ \A k \in counted[t] : \A n \in DOMAIN todo[t] :
         todo[t][n] \in Present => Before(heap, k, todo[t][n])
    /\ \A m, n \in DOMAIN todo[t] :
         m < n /\ todo[t][m] \in Present /\ todo[t][n] \in Present
           => Before(heap, todo[t][m], todo[t][n])

WaitInv ==
  /\ HoldersRun /\ IdleHasNoRequest /\ HeapIsPresent
  /\ NoWriters => \A t \in Txn : LocksInOrder(t)

\* An enumeration of the rows there are meets each of them, once.
LEMMA EnumerationMeets ==
  ASSUME NEW S \in SUBSET ListId, NEW h \in SetToSeqs(S)
  PROVE  /\ \A i, j \in DOMAIN h : h[i] = h[j] => i = j
         /\ \A l \in S : \E i \in DOMAIN h : h[i] = l
         /\ \A i \in DOMAIN h : h[i] \in S
         /\ DOMAIN h \subseteq Nat
<1> DEFINE D == 1 .. Cardinality(S)
<1>1. IsFiniteSet(S) /\ Cardinality(S) \in Nat
  BY FiniteLists, FS_CardinalityType
<1>2. /\ h \in [D -> S]
      /\ \A i, j \in D : i # j => h[i] # h[j]
  BY DEF SetToSeqs
<1>3. IsFiniteSet(D) /\ Cardinality(D) = Cardinality(S)
  BY <1>1, FS_Interval
<1>4. h \in Injection(D, S)
  BY <1>2 DEF Injection, IsInjective
<1>5. h \in Surjection(D, S)
  BY <1>1, <1>3, <1>4, FS_Injection
<1>6. \A l \in S : \E i \in D : h[i] = l
  BY <1>5 DEF Surjection
<1> QED BY <1>2, <1>6

\* The scan order is a strict total order of the rows there are.
LEMMA ScanOrder ==
  ASSUME HeapIsPresent, Present \subseteq ListId
  PROVE  /\ \A k, l : ~(Before(heap, k, l) /\ Before(heap, l, k))
         /\ \A k, l, m : Before(heap, k, l) /\ Before(heap, l, m) => Before(heap, k, m)
<1>1. /\ \A i, j \in DOMAIN heap : heap[i] = heap[j] => i = j
      /\ DOMAIN heap \subseteq Nat
  BY EnumerationMeets DEF HeapIsPresent
<1> QED BY <1>1 DEF Before

LEMMA InitWaitInv == Init => WaitInv
<1> SUFFICES ASSUME Init PROVE WaitInv
  OBVIOUS
<1>1. HoldersRun /\ IdleHasNoRequest
  BY ListTxnAssumption DEF Init, HoldersRun, IdleHasNoRequest
<1>2. HeapIsPresent
  BY DEF Init, HeapIsPresent, Present
<1>3. \A t \in Txn : LocksInOrder(t)
  BY DEF Init, LocksInOrder
<1> QED BY <1>1, <1>2, <1>3 DEF WaitInv

LEMMA BeginWaitInv ==
  ASSUME IInv, WaitInv, NEW t \in Txn, NEW r \in Requests, Begin(t, r)
  PROVE  WaitInv'
<1>1. /\ pc[t] = "idle" /\ req[t] = Nil
      /\ req' = [req EXCEPT ![t] = r]
      /\ pc' = [pc EXCEPT ![t] = FirstStatement(r.op)]
      /\ todo' = [todo EXCEPT ![t] = IF r.op = "delete" THEN heap ELSE <<>>]
      /\ UNCHANGED <<names, items, heap, owner, sharers, counted, answer>>
  BY DEF Begin, WaitInv, IdleHasNoRequest, locks, Snapshot
<1>2. /\ \A u \in Txn \ {t} : pc'[u] = pc[u] /\ req'[u] = req[u] /\ todo'[u] = todo[u]
      /\ req'[t] = r /\ pc'[t] = FirstStatement(r.op) /\ counted[t] = {}
      /\ todo'[t] = IF r.op = "delete" THEN heap ELSE <<>>
      /\ sharers \in [ListId -> SUBSET Txn] /\ owner \in [ListId -> Txn \cup {Nil}]
  BY <1>1 DEF IInv, TypeOK, StatementOfRequest
<1>3. HoldersRun'
  BY <1>1, <1>2 DEF WaitInv, HoldersRun
<1>4. IdleHasNoRequest'
  BY <1>1, <1>2, RequestsType DEF WaitInv, IdleHasNoRequest, FirstStatement
<1>5. HeapIsPresent'
  BY <1>1 DEF WaitInv, HeapIsPresent, Present
<1>6. ASSUME NoWriters', NEW u \in Txn PROVE LocksInOrder(u)'
  <2>1. NoWriters
    <3>1. \A v \in Txn : req[v] # Nil => req'[v] = req[v]
      BY <1>1, <1>2
    <3> QED BY <1>6, <3>1 DEF NoWriters
  <2>2. CASE u # t
    BY <1>1, <1>2, <2>1, <2>2 DEF WaitInv, LocksInOrder, Present, Before
  <2>3. CASE u = t
    <3> SUFFICES ASSUME pc'[t] = "lock" PROVE LocksInOrder(t)'
      BY <2>3 DEF LocksInOrder
    <3>1. r.op = "delete"
      BY <1>2, RequestsType DEF FirstStatement
    <3>2. /\ \A l \in Present : \E n \in DOMAIN heap : heap[n] = l
          /\ todo'[t] = heap
      BY <1>2, <3>1, EnumerationMeets DEF WaitInv, HeapIsPresent, IInv, TypeOK
    <3> QED BY <1>1, <1>2, <3>2 DEF LocksInOrder, Present, Before
  <2> QED BY <2>2, <2>3
<1> QED BY <1>3, <1>4, <1>5, <1>6 DEF WaitInv

\* Steps that keep the tables, keep or extend the locks of running transactions
\* and leave every scan where it is.
QuietStep(t) ==
    /\ UNCHANGED <<names, heap, req, todo, counted>>
    /\ pc[t] # "idle" /\ pc'[t] \notin {"idle", "lock"}
    /\ \A u \in Txn \ {t} : pc'[u] = pc[u]
    /\ \A l \in ListId : /\ owner'[l] \in {owner[l], Nil, t}
                         /\ owner'[l] = t => pc'[t] \in {"name", "commit"}
                         /\ sharers'[l] \subseteq sharers[l] \cup {t}
                         /\ t \in sharers'[l] => pc'[t] = "commit"

LEMMA QuietWaitInv ==
  ASSUME IInv, IInv', WaitInv, NEW t \in Txn, QuietStep(t)
  PROVE  WaitInv'
<1> USE DEF QuietStep
<1>1. /\ \A u \in Txn \ {t} : pc'[u] = pc[u]
      /\ sharers \in [ListId -> SUBSET Txn] /\ sharers' \in [ListId -> SUBSET Txn]
  BY DEF IInv, TypeOK
<1>2. HoldersRun'
  <2> SUFFICES ASSUME NEW l \in ListId
               PROVE  /\ \A u \in Txn : owner'[l] = u =>
                           /\ pc'[u] \in {"lock", "name", "commit"}
                           /\ pc'[u] = "lock" => l \in counted'[u]
                      /\ \A u \in sharers'[l] : pc'[u] = "commit"
    BY DEF HoldersRun
  <2>1. \A u \in Txn : owner'[l] = u =>
          pc'[u] \in {"lock", "name", "commit"} /\ (pc'[u] = "lock" => l \in counted'[u])
    BY <1>1, ListTxnAssumption DEF WaitInv, HoldersRun
  <2>2. \A u \in sharers'[l] : pc'[u] = "commit"
    <3> SUFFICES ASSUME NEW u \in sharers'[l] PROVE pc'[u] = "commit"
      OBVIOUS
    <3>1. u \in Txn /\ u \in sharers[l] \cup {t}
      BY <1>1
    <3> QED BY <1>1, <3>1 DEF WaitInv, HoldersRun
  <2> QED BY <2>1, <2>2
<1>3. IdleHasNoRequest'
  BY <1>1 DEF WaitInv, IdleHasNoRequest
<1>4. HeapIsPresent'
  BY DEF WaitInv, HeapIsPresent, Present
<1>5. ASSUME NoWriters', NEW u \in Txn PROVE LocksInOrder(u)'
  <2>1. NoWriters
    BY <1>5 DEF NoWriters
  <2> QED BY <1>1, <2>1 DEF WaitInv, LocksInOrder, Present, Before
<1> QED BY <1>2, <1>3, <1>4, <1>5 DEF WaitInv

LEMMA RollbackWaitInv ==
  ASSUME IInv, IInv', WaitInv, NEW t \in Txn, NEW a, Rollback(t, a), pc[t] # "idle"
  PROVE  WaitInv'
<1>1. /\ UNCHANGED <<names, heap, req, todo, counted>>
      /\ pc' = [pc EXCEPT ![t] = "done"] /\ pc'[t] = "done"
      /\ \A l \in ListId : /\ owner'[l] = (IF owner[l] = t THEN Nil ELSE owner[l])
                           /\ sharers'[l] = sharers[l] \ {t}
  BY DEF Rollback, Finish, IInv, TypeOK
<1>2. t # Nil
  BY ListTxnAssumption
<1>3. QuietStep(t)
  BY <1>1, <1>2 DEF QuietStep, IInv, TypeOK
<1> QED BY <1>3, QuietWaitInv

LEMMA LockNextWaitInv ==
  ASSUME IInv, IInv', WaitInv, NEW t \in Txn, LockNext(t)
  PROVE  WaitInv'
<1> DEFINE h == Head(todo[t])
<1>1. /\ pc[t] = "lock" /\ todo[t] # <<>>
      /\ todo' = [todo EXCEPT ![t] = Tail(@)]
      /\ UNCHANGED <<names, items, heap, sharers, req, pc, answer>>
  BY DEF LockNext
<1>2. /\ h \in Present => /\ owner' = [owner EXCEPT ![h] = t]
                           /\ counted' = [counted EXCEPT ![t] = @ \cup {h}]
      /\ h \notin Present => UNCHANGED <<owner, counted>>
  BY DEF LockNext, Lock
<1>3. /\ todo[t] \in Seq(ListId) /\ todo \in [Txn -> Seq(ListId)]
      /\ owner \in [ListId -> Txn \cup {Nil}] /\ counted \in [Txn -> SUBSET ListId]
  BY DEF IInv, TypeOK
<1>4. /\ DOMAIN todo'[t] \subseteq Nat
      /\ \A n \in DOMAIN todo'[t] : n + 1 \in DOMAIN todo[t] /\ todo'[t][n] = todo[t][n + 1]
      /\ \A n \in DOMAIN todo[t] : n # 1 => n - 1 \in DOMAIN todo'[t]
                                              /\ todo'[t][n - 1] = todo[t][n]
      /\ 1 \in DOMAIN todo[t] /\ todo[t][1] = h /\ h \in ListId
      /\ \A n \in DOMAIN todo'[t] : 1 < n + 1
  <2>1. todo'[t] = Tail(todo[t])
    BY <1>1, <1>3
  <2> QED BY <1>1, <1>3, <2>1
<1>5. /\ \A u \in Txn \ {t} : todo'[u] = todo[u] /\ counted'[u] = counted[u]
      /\ \A l \in ListId : owner'[l] = owner[l] \/ (l = h /\ h \in Present /\ owner'[l] = t)
      /\ counted'[t] = counted[t] \cup {k \in {h} : h \in Present}
  <2> HIDE DEF h
  <2>1. CASE h \in Present
    BY <1>1, <1>2, <1>3, <2>1
  <2>2. CASE h \notin Present
    BY <1>1, <1>2, <1>3, <2>2
  <2> QED BY <2>1, <2>2
<1> HIDE DEF h
<1>6. HoldersRun'
  BY <1>1, <1>5, ListTxnAssumption DEF WaitInv, HoldersRun
<1>7. IdleHasNoRequest' /\ HeapIsPresent'
  BY <1>1 DEF WaitInv, IdleHasNoRequest, HeapIsPresent, Present
<1>8. ASSUME NoWriters', NEW u \in Txn PROVE LocksInOrder(u)'
  <2>1. LocksInOrder(u) /\ LocksInOrder(t)
    BY <1>1, <1>8 DEF WaitInv, NoWriters
  <2>2. CASE u # t
    BY <1>1, <1>5, <2>1, <2>2 DEF LocksInOrder, Present, Before
  <2>3. CASE u = t
    <3>1. \A l \in Present : l \in counted'[t] \/ \E n \in DOMAIN todo'[t] : todo'[t][n] = l
      <4> SUFFICES ASSUME NEW l \in Present, l \notin counted'[t]
                   PROVE  \E n \in DOMAIN todo'[t] : todo'[t][n] = l
        OBVIOUS
      <4>1. PICK n \in DOMAIN todo[t] : todo[t][n] = l
        BY <1>1, <1>5, <2>1 DEF LocksInOrder
      <4>2. n # 1
        BY <1>4, <1>5, <4>1
      <4> QED BY <1>4, <4>1, <4>2
    <3>2. \A k \in counted'[t] : \A n \in DOMAIN todo'[t] :
            todo'[t][n] \in Present => Before(heap, k, todo'[t][n])
      <4> SUFFICES ASSUME NEW k \in counted'[t], NEW n \in DOMAIN todo'[t],
                          todo'[t][n] \in Present
                   PROVE  Before(heap, k, todo'[t][n])
        OBVIOUS
      <4>1. n + 1 \in DOMAIN todo[t] /\ todo'[t][n] = todo[t][n + 1] /\ 1 < n + 1
        BY <1>4
      <4>2. CASE k \in counted[t]
        BY <1>1, <2>1, <4>1, <4>2 DEF LocksInOrder
      <4>3. CASE k = h /\ h \in Present
        BY <1>1, <1>4, <2>1, <4>1, <4>3 DEF LocksInOrder
      <4> QED BY <1>5, <4>2, <4>3
    <3>3. \A m, n \in DOMAIN todo'[t] :
            m < n /\ todo'[t][m] \in Present /\ todo'[t][n] \in Present
              => Before(heap, todo'[t][m], todo'[t][n])
      BY <1>1, <1>4, <2>1 DEF LocksInOrder
    <3>4. LocksInOrder(t)'
      BY <1>1, <3>1, <3>2, <3>3 DEF LocksInOrder, Present, Before
    <3> QED BY <2>3, <3>4
  <2> QED BY <2>2, <2>3
<1> QED BY <1>6, <1>7, <1>8 DEF WaitInv

LEMMA CommitWaitInv ==
  ASSUME IInv, IInv', WaitInv, NEW t \in Txn, Commit(t)
  PROVE  WaitInv'
<1>1. /\ pc[t] = "commit" /\ names' = NamesAfter(t) /\ heap' \in HeapsAfter(t)
      /\ pc' = [pc EXCEPT ![t] = "done"]
      /\ UNCHANGED <<req, todo, counted>>
      /\ \A l \in ListId : /\ owner'[l] = (IF owner[l] = t THEN Nil ELSE owner[l])
                           /\ sharers'[l] = sharers[l] \ {t}
  BY DEF Commit, Finish
<1>2. /\ \A u \in Txn \ {t} : pc'[u] = pc[u]
      /\ pc'[t] = "done" /\ t # Nil
      /\ sharers \in [ListId -> SUBSET Txn] /\ req[t] \in Requests
  BY <1>1, ListTxnAssumption DEF IInv, TypeOK, StatementOfRequest
<1>3. HoldersRun'
  BY <1>1, <1>2, ListTxnAssumption DEF WaitInv, HoldersRun
<1>4. IdleHasNoRequest'
  BY <1>1, <1>2 DEF WaitInv, IdleHasNoRequest
<1>5. HeapIsPresent'
  BY <1>1 DEF HeapIsPresent, HeapsAfter, Present
<1>6. ASSUME NoWriters', NEW u \in Txn PROVE LocksInOrder(u)'
  <2>1. LocksInOrder(u) /\ req[t].op \in {"delete", "add"}
    <3>1. req[t] # Nil
        BY <1>1, <1>2, ListTxnAssumption
    <3> QED BY <1>1, <1>6, <3>1 DEF WaitInv, NoWriters
  <2>2. Present' \subseteq Present
    BY <1>1, <2>1 DEF NamesAfter, Present
  <2>3. \A k, l \in Present' : Before(heap, k, l) => Before(heap', k, l)
    BY <1>1, <2>1 DEF HeapsAfter, Present
  <2>4. CASE u = t
    BY <1>2, <2>4 DEF LocksInOrder
  <2>5. CASE u # t
    <3> SUFFICES ASSUME pc[u] = "lock" PROVE LocksInOrder(u)'
      BY <1>2, <2>5 DEF LocksInOrder
    <3>1. \A k \in counted[u] : k \in Present'
      BY <1>1, <1>2, <2>5 DEF IInv, CountedIsHeld
    <3> QED BY <1>1, <2>1, <2>2, <2>3, <3>1 DEF LocksInOrder
  <2> QED BY <2>4, <2>5
<1> QED BY <1>3, <1>4, <1>5, <1>6 DEF WaitInv

LEMMA NextWaitInv == IInv /\ IInv' /\ WaitInv /\ [Next]_vars => WaitInv'
<1> SUFFICES ASSUME IInv, IInv', WaitInv, [Next]_vars PROVE WaitInv'
  OBVIOUS
<1>1. ASSUME NEW t \in Txn, NEW r \in Requests, Begin(t, r) PROVE WaitInv'
  BY <1>1, BeginWaitInv
<1>2. ASSUME NEW t \in Txn, Step(t) PROVE WaitInv'
  <2>0. owner \in [ListId -> Txn \cup {Nil}] /\ sharers \in [ListId -> SUBSET Txn]
        /\ pc \in [Txn -> Statements] /\ \A l \in Present : l \in ListId
    BY DEF IInv, TypeOK
  <2>1. ASSUME NEW a, Rollback(t, a), pc[t] # "idle" PROVE WaitInv'
    BY <2>1, RollbackWaitInv
  <2>2. ASSUME NEW l \in ListId, Lock(t, l), NEW s \in {"name", "commit"},
               pc[t] \notin {"idle", "commit"}, pc' = [pc EXCEPT ![t] = s],
               UNCHANGED <<names, heap, sharers, req, todo, counted>>
        PROVE  WaitInv'
    <3>1. \A k \in ListId : owner'[k] \in {owner[k], t}
      BY <2>0, <2>2 DEF Lock
    <3>2. pc'[t] = s /\ \A u \in Txn \ {t} : pc'[u] = pc[u]
      BY <2>0, <2>2
    <3>3. \A k \in ListId : t \notin sharers[k] /\ sharers'[k] = sharers[k]
      BY <2>2 DEF WaitInv, HoldersRun
    <3>4. pc[t] # "idle" /\ pc'[t] \notin {"idle", "lock"}
      BY <2>2, <3>2
    <3>5. UNCHANGED <<names, heap, req, todo, counted>>
      BY <2>2
    <3>6. ASSUME NEW k \in ListId
          PROVE  /\ owner'[k] \in {owner[k], Nil, t}
                 /\ owner'[k] = t => pc'[t] \in {"name", "commit"}
                 /\ sharers'[k] \subseteq sharers[k] \cup {t}
                 /\ t \in sharers'[k] => pc'[t] = "commit"
      BY <2>2, <3>1, <3>2, <3>3
    <3> HIDE <2>2
    <3>7. QuietStep(t)
      BY ONLY <3>2, <3>4, <3>5, <3>6 DEF QuietStep
    <3> QED BY <3>7, QuietWaitInv
  <2>3. CASE LockNext(t)
    BY <2>3, LockNextWaitInv
  <2>4. CASE DeleteRow(t)
    <3>1. pc[t] = "lock"
      BY <2>4 DEF DeleteRow
    <3>2. CASE \E a : Rollback(t, a)
      BY <2>1, <3>1, <3>2
    <3>3. CASE /\ req[t].list \in Present /\ Lock(t, req[t].list)
               /\ pc' = [pc EXCEPT ![t] = "commit"]
               /\ UNCHANGED <<names, items, heap, sharers, req, todo, counted, answer>>
      BY <2>0, <2>2, <3>1, <3>3
    <3> QED BY <2>4, <3>2, <3>3 DEF DeleteRow
  <2>5. CASE LockRenamed(t)
    <3>1. pc[t] = "rename"
      BY <2>5 DEF LockRenamed
    <3>2. CASE \E a : Rollback(t, a)
      BY <2>1, <3>1, <3>2
    <3>3. CASE /\ req[t].list \in Present /\ Lock(t, req[t].list)
               /\ pc' = [pc EXCEPT ![t] = "name"]
               /\ UNCHANGED <<names, items, heap, sharers, req, todo, counted, answer>>
      BY <2>0, <2>2, <3>1, <3>3
    <3> QED BY <2>5, <3>2, <3>3 DEF LockRenamed
  <2>6. ASSUME pc[t] \in {"name", "add"}, pc' = [pc EXCEPT ![t] = "commit"],
               UNCHANGED <<names, heap, owner, req, todo, counted>>,
               \A k \in ListId : sharers'[k] \subseteq sharers[k] \cup {t}
        PROVE  WaitInv'
    <3>1. QuietStep(t)
      BY <2>0, <2>6 DEF QuietStep
    <3> QED BY <3>1, QuietWaitInv
  <2>7. CASE WriteName(t)
    <3>1. pc[t] = "name"
      BY <2>7 DEF WriteName
    <3>2. CASE Rollback(t, "conflict")
      BY <2>1, <3>1, <3>2
    <3>3. CASE /\ pc' = [pc EXCEPT ![t] = "commit"]
               /\ UNCHANGED <<names, items, heap, owner, sharers, req, todo, counted, answer>>
      BY <2>6, <3>1, <3>3
    <3> QED BY <2>7, <3>2, <3>3 DEF WriteName, locks
  <2>8. CASE CheckList(t)
    <3>1. pc[t] = "add"
      BY <2>8 DEF CheckList
    <3>2. CASE Rollback(t, "list_not_found")
      BY <2>1, <3>1, <3>2
    <3>3. CASE /\ sharers' = [sharers EXCEPT ![req[t].list] = @ \cup {t}]
               /\ pc' = [pc EXCEPT ![t] = "commit"]
               /\ UNCHANGED <<names, items, heap, owner, req, todo, counted, answer>>
      BY <2>0, <2>6, <3>1, <3>3
    <3> QED BY <2>8, <3>2, <3>3 DEF CheckList
  <2>9. CASE Commit(t)
    BY <2>9, CommitWaitInv
  <2>10. CASE Abort(t)
    <3>1. ASSUME pc[t] = "idle" PROVE FALSE
      <4>1. Blockers(t) = {}
        BY <3>1 DEF Blockers
      <4>2. t \in {}
        BY <2>10, <4>1 DEF Abort, Deadlocked
      <4> QED BY <4>2
    <3> QED BY <2>1, <2>10, <3>1 DEF Abort
  <2> QED BY <1>2, <2>3, <2>4, <2>5, <2>7, <2>8, <2>9, <2>10 DEF Step
<1>3. CASE UNCHANGED vars
  BY <1>3 DEF vars, WaitInv, HoldersRun, IdleHasNoRequest, HeapIsPresent, NoWriters,
              LocksInOrder, Present, Before
<1> QED BY <1>1, <1>2, <1>3 DEF Next

LEMMA WaitInductive == Spec => []WaitInv
BY InitWaitInv, NextWaitInv, Inductive, PTL DEF Spec

\* No cycle: whoever waits for a row waits for a transaction that is further on
\* in the scan, or that waits for nobody.
LEMMA NobodyWaitsInACircle ==
  ASSUME IInv, WaitInv, NoWriters, NEW t \in Txn
  PROVE  ~Deadlocked(t)
<1>1. \A u \in Txn : pc[u] # "lock" /\ pc[u] # "add" => Blockers(u) = {}
  <2> SUFFICES ASSUME NEW u \in Txn, pc[u] \in {"rename", "name"} PROVE FALSE
    BY DEF Blockers
  <2>1. req[u].op \in {"create", "rename"} /\ req[u] \in Requests
    BY DEF IInv, StatementOfRequest
  <2> QED BY <2>1, ListTxnAssumption DEF NoWriters
<1>2. \A l \in ListId : \A u \in Txn : owner[l] = u \/ u \in sharers[l] =>
        /\ pc[u] # "add"
        /\ pc[u] = "lock" => owner[l] = u /\ l \in counted[u]
  BY DEF WaitInv, HoldersRun
<1>3. /\ owner \in [ListId -> Txn \cup {Nil}] /\ sharers \in [ListId -> SUBSET Txn]
      /\ todo \in [Txn -> Seq(ListId)] /\ Present \subseteq ListId
  BY DEF IInv, TypeOK
<1>4. \A u \in Txn : Blockers(u) \subseteq Txn \ {u}
  <2> SUFFICES ASSUME NEW u \in Txn, NEW w \in Blockers(u) PROVE w \in Txn \ {u}
    OBVIOUS
  <2>1. CASE pc[u] = "lock"
    <3>1. Wanted(u) \in ListId /\ w \in ({owner[Wanted(u)]} \cup sharers[Wanted(u)]) \ {Nil, u}
      BY <1>3, <2>1 DEF Blockers, Lockers
    <3> QED BY <1>3, <3>1
  <2>2. CASE pc[u] = "add"
    <3>1. req[u].list \in ListId /\ w \in {owner[req[u].list]} \ {Nil, u}
      BY <2>2, RequestsType DEF IInv, StatementOfRequest, Blockers
    <3> QED BY <1>3, <3>1
  <2> QED BY <1>1, <2>1, <2>2
<1>5. CASE Blockers(t) = {}
  <2>1. Blockers(t) \subseteq {} /\ {} \in SUBSET Txn
    BY <1>5
  <2> QED BY <2>1 DEF Deadlocked
<1>6. CASE pc[t] = "add"
  <2>1. \A u \in Txn : t \notin Blockers(u)
    <3> SUFFICES ASSUME NEW u \in Txn, t \in Blockers(u) PROVE FALSE
      OBVIOUS
    <3>1. pc[u] \in {"lock", "add"}
      BY <1>1
    <3>2. PICK l \in ListId : owner[l] = t \/ t \in sharers[l]
      <4>1. CASE pc[u] = "lock"
        BY <1>3, <4>1 DEF Blockers, Lockers
      <4>2. CASE pc[u] = "add"
        <5>1. req[u].list \in ListId
          BY <4>2, RequestsType DEF IInv, StatementOfRequest
        <5> QED BY <4>2, <5>1 DEF Blockers
      <4> QED BY <3>1, <4>1, <4>2
    <3> QED BY <1>2, <1>6, <3>2
  <2> DEFINE C == Txn \ {t}
  <2>2. C \in SUBSET Txn /\ Blockers(t) \subseteq C /\ \A u \in C : Blockers(u) \subseteq C
    BY <1>4, <2>1
  <2> QED BY <2>2 DEF Deadlocked
<1>7. CASE pc[t] = "lock" /\ Blockers(t) # {}
  <2> DEFINE Waits(u) == pc[u] = "lock" /\ todo[u] # <<>> /\ Head(todo[u]) \in Present
             At(u) == Head(todo[u])
  <2>1. ASSUME NEW u \in Txn, pc[u] = "lock"
        PROVE  /\ todo[u] # <<>> => 1 \in DOMAIN todo[u] /\ todo[u][1] = At(u)
               /\ Waits(u) => Blockers(u) = Lockers(u, At(u))
               /\ ~Waits(u) => Blockers(u) = {}
    <3>1. todo[u] # <<>> => 1 \in DOMAIN todo[u] /\ todo[u][1] = At(u)
      BY <1>3
    <3>2. CASE todo[u] # <<>>
      BY <2>1, <3>1, <3>2 DEF Blockers, Wanted
    <3>3. CASE todo[u] = <<>>
      <4> DEFINE l == req[u].list
      <4>1. l \in Present => l \in counted[u]
        <5>1. LocksInOrder(u) /\ DOMAIN todo[u] = {}
          BY <3>3 DEF WaitInv
        <5> QED BY <2>1, <5>1 DEF LocksInOrder
      <4>2. l \in Present => owner[l] = u /\ sharers[l] \subseteq {u}
        <5>1. l \in Present => l \in ListId /\ owner[l] = u
          BY <1>3, <2>1, <4>1 DEF IInv, CountedIsHeld
        <5> QED BY <5>1, ListTxnAssumption DEF IInv, UpdateExcludesShare
      <4>3. Blockers(u) = IF l \in Present THEN Lockers(u, l) ELSE {}
        BY <2>1, <3>3 DEF Blockers, Wanted
      <4> HIDE DEF l
      <4> QED BY <3>3, <4>2, <4>3 DEF Lockers
    <3> QED BY <3>1, <3>2, <3>3
  <2>2. Waits(t)
    BY <1>7, <2>1
  <2> DEFINE C == {u \in Txn \ {t} : pc[u] # "add" /\ (Waits(u) => Before(heap, At(t), At(u)))}
  <2>3. ASSUME NEW u \in Txn, Waits(u), u = t \/ Before(heap, At(t), At(u)),
               NEW w \in Blockers(u)
        PROVE  w \in C
    <3>1. w \in Txn /\ w # u /\ At(u) \in ListId /\ At(u) \in Present
          /\ (owner[At(u)] = w \/ w \in sharers[At(u)])
      BY <1>3, <1>4, <2>1, <2>3 DEF Lockers
    <3>2. pc[w] # "add" /\ (pc[w] = "lock" => At(u) \in counted[w])
      BY <1>2, <3>1
    <3>3. ASSUME Waits(w) PROVE Before(heap, At(u), At(w))
      <4>1. LocksInOrder(w) /\ 1 \in DOMAIN todo[w] /\ todo[w][1] = At(w)
        BY <2>1, <3>1, <3>3 DEF WaitInv
      <4> QED BY <3>2, <3>3, <4>1 DEF LocksInOrder
    <3> HIDE DEF At
    <3>4. \A k, l : ~(Before(heap, k, l) /\ Before(heap, l, k))
      BY <1>3, ScanOrder DEF WaitInv
    <3>5. \A k, l, m : Before(heap, k, l) /\ Before(heap, l, m) => Before(heap, k, m)
      BY <1>3, ScanOrder DEF WaitInv
    <3>6. w # t
      <4> SUFFICES ASSUME w = t PROVE FALSE
        OBVIOUS
      <4>1. Before(heap, At(t), At(u)) /\ Before(heap, At(u), At(t))
        BY <2>2, <2>3, <3>1, <3>3
      <4> QED BY <3>4, <4>1
    <3>7. Waits(w) => Before(heap, At(t), At(w))
      BY <2>3, <3>3, <3>5
    <3> HIDE DEF Waits
    <3> QED BY <3>1, <3>2, <3>6, <3>7
  <2>4. C \in SUBSET Txn /\ Blockers(t) \subseteq C
    BY <2>2, <2>3
  <2>5. ASSUME NEW u \in C PROVE Blockers(u) \subseteq C
    <3>1. CASE Waits(u)
      BY <2>3, <2>5, <3>1
    <3>2. CASE ~Waits(u)
      BY <1>1, <2>1, <3>2
    <3> QED BY <3>1, <3>2
  <2>6. t \notin C
    OBVIOUS
  <2> HIDE DEF C
  <2> QED BY <2>4, <2>5, <2>6 DEF Deadlocked
<1> QED BY <1>1, <1>5, <1>6, <1>7

-----------------------------------------------------------------------------
\* Progress

Busy(t) == pc[t] \notin {"idle", "done"}

\* No lock and no name is waited for forever: while a request is unanswered, some
\* transaction waits for nobody, or for itself, and is then aborted.
SomeoneIsFree ==
  (\E t \in Txn : Busy(t)) => \E t \in Txn : Busy(t) /\ (Blockers(t) = {} \/ Deadlocked(t))

\* In a finite set of transactions that wait only for each other, one waits for
\* nobody or for itself.
LEMMA WaitGraph ==
  ASSUME NEW S \in SUBSET Txn, S # {}, \A t \in S : Blockers(t) \subseteq S
  PROVE  \E t \in S : Blockers(t) = {} \/ Deadlocked(t)
<1> DEFINE Closed(C) == C \subseteq S /\ C # {} /\ \A t \in C : Blockers(t) \subseteq C
           T == {C \in SUBSET S : Closed(C)}
<1>1. T \subseteq FiniteSubsetsOf(S)
  <2>1. \A C \in SUBSET S : IsFiniteSet(C)
    BY ListTxnAssumption, FS_Subset
  <2> QED BY <2>1 DEF FiniteSubsetsOf
<1>2. PICK C \in T : \A D \in T : <<D, C>> \notin StrictSubsetOrdering(S)
  <2>1. S \in T
    OBVIOUS
  <2>2. IsFiniteSet(S)
    BY ListTxnAssumption, FS_Subset
  <2> HIDE DEF T
  <2> QED BY <1>1, <2>1, <2>2, FS_StrictSubsetOrderingWellFounded, WFMin
<1>3. PICK t \in C : TRUE
  BY <1>2
<1>4. CASE Blockers(t) = {} \/ Deadlocked(t)
  BY <1>2, <1>3, <1>4
<1>5. CASE Blockers(t) # {} /\ ~Deadlocked(t)
  <2>1. PICK D \in SUBSET Txn : /\ Blockers(t) \subseteq D /\ t \notin D
                               /\ \A u \in D : Blockers(u) \subseteq D
    BY <1>5 DEF Deadlocked
  <2>2. C \cap D \in T
    BY <1>2, <1>3, <1>5, <2>1
  <2>3. C \cap D \subseteq C /\ t \in C /\ t \notin C \cap D /\ C \subseteq S
    BY <1>2, <1>3, <2>1
  <2>4. <<C \cap D, C>> \in StrictSubsetOrdering(S)
    BY <2>3 DEF StrictSubsetOrdering
  <2> QED BY <1>2, <2>2, <2>4
<1> QED BY <1>4, <1>5

\* Only running transactions are waited for.
LEMMA BlockersAreBusy ==
  ASSUME IInv, WaitInv, NEW t \in Txn
  PROVE  Blockers(t) \subseteq {u \in Txn : Busy(u)}
<1> SUFFICES ASSUME NEW u \in Blockers(t) PROVE u \in Txn /\ Busy(u)
  OBVIOUS
<1>1. /\ owner \in [ListId -> Txn \cup {Nil}] /\ sharers \in [ListId -> SUBSET Txn]
      /\ Present \subseteq ListId
  BY DEF IInv, TypeOK
<1>2. \A l \in ListId : \A v \in Txn : owner[l] = v \/ v \in sharers[l] => Busy(v)
  BY DEF WaitInv, HoldersRun, Busy
<1>3. CASE pc[t] \in {"lock", "rename"}
  <2>1. Wanted(t) \in ListId /\ u \in ({owner[Wanted(t)]} \cup sharers[Wanted(t)]) \ {Nil, t}
    BY <1>1, <1>3 DEF Blockers, Lockers
  <2> QED BY <1>1, <1>2, <2>1
<1>4. CASE pc[t] = "name"
  BY <1>4 DEF Blockers, NameWriters, Replacers, Writers, Busy
<1>5. CASE pc[t] = "add"
  <2>1. req[t].list \in ListId
    BY <1>5, RequestsType DEF IInv, StatementOfRequest
  <2> QED BY <1>1, <1>2, <1>5, <2>1 DEF Blockers
<1> QED BY <1>3, <1>4, <1>5 DEF Blockers

-----------------------------------------------------------------------------
\* Termination

\* How many steps t may still take: it locks the rows of its scan and ends.  A
\* scan meets no more rows than there may be lists.
StepsLeft(t) ==
  CASE pc[t] = "idle" -> Cardinality(ListId) + 3
    [] pc[t] = "lock" -> Len(todo[t]) + 2
    [] pc[t] = "rename" -> 3
    [] pc[t] \in {"name", "add"} -> 2
    [] pc[t] = "commit" -> 1
    [] pc[t] = "done" -> 0

\* Every step brings the transaction that takes it nearer its end, and no other
\* one farther from it: nothing is retried, and no lock taken anew.
NearsTheEnd(t) ==
  /\ StepsLeft(t) \in Nat /\ StepsLeft(t)' \in Nat /\ StepsLeft(t)' < StepsLeft(t)
  /\ \A u \in Txn \ {t} : StepsLeft(u)' = StepsLeft(u)

StepsRunOut == [][\E t \in Txn : NearsTheEnd(t)]_vars

\* The guards of the statements of t, without the waiting for the choice of a
\* heap: t is at a statement that waits for nobody, or can commit, or is aborted.
CanStep(t) ==
  \/ pc[t] \in {"lock", "rename", "name", "add"} /\ Blockers(t) = {}
  \/ pc[t] = "commit" /\ HeapsAfter(t) # {}
  \/ Deadlocked(t)

\* While a request is unanswered, the next statement of some transaction can run.
SomeoneCanStep == (\E t \in Txn : Busy(t)) => \E t \in Txn : Busy(t) /\ CanStep(t)

\* Who waits for itself waits.
LEMMA VictimWaits ==
  ASSUME NEW t \in Txn, Deadlocked(t)
  PROVE  pc[t] \in {"lock", "rename", "name", "add"}
<1>1. Blockers(t) # {}
  <2> SUFFICES ASSUME Blockers(t) = {} PROVE FALSE
    OBVIOUS
  <2>1. t \in {}
    BY DEF Deadlocked
  <2> QED BY <2>1
<1> QED BY <1>1 DEF Blockers

\* A scan meets as many rows as there are.
LEMMA ScanLength ==
  ASSUME Present \subseteq ListId, HeapIsPresent
  PROVE  /\ Cardinality(ListId) \in Nat /\ Cardinality(ListId) > 0
         /\ Len(heap) \in Nat /\ Len(heap) <= Cardinality(ListId)
<1>1. IsFiniteSet(ListId) /\ Cardinality(ListId) \in Nat
  BY FiniteLists, FS_CardinalityType
<1>2. Cardinality(ListId) # 0
  BY <1>1, FS_EmptySet, ListTxnAssumption DEF ListId
<1>3. Cardinality(Present) \in Nat /\ Cardinality(Present) <= Cardinality(ListId)
  BY <1>1, FS_Subset, FS_CardinalityType
<1>4. heap \in Seq(ListId)
  BY EnumerationType DEF HeapIsPresent
<1>5. DOMAIN heap = 1 .. Cardinality(Present)
  BY DEF HeapIsPresent, SetToSeqs
<1>6. Len(heap) = Cardinality(Present)
  BY <1>3, <1>4, <1>5, LenProperties
<1> QED BY <1>1, <1>2, <1>3, <1>6

\* A step leaves the other transactions where they are.
LEMMA OthersStay ==
  ASSUME IInv, NEW t \in Txn, [Step(t) \/ \E r \in Requests : Begin(t, r)]_vars
  PROVE  \A u \in Txn \ {t} : pc'[u] = pc[u] /\ todo'[u] = todo[u]
<1>1. pc \in [Txn -> Statements] /\ todo \in [Txn -> Seq(ListId)]
  BY DEF IInv, TypeOK
<1>2. ASSUME NEW a, Rollback(t, a)
      PROVE  \A u \in Txn \ {t} : pc'[u] = pc[u] /\ todo'[u] = todo[u]
  BY <1>1, <1>2 DEF Rollback, Finish
<1>3. CASE \E r \in Requests : Begin(t, r)
  BY <1>1, <1>3 DEF Begin
<1>4. CASE LockNext(t)
  BY <1>1, <1>4 DEF LockNext
<1>5. CASE DeleteRow(t)
  BY <1>1, <1>2, <1>5 DEF DeleteRow
<1>6. CASE LockRenamed(t)
  BY <1>1, <1>2, <1>6 DEF LockRenamed
<1>7. CASE WriteName(t)
  BY <1>1, <1>2, <1>7 DEF WriteName
<1>8. CASE CheckList(t)
  BY <1>1, <1>2, <1>8 DEF CheckList
<1>9. CASE Commit(t) \/ Abort(t)
  BY <1>1, <1>2, <1>9 DEF Commit, Finish, Abort
<1>10. CASE UNCHANGED vars
  BY <1>10 DEF vars
<1> QED BY <1>3, <1>4, <1>5, <1>6, <1>7, <1>8, <1>9, <1>10 DEF Step

\* A statement advances its own transaction.
LEMMA OwnStepNears ==
  ASSUME IInv, WaitInv, NEW t \in Txn, Step(t) \/ \E r \in Requests : Begin(t, r)
  PROVE  StepsLeft(t) \in Nat /\ StepsLeft(t)' \in Nat /\ StepsLeft(t)' < StepsLeft(t)
<1>1. /\ pc \in [Txn -> Statements] /\ todo \in [Txn -> Seq(ListId)]
      /\ pc[t] \in Statements /\ todo[t] \in Seq(ListId) /\ Len(todo[t]) \in Nat
  BY DEF IInv, TypeOK
<1>2. /\ Cardinality(ListId) \in Nat /\ Cardinality(ListId) > 0
      /\ Len(heap) \in Nat /\ Len(heap) <= Cardinality(ListId)
  BY ScanLength DEF IInv, TypeOK, WaitInv
<1>3. ASSUME NEW a, Rollback(t, a), pc[t] \notin {"idle", "done"}
      PROVE  StepsLeft(t)' < StepsLeft(t) /\ StepsLeft(t) \in Nat /\ StepsLeft(t)' \in Nat
  <2>1. pc'[t] = "done"
    BY <1>1, <1>3 DEF Rollback, Finish
  <2> QED BY <1>1, <1>2, <1>3, <2>1 DEF StepsLeft, Statements
<1>4. ASSUME pc'[t] = "commit", pc[t] \in {"lock", "name", "add"}
      PROVE  StepsLeft(t)' < StepsLeft(t) /\ StepsLeft(t) \in Nat /\ StepsLeft(t)' \in Nat
  BY <1>1, <1>4 DEF StepsLeft
<1>5. ASSUME NEW r \in Requests, Begin(t, r)
      PROVE  StepsLeft(t)' < StepsLeft(t) /\ StepsLeft(t) \in Nat /\ StepsLeft(t)' \in Nat
  <2>1. /\ pc[t] = "idle" /\ pc'[t] = FirstStatement(r.op)
        /\ r.op = "delete" => todo'[t] = heap
    BY <1>1, <1>5 DEF Begin, Snapshot
  <2>2. StepsLeft(t)' \in {Len(heap) + 2, 3, 2}
    BY <2>1, RequestsType DEF StepsLeft, FirstStatement
  <2>3. StepsLeft(t) = Cardinality(ListId) + 3
    BY <2>1 DEF StepsLeft
  <2> QED BY <1>2, <2>2, <2>3
<1>6. CASE LockNext(t)
  <2>1. /\ pc[t] = "lock" /\ pc'[t] = "lock" /\ todo[t] # <<>>
        /\ todo'[t] = Tail(todo[t])
    BY <1>1, <1>6 DEF LockNext
  <2>2. Len(todo'[t]) = Len(todo[t]) - 1 /\ Len(todo[t]) > 0
    BY <1>1, <2>1, HeadTailProperties, EmptySeq
  <2> QED BY <1>1, <2>1, <2>2 DEF StepsLeft
<1>7. CASE DeleteRow(t)
  BY <1>1, <1>3, <1>4, <1>7 DEF DeleteRow
<1>8. CASE LockRenamed(t)
  <2>1. pc[t] = "rename" /\ (pc'[t] = "name" \/ \E a : Rollback(t, a))
    BY <1>1, <1>8 DEF LockRenamed
  <2>2. CASE pc'[t] = "name"
    BY <2>1, <2>2 DEF StepsLeft
  <2> QED BY <1>3, <2>1, <2>2
<1>9. CASE WriteName(t)
  BY <1>1, <1>3, <1>4, <1>9 DEF WriteName
<1>10. CASE CheckList(t)
  BY <1>1, <1>3, <1>4, <1>10 DEF CheckList
<1>11. CASE Commit(t)
  <2>1. pc[t] = "commit" /\ pc'[t] = "done"
    BY <1>1, <1>11 DEF Commit, Finish
  <2> QED BY <2>1 DEF StepsLeft
<1>12. CASE Abort(t)
  BY <1>3, <1>12, VictimWaits DEF Abort
<1> QED BY <1>5, <1>6, <1>7, <1>8, <1>9, <1>10, <1>11, <1>12 DEF Step

\* What may be committed has a heap to be committed to: a new row goes to its end,
\* a row that goes leaves the others where they are.
LEMMA CommitHasHeap ==
  ASSUME IInv, WaitInv, NEW t \in Txn, pc[t] = "commit"
  PROVE  HeapsAfter(t) # {}
<1> DEFINE n == Cardinality(Present)
           l == req[t].list
<1>1. IsFiniteSet(Present) /\ n \in Nat /\ Present \subseteq ListId
  BY FiniteLists, FS_CardinalityType DEF IInv, TypeOK
<1>2. /\ heap \in [1 .. n -> Present]
      /\ \A i, j \in 1 .. n : i # j => heap[i] # heap[j]
      /\ heap \in SetToSeqs(Present)
  BY DEF WaitInv, HeapIsPresent, SetToSeqs
<1>3. req[t].op \in {"delete", "create", "rename", "add"} /\ req[t] \in Requests
  BY RequestsType DEF IInv, StatementOfRequest
<1>4. CASE DOMAIN NamesAfter(t) = Present
  BY <1>2, <1>4 DEF HeapsAfter
<1>5. CASE req[t].op = "create" /\ t \notin Present
  <2> DEFINE h == [i \in 1 .. n + 1 |-> IF i = n + 1 THEN t ELSE heap[i]]
  <2>1. DOMAIN NamesAfter(t) = Present \cup {t}
    BY <1>5 DEF NamesAfter
  <2>2. Cardinality(Present \cup {t}) = n + 1
    BY <1>1, <1>5, FS_AddElement
  <2>3. h \in [1 .. n + 1 -> Present \cup {t}]
    BY <1>1, <1>2
  <2>4. \A i, j \in 1 .. n + 1 : i # j => h[i] # h[j]
    BY <1>1, <1>2, <1>5
  <2>5. h \in SetToSeqs(Present \cup {t})
    BY <2>2, <2>3, <2>4 DEF SetToSeqs
  <2>6. \A k, m \in Present : Before(h, k, m) <=> Before(heap, k, m)
    <3> SUFFICES ASSUME NEW k \in Present, NEW m \in Present
                 PROVE  Before(h, k, m) <=> Before(heap, k, m)
      OBVIOUS
    <3>1. ASSUME NEW i \in DOMAIN h, h[i] \in Present
          PROVE  i \in DOMAIN heap /\ heap[i] = h[i]
      BY <1>1, <1>2, <1>5, <3>1
    <3>2. \A i \in DOMAIN heap : i \in DOMAIN h /\ h[i] = heap[i]
      BY <1>1, <1>2
    <3> HIDE DEF h
    <3> QED BY <3>1, <3>2 DEF Before
  <2> HIDE DEF h
  <2>7. h \in HeapsAfter(t)
    BY <1>5, <2>1, <2>5, <2>6 DEF HeapsAfter
  <2> QED BY <2>7
<1>6. CASE req[t].op = "delete"
  <2>1. l \in Present
    BY <1>6 DEF IInv, WriterHoldsRow
  <2>2. PICK p \in 1 .. n : heap[p] = l
    BY <1>1, <1>2, <2>1, EnumerationMeets
  <2> DEFINE Old(i) == IF i < p THEN i ELSE i + 1
             h == [i \in 1 .. n - 1 |-> heap[Old(i)]]
  <2>3. DOMAIN NamesAfter(t) = Present \ {l}
    BY <1>6 DEF NamesAfter
  <2>4. Cardinality(Present \ {l}) = n - 1
    BY <1>1, <2>1, FS_RemoveElement
  <2>5. \A i \in 1 .. n - 1 : Old(i) \in 1 .. n /\ Old(i) # p
    BY <1>1, <2>2
  <2>6. \A i, j \in 1 .. n - 1 : i < j <=> Old(i) < Old(j)
    BY <1>1, <2>2
  <2>7. \A k \in 1 .. n : k # p => \E i \in 1 .. n - 1 : Old(i) = k
    <3> SUFFICES ASSUME NEW k \in 1 .. n, k # p PROVE \E i \in 1 .. n - 1 : Old(i) = k
      OBVIOUS
    <3>1. CASE k < p
      <4>1. k \in 1 .. n - 1 /\ Old(k) = k
        BY <1>1, <2>2, <3>1
      <4> QED BY <4>1
    <3>2. CASE k > p
      <4>1. k - 1 \in 1 .. n - 1 /\ Old(k - 1) = k
        BY <1>1, <2>2, <3>2
      <4> QED BY <4>1
    <3> QED BY <1>1, <2>2, <3>1, <3>2
  <2>8. h \in SetToSeqs(Present \ {l})
    <3>1. h \in [1 .. n - 1 -> Present \ {l}]
      BY <1>1, <1>2, <2>2, <2>5
    <3>2. \A i, j \in 1 .. n - 1 : i # j => h[i] # h[j]
      <4> SUFFICES ASSUME NEW i \in 1 .. n - 1, NEW j \in 1 .. n - 1, i # j
                   PROVE  heap[Old(i)] # heap[Old(j)]
        OBVIOUS
      <4>1. Old(i) # Old(j)
        BY <1>1, <2>2
      <4> HIDE DEF Old
      <4> QED BY <1>2, <2>5, <4>1
    <3> HIDE DEF h
    <3> QED BY <2>4, <3>1, <3>2 DEF SetToSeqs
  <2>9. \A k, m \in Present \ {l} : Before(h, k, m) <=> Before(heap, k, m)
    <3> SUFFICES ASSUME NEW k \in Present \ {l}, NEW m \in Present \ {l}
                 PROVE  Before(h, k, m) <=> Before(heap, k, m)
      OBVIOUS
    <3>1. DOMAIN h = 1 .. n - 1 /\ DOMAIN heap = 1 .. n
          /\ \A i \in 1 .. n - 1 : h[i] = heap[Old(i)]
      BY <1>2
    <3> HIDE DEF Old, h
    <3>2. ASSUME Before(h, k, m) PROVE Before(heap, k, m)
      BY <2>5, <2>6, <3>1, <3>2 DEF Before
    <3>3. ASSUME Before(heap, k, m) PROVE Before(h, k, m)
      <4>1. PICK a, b \in 1 .. n : a < b /\ heap[a] = k /\ heap[b] = m
        BY <3>1, <3>3 DEF Before
      <4>2. a # p /\ b # p
        BY <2>2, <4>1
      <4>3. PICK i \in 1 .. n - 1 : Old(i) = a
        BY <2>7, <4>2
      <4>4. PICK j \in 1 .. n - 1 : Old(j) = b
        BY <2>7, <4>2
      <4> QED BY <2>6, <3>1, <4>1, <4>3, <4>4 DEF Before
    <3> QED BY <3>2, <3>3
  <2> HIDE DEF h
  <2>10. h \in HeapsAfter(t)
    BY <1>6, <2>3, <2>8, <2>9 DEF HeapsAfter
  <2> QED BY <2>10
<1>7. DOMAIN NamesAfter(t) = Present \/ req[t].op = "delete"
        \/ (req[t].op = "create" /\ t \notin Present)
  BY <1>3 DEF NamesAfter, Present
<1> QED BY <1>4, <1>5, <1>6, <1>7

-----------------------------------------------------------------------------
\* Theorems

\* The tables, the locks and the transactions keep their types.
THEOREM TypeCorrect == Spec => []TypeOK
<1>1. IInv => TypeOK
  BY DEF IInv
<1> QED BY <1>1, Inductive, PTL

\* However many requests delete, create and rename lists at once, a list is
\* left (DeleteList, CreateList, RenameList).
THEOREM ListAlwaysSurvives == Spec => []ListSurvives
<1>1. IInv => ListSurvives
  BY DEF IInv
<1> QED BY <1>1, Inductive, PTL

\* No interleaving of an add with the delete of its list leaves an item without
\* a list (CreateOrRevive, DeleteList and the foreign key).
THEOREM NoOrphanedItems == Spec => []NoOrphans
<1>1. IInv => NoOrphans
  BY DEF IInv
<1> QED BY <1>1, Inductive, PTL

\* Of two deletes of one list at most one is answered as done (DeleteList).
THEOREM OneDeleteIsDone == Spec => []OneDeleteWins
<1>1. SerialInv => OneDeleteWins
  BY DEF SerialInv
<1> QED BY <1>1, SerialInductive, PTL

\* Deletes and adds, which lock rows in the order of the scan and no row twice,
\* never deadlock (DeleteList, CreateOrRevive).
THEOREM DeletesGoThrough == Spec => []DeletesNeverDeadlock
<1>1. IInv /\ WaitInv => DeletesNeverDeadlock
  BY NobodyWaitsInACircle DEF DeletesNeverDeadlock, NoWriters
<1> QED BY <1>1, Inductive, WaitInductive, PTL

\* Whatever requests run at once, they never all wait for others: one waits for
\* nobody, or is the victim that ends a deadlock.
THEOREM NeverAllWait == Spec => []SomeoneIsFree
<1>1. IInv /\ WaitInv => SomeoneIsFree
  <2> SUFFICES ASSUME IInv, WaitInv, NEW t \in Txn, Busy(t)
               PROVE  \E u \in Txn : Busy(u) /\ (Blockers(u) = {} \/ Deadlocked(u))
    BY DEF SomeoneIsFree
  <2> DEFINE S == {u \in Txn : Busy(u)}
  <2>1. S \in SUBSET Txn /\ S # {} /\ \A u \in S : Blockers(u) \subseteq S
    BY BlockersAreBusy
  <2> HIDE DEF S
  <2>2. \E u \in S : Blockers(u) = {} \/ Deadlocked(u)
    BY <2>1, WaitGraph
  <2> QED BY <2>2 DEF S
<1> QED BY <1>1, Inductive, WaitInductive, PTL

\* Whatever requests run at once, the next statement of one of them can run: with
\* TransactionsEnd, no server that runs what it can leaves a request unanswered.
THEOREM OneCanAlwaysStep == Spec => []SomeoneCanStep
<1>1. IInv /\ WaitInv /\ SomeoneIsFree => SomeoneCanStep
  <2> SUFFICES ASSUME IInv, WaitInv, SomeoneIsFree, NEW t \in Txn, Busy(t)
               PROVE  \E u \in Txn : Busy(u) /\ CanStep(u)
    BY DEF SomeoneCanStep
  <2>1. PICK u \in Txn : Busy(u) /\ (Blockers(u) = {} \/ Deadlocked(u))
    BY DEF SomeoneIsFree
  <2>2. pc[u] \in {"lock", "rename", "name", "add", "commit"}
    BY <2>1 DEF Busy, IInv, TypeOK, Statements
  <2> QED BY <2>1, <2>2, CommitHasHeap DEF CanStep
<1> QED BY <1>1, Inductive, WaitInductive, NeverAllWait, PTL

\* Every transaction ends after a number of steps that it does not choose: no
\* statement of lists.go is repeated, whatever the others do meanwhile.
THEOREM TransactionsEnd == Spec => StepsRunOut
<1>1. IInv /\ WaitInv /\ [Next]_vars => [\E t \in Txn : NearsTheEnd(t)]_vars
  <2> SUFFICES ASSUME IInv, WaitInv, Next PROVE \E t \in Txn : NearsTheEnd(t)
    OBVIOUS
  <2>1. PICK t \in Txn : Step(t) \/ \E r \in Requests : Begin(t, r)
    BY DEF Next
  <2>2. \A u \in Txn \ {t} : StepsLeft(u)' = StepsLeft(u)
    BY <2>1, OthersStay DEF StepsLeft
  <2> QED BY <2>1, <2>2, OwnStepNears DEF NearsTheEnd
<1> QED BY <1>1, Inductive, WaitInductive, PTL DEF Spec, StepsRunOut

\* The lists change as if requests were served one at a time: names stay unique
\* and the last list is never deleted (lists.go implements ListRegistry).
THEOREM ListsAreARegistry == Spec => ImplementsRegistry
BY InitImplements, StepImplements, Inductive, SerialInductive, PTL
   DEF Spec, ImplementsRegistry, Registry!Spec

=============================================================================
