-------------------------------- MODULE Sync --------------------------------
(***************************************************************************)
(* Several tabs that edit one list: what the screens send (ShoppingList,   *)
(* AddItemBar, UncheckedList), what the patch functions of queryClient.ts  *)
(* make of it in the cache before the server answers, and what the store   *)
(* methods make of it when the request, or its repetition, arrives.        *)
(*                                                                         *)
(* The queue of a tab runs one mutation at a time, as MutationQueue shows. *)
(* Tabs are online; answers may be lost, and the request is then sent      *)
(* again.  The refetch that a mutation awaits reads the server in one step *)
(* and lands in another; of any other nothing is seen in between, since    *)
(* whatever writes the cache meanwhile cancels it.  Those that fail, or    *)
(* bring an older copy, are in ListView.                                   *)
(* PositionGap is large enough for the client's midpoints to be exact.     *)
(***************************************************************************)
EXTENDS StoreOps, SequencesExt

CONSTANTS
  Clients,
  TheList,    \* the list's id
  Starts,     \* tables of the list when the tabs open
  MaxEdits,   \* bound: how many edits are made in each tab
  MaxLosses   \* bound: how many answers are lost

\* The schema's promises hold of the list when the tabs open.
ASSUME SyncAssumption ==
  /\ TheList \in ListId
  /\ MaxEdits \in [Clients -> Nat] /\ MaxLosses \in Nat
  /\ \A T \in Starts :
       /\ IsFiniteSet(DOMAIN T) /\ IsTable(T, ItemId, ItemRow)
       /\ \A i \in DOMAIN T : T[i].list = TheList /\ NoteNotChecked(T[i])
       /\ \A i, j \in DOMAIN T : T[i].name = T[j].name => i = j

VARIABLES
  items,    \* the server's table
  shown,    \* each tab's cache
  carried,  \* the answer to the refetch that its first mutation awaits: no table, or one
  queue,    \* each tab's mutations, with their snapshots
  stage,    \* of its first: "sent", "answered", "settling" or "cancelled"
  err,      \* what the server answered to it
  replayed, \* history: it was served before, and nothing was served since
  used,     \* the ids that were ever given
  deleted,  \* history: the rows that were deleted on the server
  merged,   \* history: the ids whose add the server resolved to another row
  edits, losses

sending == <<queue, stage, err>>
history == <<used, deleted, merged>>
bounds  == <<edits, losses>>
vars    == <<items, shown, carried, sending, replayed, history, bounds>>

Lists == [l \in {TheList} |-> Nil]

Init ==
  /\ items \in Starts
  /\ shown = [c \in Clients |-> items] /\ carried = [c \in Clients |-> {}]
  /\ queue = [c \in Clients |-> <<>>]
  /\ stage = [c \in Clients |-> "sent"] /\ err = [c \in Clients |-> "none"]
  /\ replayed = [c \in Clients |-> FALSE]
  /\ used = DOMAIN items /\ deleted = {} /\ merged = {}
  /\ edits = [c \in Clients |-> 0] /\ losses = 0

-----------------------------------------------------------------------------
\* Edits: what is sent, and what the cache makes of it

NoPatch == [name |-> Nil, checked |-> Nil, note |-> Nil, reorder |-> Nil]

Add(n, i)           == [kind |-> "add", item |-> i, name |-> n, patch |-> NoPatch, pos |-> Nil]
Update(i, p, pos)   == [kind |-> "update", item |-> i, name |-> Nil, patch |-> p, pos |-> pos]
Delete(i)           == [kind |-> "delete", item |-> i, name |-> Nil, patch |-> NoPatch, pos |-> Nil]

\* splitItems' unchecked section, by position.
Unchecked(table) ==
  LET S == {i \in DOMAIN table : ~table[i].checked /\ ~table[i].note}
  IN  Ordered(S, SlotOrder(table, S))

findByName(table, n) == Holders(table, TheList, n)

Plain(row) == ~row.checked /\ ~row.note

\* AddItemBar's submit: a plain row of that name is flashed and nothing is sent.
Adds(table, i) ==
  {Add(n, i) : n \in {k \in Name : \A j \in findByName(table, k) : ~Plain(table[j])}}

\* handleToggle, from a row with a checkbox.
Toggles(table) ==
  {Update(i, [NoPatch EXCEPT !.checked = ~table[i].checked], Nil) :
     i \in {j \in DOMAIN table : ~table[j].note}}

\* handleToggleNote
Converts(table) ==
  {Update(i, [NoPatch EXCEPT !.note = ~table[i].note, !.checked = FALSE], Nil) :
     i \in DOMAIN table}

\* handleDelete
Deletes(table) == {Delete(i) : i \in DOMAIN table}

\* planReorder, for the row at one index dropped over the row at another.
Planned(table, from, to) ==
  LET s     == Unchecked(table)
      moved == InsertAt(RemoveAt(s, from), to, s[from])
      above == IF to = 1 THEN Nil ELSE moved[to - 1]
      below == IF to = Len(s) THEN Nil ELSE moved[to + 1]
  IN  Update(s[from], [NoPatch EXCEPT !.reorder = [after |-> above, before |-> below]],
             IF above # Nil /\ below # Nil THEN Midpoint(table[above].pos, table[below].pos)
             ELSE IF below # Nil THEN table[below].pos - PositionGap
             ELSE table[above].pos + PositionGap)

Drops(table) ==
  LET Index == DOMAIN Unchecked(table)
  IN  {Planned(table, d[1], d[2]) : d \in {e \in Index \X Index : e[1] # e[2]}}

\* What a tab that shows the table may send, with a new id.
EditsOf(table, i) ==
  Adds(table, i) \cup Toggles(table) \cup Converts(table) \cup Deletes(table) \cup Drops(table)

\* Mutants: a row of the same name is not looked for; one that is found stays a
\* note.
AddPatchNew(table, m) == With(table, m.item, NewItem(table, TheList, m.name))

AddPatchUnchecked(table, m) ==
  IF findByName(table, m.name) = {}
  THEN With(table, m.item, NewItem(table, TheList, m.name))
  ELSE LET i == CHOOSE j \in findByName(table, m.name) : TRUE
       IN  [table EXCEPT ![i].checked = FALSE]

\* Math.max over the positions and 0.
maxPosition(table) ==
  IF \A i \in DOMAIN table : table[i].pos <= 0 THEN 0 ELSE MaxPosition(table, TheList)

\* addItem's patch: revive a row of that name, or append one.
AddPatch(table, m) ==
  IF findByName(table, m.name) = {}
  THEN With(table, m.item, [NewItem(table, TheList, m.name)
                              EXCEPT !.pos = maxPosition(table) + PositionGap])
  ELSE LET i == CHOOSE j \in findByName(table, m.name) : TRUE
       IN  With(table, i, Revived(table[i]))

\* Mutant: a field that is not given overwrites.
UpdatePatchAll(table, m) ==
  IF m.item \notin DOMAIN table THEN table
  ELSE [table EXCEPT ![m.item].checked = m.patch.checked,
                     ![m.item].note    = m.patch.note,
                     ![m.item].pos     = m.pos]

\* updateItem's patch: the fields of vars.optimistic.
UpdatePatch(table, m) ==
  IF m.item \notin DOMAIN table THEN table
  ELSE [table EXCEPT ![m.item].checked = Given(m.patch.checked, @),
                     ![m.item].note    = Given(m.patch.note, @),
                     ![m.item].pos     = Given(m.pos, @)]

Patched(table, m) ==
  CASE m.kind = "add"    -> AddPatch(table, m)
    [] m.kind = "update" -> UpdatePatch(table, m)
    [] m.kind = "delete" -> Without(table, {m.item})

\* What the store method makes of it.
Stored(table, m) ==
  CASE m.kind = "add"    -> CreateOrRevive(table, Lists, TheList, m.name, m.item)
    [] m.kind = "update" -> UpdateItem(table, TheList, m.item, m.patch)
    [] m.kind = "delete" -> DeleteItem(table, TheList, m.item)

-----------------------------------------------------------------------------
\* A tab

\* Any id that was not given before: ids only break ties of creation times.
NewId == CHOOSE i \in ItemId \ used : \A j \in ItemId \ used : i <= j

\* Mutant: last come, first served.
EnqueuedFirst(q, e) == <<e>> \o q

Enqueued(q, e) == Append(q, e)

\* onMutate: the refetch under way is cancelled, the snapshot taken, the cache
\* patched.  A drop is in the cache already when its snapshot is taken.
Edit(c) ==
  /\ edits[c] < MaxEdits[c] /\ edits' = [edits EXCEPT ![c] = @ + 1]
  /\ used # ItemId
  /\ \E m \in EditsOf(shown[c], NewId) :
       /\ shown' = [shown EXCEPT ![c] = Patched(@, m)]
       /\ queue' = [queue EXCEPT ![c] =
            Enqueued(@, [edit     |-> m,
                         previous |-> IF m.patch.reorder = Nil THEN shown[c] ELSE shown'[c]])]
       /\ used' = IF m.kind = "add" THEN used \cup {m.item} ELSE used
  /\ carried' = [carried EXCEPT ![c] = {}]
  /\ stage' = [stage EXCEPT ![c] = IF @ = "settling" THEN "cancelled" ELSE @]
  /\ UNCHANGED <<items, err, replayed, deleted, merged, losses>>

First(c) == Head(queue[c]).edit

\* The server serves the first mutation of a tab.
Serve(c) ==
  /\ queue[c] # <<>> /\ stage[c] = "sent"
  /\ LET m == First(c)
         r == Stored(items, m)
     IN  /\ items' = r.items
         /\ err' = [err EXCEPT ![c] = r.err]
         /\ deleted' = deleted \cup (DOMAIN items \ DOMAIN r.items)
         /\ merged' = IF m.kind = "add" /\ r.err = "none" /\ r.row # m.item
                      THEN merged \cup {m.item} ELSE merged
  /\ stage' = [stage EXCEPT ![c] = "answered"]
  /\ replayed' = [d \in Clients |-> d = c]
  /\ UNCHANGED <<shown, carried, queue, used, bounds>>

\* The answer is lost on its way, and the mutation is sent again.
AnswerLost(c) ==
  /\ stage[c] = "answered" /\ losses < MaxLosses
  /\ losses' = losses + 1
  /\ stage' = [stage EXCEPT ![c] = "sent"]
  /\ UNCHANGED <<items, shown, carried, queue, err, replayed, history, edits>>

\* Mutant: errors of any kind are retried, for ever.
FinalOk(e) == e = "none"

\* A server that answers has had its say: no ApiError is retried.
Final(e) == TRUE

\* onError puts the snapshot back, and onSettled invalidates.
Answer(c) ==
  /\ stage[c] = "answered" /\ Final(err[c])
  /\ shown' = IF err[c] = "none" THEN shown
              ELSE [shown EXCEPT ![c] = Head(queue[c]).previous]
  /\ stage' = [stage EXCEPT ![c] = "settling"] /\ err' = [err EXCEPT ![c] = "none"]
  /\ replayed' = [replayed EXCEPT ![c] = FALSE]
  /\ UNCHANGED <<items, carried, queue, history, bounds>>

\* The server answers the refetch that onSettled awaits.
Fetch(c) ==
  /\ stage[c] = "settling" /\ carried[c] = {}
  /\ carried' = [carried EXCEPT ![c] = {items}]
  /\ UNCHANGED <<items, shown, sending, replayed, history, bounds>>

\* It has landed, unless an edit cancelled it, and the next mutation is sent.
Settle(c) ==
  /\ \/ stage[c] = "settling" /\ shown' \in {[shown EXCEPT ![c] = table] : table \in carried[c]}
     \/ stage[c] = "cancelled" /\ UNCHANGED shown
  /\ carried' = [carried EXCEPT ![c] = {}]
  /\ queue' = [queue EXCEPT ![c] = Tail(@)]
  /\ stage' = [stage EXCEPT ![c] = "sent"]
  /\ UNCHANGED <<items, err, replayed, history, bounds>>

\* A focus or a reconnect refetches, also in the middle of mutations, and so does
\* the poll when there are none.
Refetch(c) ==
  /\ stage[c] # "settling" /\ shown[c] # items
  /\ shown' = [shown EXCEPT ![c] = items]
  /\ UNCHANGED <<items, carried, sending, replayed, history, bounds>>

Runs(c) == Serve(c) \/ Answer(c) \/ Fetch(c) \/ Settle(c)

Next == \E c \in Clients : Edit(c) \/ Runs(c) \/ AnswerLost(c) \/ Refetch(c)

\* Requests and the refetches that are awaited end.  Of no other is it assumed
\* that it comes: after an add or a drop the interval of the poll stays cleared.
Fairness == \A c \in Clients : WF_vars(Runs(c))

Spec == Init /\ [][Next]_vars /\ Fairness

-----------------------------------------------------------------------------
\* Properties

\* What the tabs show is a table too, and so are their snapshots.
TypeOK ==
  /\ IsTable(items, used, ItemRow)
  /\ \A c \in Clients :
       /\ IsTable(shown[c], used, ItemRow)
       /\ \A table \in carried[c] : IsTable(table, used, ItemRow)
       /\ \A k \in DOMAIN queue[c] : IsTable(queue[c][k].previous, used, ItemRow)
       /\ stage[c] \in {"sent", "answered", "settling", "cancelled"}
       /\ queue[c] = <<>> => stage[c] = "sent"
  /\ deleted \cup merged \subseteq used

\* No order of adds, rollbacks and refetches on any tab makes it show a name
\* twice, or a note that is checked.
ShownAsStored ==
  \A c \in Clients :
    /\ \A i, j \in DOMAIN shown[c] : shown[c][i].name = shown[c][j].name => i = j
    /\ \A i \in DOMAIN shown[c] : NoteNotChecked(shown[c][i])

\* What a table shows: the notes and the unchecked rows in order, and the rest.
Sections(table) ==
  [notes     |-> SlotOrder(table, {i \in DOMAIN table : table[i].note}),
   unchecked |-> SlotOrder(table, {i \in DOMAIN table : Plain(table[i])}),
   rows      |-> [i \in DOMAIN table |-> <<table[i].name, table[i].checked, table[i].note>>]]

\* Whatever the list has come to, a tab that is up to date shows an add, a
\* check, a conversion or a delete at once as the server will answer it, so that
\* no row jumps when the refetch lands.  (Drops are Reorder's.)
OptimismMirrorsServer ==
  \A c \in Clients : queue[c] = <<>> /\ shown[c] = items /\ used # ItemId =>
    \A m \in EditsOf(items, NewId) \ Drops(items) :
      /\ Stored(items, m).err = "none"
      /\ Sections(Patched(items, m)) = Sections(Stored(items, m).items)

IsServed(c) == stage[c] = "sent" /\ stage'[c] = "answered"

\* A request that is sent again because its answer was lost changes nothing, if
\* nobody else was served in between.
ReplayHarmless ==
  [][\A c \in Clients : replayed[c] /\ IsServed(c) => items' = items]_vars

\* The rows a mutation needs.
Needed(m) ==
  IF m.kind = "add" THEN {}
  ELSE {m.item} \cup
       IF m.patch.reorder = Nil THEN {}
       ELSE {m.patch.reorder.after, m.patch.reorder.before} \ {Nil}

\* An edit is refused only because a row it needs was deleted before, or is one
\* that the server has under another id since its add met that name: none comes
\* before the add it follows, and no interleaving with other tabs' edits, no
\* lost answer and no stale screen has the server refuse anything else.
RefusedForAReason ==
  [][\A c \in Clients :
       IsServed(c) /\ err'[c] # "none" =>
         Needed(First(c)) \cap (deleted \cup merged) # {}]_vars

\* However the tabs' edits cross, every queue runs dry, and some tab, that whose
\* mutation was served last, ends up showing the server's list; so does every
\* other that refetches when it is behind, which nothing sees to.
Converge ==
  /\ <>[]((\A c \in Clients : queue[c] = <<>>) /\ \E c \in Clients : shown[c] = items)
  /\ \A c \in Clients : WF_vars(Refetch(c)) => <>[](shown[c] = items)
=============================================================================
