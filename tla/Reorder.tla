------------------------------ MODULE Reorder ------------------------------
(***************************************************************************)
(* A drag in the unchecked section, from the drop to the order the server  *)
(* lists afterwards: the order the client shows (api/sort.ts), the         *)
(* neighbours and the position a drop is turned into (api/reorder.ts), the *)
(* write to the cache (api/queryClient.ts) and the PATCH, over the tables  *)
(* of Store.  The cache holds the rows the server has.                     *)
(*                                                                         *)
(* A creation time is two digits of a fraction of one second, the times    *)
(* whose texts are hardest to compare, and Radix the number of digits.     *)
(***************************************************************************)
EXTENDS Store, SequencesExt

CONSTANT Radix

ASSUME RadixAssumption ==
  /\ Radix \in Nat \ {0, 1}
  /\ Times \subseteq 0 .. Radix * Radix - 1

-----------------------------------------------------------------------------
\* The two display orders

\* RFC 3339 without trailing zeros, as the collation ranks its characters: the
\* "Z" that ends a text comes after every digit, and the "." before.
Printed(t) ==
  IF t = 0 THEN <<Radix, Radix>>
  ELSE <<t \div Radix, IF t % Radix = 0 THEN Radix ELSE t % Radix>>

PrintedBefore(s, t) ==
  LET p == Printed(s)
      q == Printed(t)
  IN  p[1] < q[1] \/ (p[1] = q[1] /\ p[2] < q[2])

\* byPosition
ByPosition(table, i, j) ==
  \/ table[i].pos < table[j].pos
  \/ /\ table[i].pos = table[j].pos
     /\ \/ PrintedBefore(table[i].born, table[j].born)
        \/ table[i].born = table[j].born /\ i < j

PositionOrder(table, S) == {p \in S \X S : ByPosition(table, p[1], p[2])}

\* The unchecked section as splitItems shows it,
Shown(table, l) ==
  Ordered(Section(table, l), PositionOrder(table, Section(table, l)))

\* and as ListItems answers it.
Served(table, l) ==
  Ordered(Section(table, l), SlotOrder(table, Section(table, l)))

-----------------------------------------------------------------------------
\* A drop

\* arrayMove
ArrayMove(s, from, to) == InsertAt(RemoveAt(s, from), to, s[from])

At(s, n) == IF n \in DOMAIN s THEN s[n] ELSE Nil

\* Mutants: the neighbours are looked up before the row is moved; the moved row
\* takes the place of its neighbour.
PlanReorderUnmoved(table, s, from, to) ==
  [patch |-> [after |-> At(s, to - 1), before |-> At(s, to + 1)], position |-> 0]

PlanReorderOnto(table, s, from, to) ==
  [patch |-> [after |-> At(s, to - 1), before |-> s[to]],
   position |-> 2 * table[s[to]].pos]

\* planReorder, of the row at one index dropped over the row at another.  The
\* position counts in halves of a grid unit: the client does not round.
PlanReorder(table, s, from, to) ==
  LET above == At(ArrayMove(s, from, to), to - 1)
      below == At(ArrayMove(s, from, to), to + 1)
  IN  [patch    |-> [after |-> above, before |-> below],
       position |->
         IF above # Nil /\ below # Nil THEN table[above].pos + table[below].pos
         ELSE IF below # Nil THEN 2 * (table[below].pos - PositionGap)
         ELSE IF above # Nil THEN 2 * (table[above].pos + PositionGap)
         ELSE 2 * table[s[from]].pos]

\* applyReorderOptimistic, and what onMutate writes again: the cache with the
\* position of one row replaced, in halves of a grid unit.
Optimistic(table, m, position) ==
  [i \in DOMAIN table |->
     [table[i] EXCEPT !.pos = IF i = m THEN position ELSE 2 * @]]

\* The drops: the index of the row dragged and of the row it is dropped over.
Drops(l) ==
  LET Index == DOMAIN Shown(items, l)
  IN  {d \in Index \X Index : d[1] # d[2]}

Plan(l, d) == PlanReorder(items, Shown(items, l), d[1], d[2])

\* The body that names the neighbours, and nothing else.
DropBody(l, d) ==
  [name |-> Nil, checked |-> Nil, note |-> Nil, reorder |-> Plan(l, d).patch]

\* The order the user gave the section.
Dropped(l, d) == ArrayMove(Shown(items, l), d[1], d[2])

Dragged(l, d) == Shown(items, l)[d[1]]

\* handleDragEnd: the section shown at once, and the answer to the PATCH.
ShownAtOnce(l, d) ==
  Shown(Optimistic(items, Dragged(l, d), Plan(l, d).position), l)

Answer(l, d) == UpdateItem(items, l, Dragged(l, d), DropBody(l, d))

-----------------------------------------------------------------------------
\* Properties of every drop in every state

\* The client shows the list in the order the server lists it.
Mirrored(l) == Shown(items, l) = Served(items, l)

\* A row dropped in a list that is shown in the order served is served where it
\* was dropped, with the others around it as they were, whatever ties, hidden
\* rows and exhausted gaps there are.
DropIsServed ==
  \A l \in DOMAIN lists : Mirrored(l) =>
    \A d \in Drops(l) :
      /\ Answer(l, d).err = "none"
      /\ Served(Answer(l, d).items, l) = Dropped(l, d)

Tied(i, j) == i # Nil /\ j # Nil /\ items[i].pos = items[j].pos

\* If the rows it is dropped between do not tie, the position the client guesses
\* already shows the row where it was dropped, so that the answer moves nothing.
DropIsShown ==
  \A l \in DOMAIN lists : \A d \in Drops(l) :
    LET between == Plan(l, d).patch
    IN  ~Tied(between.after, between.before) => ShownAtOnce(l, d) = Dropped(l, d)
=============================================================================
