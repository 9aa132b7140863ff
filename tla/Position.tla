------------------------------ MODULE Position ------------------------------
(***************************************************************************)
(* The ordering model of one list: backend/internal/store/position.go.     *)
(*                                                                         *)
(* A table of items is a function from the ids present to rows with fields *)
(* list, name, checked, note, pos and born.  pos is the column "position"  *)
(* on a fixed-point grid: MinPositionGap grid units stand for 1e-6 and     *)
(* PositionGap for 1024.  A midpoint that falls between two grid points is *)
(* rounded down; "closer than MinPositionGap" comes out as on the reals    *)
(* when MinPositionGap is 1, the value the runs use.  born is created_at,  *)
(* of which only the order matters, and ids are naturals because uuids are *)
(* ordered.                                                                *)
(***************************************************************************)
EXTENDS Integers, FiniteSets

CONSTANTS
  PositionGap,     \* distance between freshly assigned positions
  MinPositionGap,  \* smallest tolerated distance of a midpoint to a neighbour
  Nil              \* Go's nil pointer and JSON's null

\* The real ratio is 1024 to 1e-6; halving one fresh gap must be tolerated.
ASSUME GapAssumption ==
  /\ MinPositionGap \in Nat \ {0}
  /\ PositionGap \in Nat
  /\ PositionGap >= 2 * MinPositionGap

-----------------------------------------------------------------------------

ItemsOf(items, l) == {i \in DOMAIN items : items[i].list = l}

InList(items, l, i) == i \in ItemsOf(items, l)

\* ORDER BY position, created_at, id: the slots of a list, shown or retained.
SlotBefore(items, i, j) ==
  \/ items[i].pos < items[j].pos
  \/ /\ items[i].pos = items[j].pos
     /\ \/ items[i].born < items[j].born
        \/ items[i].born = items[j].born /\ i < j

\* The rows of a set in that order, as pairs.
SlotOrder(items, S) == {p \in S \X S : SlotBefore(items, p[1], p[2])}

\* How many elements of a set come before one, in an order that is a set of pairs,
Rank(S, order, i) == Cardinality({j \in S : <<j, i>> \in order})

\* and the set as a sequence in that order.
Ordered(S, order) ==
  [k \in 1 .. Cardinality(S) |-> CHOOSE i \in S : Rank(S, order, i) = k - 1]

\* ORDER BY checked, position, created_at, id: every checked row comes after
\* every row that is not.
CanonicalBefore(items, i, j) ==
  IF items[i].checked = items[j].checked
  THEN SlotBefore(items, i, j)
  ELSE items[j].checked

\* Mutant: ORDER BY created_at.
RowNumberByAge(items, l, i) ==
  1 + Cardinality({j \in ItemsOf(items, l) : items[j].born < items[i].born})

\* row_number() OVER (ORDER BY ...) within the list.
RowNumber(items, l, i) ==
  1 + Cardinality({j \in ItemsOf(items, l) : CanonicalBefore(items, j, i)})

\* Mutants: the row numbers themselves as positions; no WHERE list_id.
RenormalizeDense(items, l) ==
  [i \in DOMAIN items |->
     IF items[i].list = l
     THEN [items[i] EXCEPT !.pos = RowNumber(items, l, i)]
     ELSE items[i]]

RenormalizeEverywhere(items, l) ==
  [i \in DOMAIN items |->
     [items[i] EXCEPT !.pos = RowNumber(items, items[i].list, i) * PositionGap]]

\* One list's positions become PositionGap, 2 * PositionGap, ...
Renormalize(items, l) ==
  [i \in DOMAIN items |->
     IF items[i].list = l
     THEN [items[i] EXCEPT !.pos = RowNumber(items, l, i) * PositionGap]
     ELSE items[i]]

-----------------------------------------------------------------------------

\* A ReorderTarget: the rows above and below the drop location, or Nil.
Targets(ids) == [after : ids \cup {Nil}, before : ids \cup {Nil}]

\* The rows whose positions the computation reads.
Named(m, t) ==
  IF t.after = Nil /\ t.before = Nil
  THEN {m}
  ELSE {t.after, t.before} \ {Nil}

Midpoint(a, b) == (a + b) \div 2

\* Mutant: a minimal gap of nothing.
TooCloseNever(p, q) == p - q < 0 /\ q - p < 0

TooClose(p, q) == p - q < MinPositionGap /\ q - p < MinPositionGap

\* What tryComputePosition answers: an error, "exhausted" where the code
\* returns ok = false, or a position.
TryComputePosition(items, l, m, t) ==
  IF \E n \in Named(m, t) : ~InList(items, l, n)
  THEN [err |-> "not_found", pos |-> 0]
  ELSE IF t.after # Nil /\ t.before # Nil
  THEN LET above == items[t.after].pos
           below == items[t.before].pos
           mid   == Midpoint(above, below)
       IN  IF TooClose(mid, above) \/ TooClose(mid, below)
           THEN [err |-> "exhausted", pos |-> 0]
           ELSE [err |-> "none", pos |-> mid]
  ELSE IF t.after # Nil
  THEN [err |-> "none", pos |-> items[t.after].pos + PositionGap]
  ELSE IF t.before # Nil
  THEN [err |-> "none", pos |-> items[t.before].pos - PositionGap]
  ELSE [err |-> "none", pos |-> items[m].pos]

\* computePosition: try, renormalize the list if the gap is exhausted, and try
\* once more.  The answer carries the table the transaction has written so far;
\* on an error the transaction rolls back, so it is the table it began with.
ComputePosition(items, l, m, t) ==
  LET first  == TryComputePosition(items, l, m, t)
      spread == Renormalize(items, l)
      second == TryComputePosition(spread, l, m, t)
  IN  IF first.err # "exhausted"
      THEN [err |-> first.err, pos |-> first.pos, items |-> items]
      ELSE IF second.err = "none"
      THEN [err |-> "none", pos |-> second.pos, items |-> spread]
      ELSE [err |-> IF second.err = "exhausted" THEN "internal" ELSE second.err,
            pos |-> 0, items |-> items]
=============================================================================
