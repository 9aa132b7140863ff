--------------------------- MODULE PositionProofs ---------------------------
(***************************************************************************)
(* Facts about the ordering model of Position, for every finite table and  *)
(* every admissible pair of gaps: the canonical order is a strict total    *)
(* order, row numbers follow it, and a renormalized list has room between  *)
(* any two of its rows.  The last sections are about the methods of        *)
(* StoreOps: what each leaves of a table, and that it keeps the schema.    *)
(***************************************************************************)
EXTENDS StoreOps, SequencesExt, FiniteSetTheorems, SequenceTheorems, TLAPS

\* The item tables the lemmas speak of.
Sane(table) == IsFiniteSet(DOMAIN table) /\ IsTable(table, ItemId, ItemRow)

\* The fields of a sane table's rows.
LEMMA SaneRows ==
  ASSUME NEW table, Sane(table)
  PROVE  /\ IsFiniteSet(DOMAIN table)
         /\ DOMAIN table \subseteq Nat
         /\ \A i \in DOMAIN table : /\ table[i] \in ItemRow
                                    /\ table[i].list \in ListId
                                    /\ table[i].name \in Name
                                    /\ table[i].checked \in BOOLEAN
                                    /\ table[i].note \in BOOLEAN
                                    /\ table[i].pos \in Int
                                    /\ table[i].born \in Nat
BY RowAssumption DEF Sane, IsTable, ItemRow

-----------------------------------------------------------------------------
\* Maxima of finite families of integers

\* A finite, nonempty family of integers has a largest member: what SQL's MAX
\* returns exists.
LEMMA FiniteMax ==
  ASSUME NEW D, IsFiniteSet(D), D # {},
         NEW f, \A x \in D : f[x] \in Int
  PROVE  \E x \in D : \A y \in D : f[y] <= f[x]
<1> DEFINE Up(x) == {y \in D : f[y] > f[x]}
           T == {Up(x) : x \in D}
<1>1. T \subseteq FiniteSubsetsOf(D)
  <2>1. \A x \in D : Up(x) \in SUBSET D
    OBVIOUS
  <2>2. \A x \in D : IsFiniteSet(Up(x))
    BY <2>1, FS_Subset
  <2> QED BY <2>1, <2>2 DEF FiniteSubsetsOf
<1>2. PICK U \in T : \A V \in T : <<V, U>> \notin StrictSubsetOrdering(D)
  <2>1. T # {}
    OBVIOUS
  <2> HIDE DEF T
  <2> QED BY <1>1, <2>1, FS_StrictSubsetOrderingWellFounded, WFMin
<1>3. PICK x \in D : U = Up(x)
  BY <1>2
<1>4. ASSUME NEW y \in D, f[y] > f[x] PROVE FALSE
  <2>1. Up(y) \subseteq Up(x) /\ y \in Up(x) /\ y \notin Up(y)
    BY <1>4
  <2>2. <<Up(y), Up(x)>> \in StrictSubsetOrdering(D)
    BY <2>1 DEF StrictSubsetOrdering
  <2> QED BY <1>2, <1>3, <2>2
<1> QED BY <1>3, <1>4

\* The maximum position of a list is an integer that no position of the list
\* exceeds.
LEMMA MaxPositionBounds ==
  ASSUME NEW table, Sane(table), NEW l
  PROVE  /\ MaxPosition(table, l) \in Int
         /\ \A i \in ItemsOf(table, l) : table[i].pos <= MaxPosition(table, l)
<1> DEFINE D == ItemsOf(table, l)
           f == [i \in D |-> table[i].pos]
<1>1. D \subseteq DOMAIN table /\ IsFiniteSet(D)
  BY FS_Subset, SaneRows DEF ItemsOf
<1>2. CASE D = {}
  BY <1>2 DEF MaxPosition
<1>3. CASE D # {}
  <2>1. \A x \in D : f[x] \in Int
    BY <1>1, SaneRows
  <2>2. \E x \in D : \A y \in D : f[y] <= f[x]
    <3> HIDE DEF f
    <3> QED BY <1>1, <1>3, <2>1, FiniteMax
  <2>3. \E p \in {table[i].pos : i \in D} : \A i \in D : table[i].pos <= p
    BY <2>2
  <2>4. /\ MaxPosition(table, l) \in {table[i].pos : i \in D}
        /\ \A i \in D : table[i].pos <= MaxPosition(table, l)
    BY <1>3, <2>3 DEF MaxPosition
  <2> QED BY <1>1, <2>4, SaneRows
<1> QED BY <1>2, <1>3

\* A creation time taken now is later than every creation time in the table.
LEMMA NowIsLater ==
  ASSUME NEW table, IsFiniteSet(DOMAIN table),
         \A x \in DOMAIN table : table[x].born \in Nat
  PROVE  /\ Now(table) \in Nat
         /\ \A x \in DOMAIN table : table[x].born < Now(table)
<1> DEFINE D == DOMAIN table
           f == [x \in D |-> table[x].born]
<1>1. CASE D = {}
  BY <1>1 DEF Now
<1>2. CASE D # {}
  <2>1. \A x \in D : f[x] \in Int
    OBVIOUS
  <2>2. \E x \in D : \A y \in D : f[y] <= f[x]
    <3> HIDE DEF f
    <3> QED BY <1>2, <2>1, FiniteMax
  <2>3. \E t \in {table[x].born : x \in D} : \A x \in D : table[x].born <= t
    BY <2>2
  <2> DEFINE last == CHOOSE t \in {table[x].born : x \in D} :
                       \A x \in D : table[x].born <= t
  <2>4. last \in Nat /\ \A x \in D : table[x].born <= last
    BY <2>3
  <2>5. Now(table) = 1 + last
    BY <1>2 DEF Now
  <2> HIDE DEF last
  <2> QED BY <2>4, <2>5
<1> QED BY <1>1, <1>2

-----------------------------------------------------------------------------
\* The canonical order

\* ORDER BY checked, position, created_at, id is a strict total order.
LEMMA CanonicalOrder ==
  ASSUME NEW table, Sane(table)
  PROVE  /\ \A i \in DOMAIN table : ~CanonicalBefore(table, i, i)
         /\ \A i, j, k \in DOMAIN table :
              CanonicalBefore(table, i, j) /\ CanonicalBefore(table, j, k)
                => CanonicalBefore(table, i, k)
         /\ \A i, j \in DOMAIN table :
              i = j \/ CanonicalBefore(table, i, j) \/ CanonicalBefore(table, j, i)
BY SaneRows DEF CanonicalBefore, SlotBefore

\* Row numbers are positive, and they follow the canonical order.
LEMMA RowNumbersFollowOrder ==
  ASSUME NEW table, Sane(table), NEW l
  PROVE  /\ \A i : RowNumber(table, l, i) \in Nat \ {0}
         /\ \A i, j \in ItemsOf(table, l) :
              CanonicalBefore(table, i, j)
                => RowNumber(table, l, i) < RowNumber(table, l, j)
<1> DEFINE Up(i) == {j \in ItemsOf(table, l) : CanonicalBefore(table, j, i)}
<1>1. ItemsOf(table, l) \subseteq DOMAIN table
  BY DEF ItemsOf
<1>2. \A i : IsFiniteSet(Up(i)) /\ Cardinality(Up(i)) \in Nat
  <2>1. IsFiniteSet(DOMAIN table)
    BY SaneRows
  <2>2. \A i : Up(i) \in SUBSET DOMAIN table
    BY <1>1
  <2>3. \A i : IsFiniteSet(Up(i))
    BY <2>1, <2>2, FS_Subset
  <2> QED BY <2>3, FS_CardinalityType
<1>3. \A i : RowNumber(table, l, i) = 1 + Cardinality(Up(i))
  BY DEF RowNumber
<1>4. ASSUME NEW i \in ItemsOf(table, l), NEW j \in ItemsOf(table, l),
             CanonicalBefore(table, i, j)
      PROVE  Cardinality(Up(i)) < Cardinality(Up(j))
  <2>1. Up(i) \subseteq Up(j)
    BY <1>1, <1>4, CanonicalOrder
  <2>2. i \in Up(j) /\ i \notin Up(i)
    BY <1>1, <1>4, CanonicalOrder
  <2>3. /\ Cardinality(Up(i)) <= Cardinality(Up(j))
        /\ Cardinality(Up(j)) = Cardinality(Up(i)) => Up(j) = Up(i)
    BY <1>2, <2>1, FS_Subset
  <2> QED BY <1>2, <2>2, <2>3
<1> HIDE DEF Up
<1> QED BY <1>2, <1>3, <1>4

-----------------------------------------------------------------------------
\* Renormalization

\* Multiples of a positive step are as far apart as the step.
LEMMA StepApart ==
  ASSUME NEW a \in Int, NEW b \in Int, NEW g \in Nat, a < b
  PROVE  a * g + g <= b * g
<1>1. (b - a - 1) * g >= 0
  <2> DEFINE d == b - a - 1
  <2>1. d \in Nat
    OBVIOUS
  <2> HIDE DEF d
  <2>2. d * g \in Nat
    BY <2>1
  <2> QED BY <2>2 DEF d
<1>2. (b - a - 1) * g = b * g - a * g - g
  OBVIOUS
<1> QED BY <1>1, <1>2

\* What renormalizing a list leaves alone, and the position it gives its rows.
LEMMA RenormalizeFields ==
  ASSUME NEW table, Sane(table), NEW l
  PROVE  LET new == Renormalize(table, l)
         IN  /\ DOMAIN new = DOMAIN table
             /\ Sane(new)
             /\ ItemsOf(new, l) = ItemsOf(table, l)
             /\ \A i \in DOMAIN table \ ItemsOf(table, l) : new[i] = table[i]
             /\ \A i \in DOMAIN table :
                  /\ new[i].list = table[i].list /\ new[i].name = table[i].name
                  /\ new[i].checked = table[i].checked
                  /\ new[i].note = table[i].note /\ new[i].born = table[i].born
<1> DEFINE new == Renormalize(table, l)
<1>1. DOMAIN new = DOMAIN table
  BY DEF Renormalize
<1>2. ASSUME NEW i \in DOMAIN table, table[i].list # l
      PROVE  new[i] = table[i]
  BY <1>2 DEF Renormalize
<1>3. ASSUME NEW i \in DOMAIN table, table[i].list = l
      PROVE  new[i] = [table[i] EXCEPT !.pos = RowNumber(table, l, i) * PositionGap]
  BY <1>3 DEF Renormalize
<1>4. \A i \in DOMAIN table : RowNumber(table, l, i) * PositionGap \in Int
  <2>1. \A i : RowNumber(table, l, i) \in Nat
    BY RowNumbersFollowOrder
  <2> QED BY <2>1, GapAssumption
<1>5. \A i \in DOMAIN table : table[i] \in ItemRow
  BY SaneRows
<1>6. \A i \in DOMAIN table : new[i] \in ItemRow /\ new[i].list = table[i].list
  BY <1>2, <1>3, <1>4, <1>5 DEF ItemRow
<1>7. new = [i \in DOMAIN table |-> new[i]]
  BY DEF Renormalize
<1> HIDE DEF new
<1>8. Sane(new)
  BY <1>1, <1>6, <1>7 DEF Sane, IsTable
<1>9. ItemsOf(new, l) = ItemsOf(table, l)
  BY <1>1, <1>6 DEF ItemsOf
<1>10. \A i \in DOMAIN table \ ItemsOf(table, l) : new[i] = table[i]
  BY <1>2 DEF ItemsOf
<1>11. \A i \in DOMAIN table :
         /\ new[i].list = table[i].list /\ new[i].name = table[i].name
         /\ new[i].checked = table[i].checked
         /\ new[i].note = table[i].note /\ new[i].born = table[i].born
  BY <1>2, <1>3, <1>4, <1>5 DEF ItemRow
<1> QED BY <1>1, <1>8, <1>9, <1>10, <1>11 DEF new

\* Rows of a renormalized list follow the canonical order they had, with at
\* least PositionGap between any two.
LEMMA RenormalizeSpreads ==
  ASSUME NEW table, Sane(table), NEW l,
         NEW i \in ItemsOf(table, l), NEW j \in ItemsOf(table, l),
         CanonicalBefore(table, i, j)
  PROVE  Renormalize(table, l)[i].pos + PositionGap <= Renormalize(table, l)[j].pos
<1> DEFINE new == Renormalize(table, l)
           R(k) == RowNumber(table, l, k)
<1>1. \A k \in ItemsOf(table, l) :
        new[k] = [table[k] EXCEPT !.pos = R(k) * PositionGap] /\ table[k] \in ItemRow
  BY SaneRows DEF Renormalize, ItemsOf
<1>2. new[i].pos = R(i) * PositionGap /\ new[j].pos = R(j) * PositionGap
  BY <1>1 DEF ItemRow
<1>3. R(i) \in Int /\ R(j) \in Int /\ R(i) < R(j)
  BY RowNumbersFollowOrder
<1> HIDE DEF R, new
<1>4. R(i) * PositionGap + PositionGap <= R(j) * PositionGap
  BY <1>3, StepApart, GapAssumption
<1> QED BY <1>2, <1>4 DEF new

\* Renormalizing a list keeps the order of its rows of equal status.
LEMMA RenormalizeKeepsOrder ==
  ASSUME NEW table, Sane(table), NEW l,
         NEW i \in ItemsOf(table, l), NEW j \in ItemsOf(table, l),
         table[i].checked = table[j].checked
  PROVE  SlotBefore(table, i, j) <=> SlotBefore(Renormalize(table, l), i, j)
<1> DEFINE new == Renormalize(table, l)
<1>1. i \in DOMAIN table /\ j \in DOMAIN table
  BY DEF ItemsOf
<1>2. PositionGap \in Nat \ {0}
  BY GapAssumption
<1>3. new[i].pos \in Int /\ new[j].pos \in Int
  BY <1>1, RenormalizeFields, SaneRows
<1>4. i \in Nat /\ j \in Nat
  BY <1>1, SaneRows
<1>5. CASE CanonicalBefore(table, i, j)
  <2>1. new[i].pos < new[j].pos
    BY <1>2, <1>3, <1>5, RenormalizeSpreads
  <2> HIDE DEF new
  <2> QED BY <1>3, <1>5, <2>1 DEF CanonicalBefore, SlotBefore, new
<1>6. CASE CanonicalBefore(table, j, i)
  <2>1. new[j].pos < new[i].pos
    BY <1>2, <1>3, <1>6, RenormalizeSpreads
  <2>2. ~SlotBefore(table, i, j)
    BY <1>1, <1>6, CanonicalOrder DEF CanonicalBefore
  <2> HIDE DEF new
  <2>3. ~SlotBefore(new, i, j)
    BY <1>3, <2>1 DEF SlotBefore
  <2> QED BY <2>2, <2>3 DEF new
<1>7. CASE i = j
  <2>1. ~SlotBefore(table, i, j)
    BY <1>1, <1>7, SaneRows DEF SlotBefore
  <2>2. Sane(new) /\ i \in DOMAIN new
    BY <1>1, RenormalizeFields
  <2> HIDE DEF new
  <2>3. ~SlotBefore(new, i, j)
    BY <1>7, <2>2, SaneRows DEF SlotBefore
  <2> QED BY <2>1, <2>3 DEF new
<1> QED BY <1>1, <1>5, <1>6, <1>7, CanonicalOrder

-----------------------------------------------------------------------------
\* Computed positions

\* Midpoints are far enough from both ends of a wide enough interval.
LEMMA MidpointHasRoom ==
  ASSUME NEW a \in Int, NEW b \in Int,
         a + PositionGap <= b \/ b + PositionGap <= a
  PROVE  /\ ~TooClose(Midpoint(a, b), a)
         /\ ~TooClose(Midpoint(a, b), b)
BY GapAssumption DEF TooClose, Midpoint

\* A midpoint that is not too close lies strictly between its neighbours.
LEMMA MidpointBetween ==
  ASSUME NEW a \in Int, NEW b \in Int, a <= b,
         ~TooClose(Midpoint(a, b), a), ~TooClose(Midpoint(a, b), b)
  PROVE  /\ Midpoint(a, b) \in Int
         /\ a < Midpoint(a, b) /\ Midpoint(a, b) < b
BY GapAssumption DEF TooClose, Midpoint

\* A position that is computed is an integer.
LEMMA TryComputePositionType ==
  ASSUME NEW table, Sane(table), NEW l, NEW m, NEW t
  PROVE  TryComputePosition(table, l, m, t).pos \in Int
<1> DEFINE try == TryComputePosition(table, l, m, t)
<1>1. CASE \E n \in Named(m, t) : ~InList(table, l, n)
  BY <1>1 DEF TryComputePosition
<1>2. CASE \A n \in Named(m, t) : InList(table, l, n)
  <2>1. \A n \in Named(m, t) : table[n].pos \in Int
    BY <1>2, SaneRows DEF InList, ItemsOf
  <2>2. PositionGap \in Int
    BY GapAssumption
  <2>3. CASE t.after # Nil /\ t.before # Nil
    BY <1>2, <2>1, <2>3 DEF TryComputePosition, Named, Midpoint
  <2>4. CASE t.after # Nil /\ t.before = Nil
    BY <1>2, <2>1, <2>2, <2>4 DEF TryComputePosition, Named
  <2>5. CASE t.after = Nil /\ t.before # Nil
    BY <1>2, <2>1, <2>2, <2>5 DEF TryComputePosition, Named
  <2>6. CASE t.after = Nil /\ t.before = Nil
    BY <1>2, <2>1, <2>6 DEF TryComputePosition, Named
  <2> QED BY <2>3, <2>4, <2>5, <2>6
<1> QED BY <1>1, <1>2

\* computePosition leaves the table as it was or renormalized.
LEMMA ComputePositionAnswer ==
  ASSUME NEW table, Sane(table), NEW l, NEW m, NEW t
  PROVE  LET r == ComputePosition(table, l, m, t)
         IN  /\ r.pos \in Int
             /\ r.items = table \/ r.items = Renormalize(table, l)
<1>1. Sane(Renormalize(table, l))
  BY RenormalizeFields
<1>2. /\ TryComputePosition(table, l, m, t).pos \in Int
      /\ TryComputePosition(Renormalize(table, l), l, m, t).pos \in Int
  BY <1>1, TryComputePositionType
<1> QED BY <1>2 DEF ComputePosition

\* One renormalization makes room for every midpoint of two distinct rows.
LEMMA RenormalizeMakesRoom ==
  ASSUME NEW table, Sane(table), NEW l, NEW m, NEW t,
         t.after = Nil \/ t.after # t.before
  PROVE  TryComputePosition(Renormalize(table, l), l, m, t).err # "exhausted"
<1> DEFINE new == Renormalize(table, l)
<1>1. Sane(new) /\ ItemsOf(new, l) = ItemsOf(table, l)
  BY RenormalizeFields
<1>2. CASE \E n \in Named(m, t) : ~InList(new, l, n)
  <2> HIDE DEF new
  <2> QED BY <1>2 DEF TryComputePosition, new
<1>3. CASE t.after = Nil \/ t.before = Nil
  <2> HIDE DEF new
  <2> QED BY <1>3 DEF TryComputePosition, new
<1>4. CASE /\ \A n \in Named(m, t) : InList(new, l, n)
           /\ t.after # Nil /\ t.before # Nil
  <2> DEFINE a == t.after
             b == t.before
  <2>1. a \in ItemsOf(table, l) /\ b \in ItemsOf(table, l) /\ a # b
    BY <1>1, <1>4 DEF Named, InList
  <2>2. CanonicalBefore(table, a, b) \/ CanonicalBefore(table, b, a)
    BY <2>1, CanonicalOrder DEF ItemsOf
  <2>3. \/ new[a].pos + PositionGap <= new[b].pos
        \/ new[b].pos + PositionGap <= new[a].pos
    BY <2>1, <2>2, RenormalizeSpreads
  <2> HIDE DEF new
  <2>4. new[a].pos \in Int /\ new[b].pos \in Int
    BY <1>1, <2>1, SaneRows DEF ItemsOf
  <2>5. /\ ~TooClose(Midpoint(new[a].pos, new[b].pos), new[a].pos)
        /\ ~TooClose(Midpoint(new[a].pos, new[b].pos), new[b].pos)
    BY <2>3, <2>4, MidpointHasRoom
  <2>6. TryComputePosition(new, l, m, t).err = "none"
    BY <1>4, <2>5 DEF TryComputePosition
  <2> QED BY <2>6 DEF new
<1> QED BY <1>2, <1>3, <1>4

\* computePosition never gives up for want of room.
LEMMA ComputePositionNeverInternal ==
  ASSUME NEW table, Sane(table), NEW l, NEW m, NEW t,
         t.after = Nil \/ t.after # t.before
  PROVE  ComputePosition(table, l, m, t).err # "internal"
<1>1. TryComputePosition(Renormalize(table, l), l, m, t).err # "exhausted"
  BY RenormalizeMakesRoom
<1>2. \A tb : TryComputePosition(tb, l, m, t).err # "internal"
  BY DEF TryComputePosition
<1> QED BY <1>1, <1>2 DEF ComputePosition

-----------------------------------------------------------------------------
\* Sets in order

\* The order orders the set, strictly and totally.
Orders(R, S) ==
  /\ \A i \in S : <<i, i>> \notin R
  /\ \A i, j, k \in S : <<i, j>> \in R /\ <<j, k>> \in R => <<i, k>> \in R
  /\ \A i, j \in S : i = j \/ <<i, j>> \in R \/ <<j, i>> \in R

\* Ranks tell elements apart, and compare as they do.
LEMMA RankFacts ==
  ASSUME NEW S, IsFiniteSet(S), NEW R, Orders(R, S)
  PROVE  /\ \A i \in S : Rank(S, R, i) \in 0 .. Cardinality(S) - 1
         /\ \A i, j \in S : <<i, j>> \in R <=> Rank(S, R, i) < Rank(S, R, j)
         /\ \A i, j \in S : Rank(S, R, i) = Rank(S, R, j) => i = j
<1> DEFINE Before(i) == {j \in S : <<j, i>> \in R}
<1>1. \A i : IsFiniteSet(Before(i)) /\ Cardinality(Before(i)) \in Nat
  <2>1. \A i : Before(i) \in SUBSET S
    OBVIOUS
  <2> HIDE DEF Before
  <2> QED BY <2>1, FS_Subset, FS_CardinalityType
<1>2. ASSUME NEW i \in S PROVE Cardinality(Before(i)) < Cardinality(S)
  <2>1. i \notin Before(i) /\ Before(i) \in SUBSET S
    BY DEF Orders
  <2> HIDE DEF Before
  <2>2. Cardinality(Before(i)) <= Cardinality(S) /\ Cardinality(S) # Cardinality(Before(i))
    BY <2>1, FS_Subset
  <2> QED BY <1>1, <2>2, FS_CardinalityType
<1>3. ASSUME NEW i \in S, NEW j \in S, <<i, j>> \in R
      PROVE  Cardinality(Before(i)) < Cardinality(Before(j))
  <2>1. Before(i) \in SUBSET Before(j) /\ i \in Before(j) /\ i \notin Before(i)
    BY <1>3 DEF Orders
  <2> HIDE DEF Before
  <2>2. /\ Cardinality(Before(i)) <= Cardinality(Before(j))
        /\ Cardinality(Before(j)) # Cardinality(Before(i))
    BY <1>1, <2>1, FS_Subset
  <2> QED BY <1>1, <2>2
<1>4. \A i : Rank(S, R, i) = Cardinality(Before(i))
  BY DEF Rank
<1>5. Cardinality(S) \in Nat
  BY FS_CardinalityType
<1> HIDE DEF Before
<1>6. ASSUME NEW i \in S PROVE Rank(S, R, i) \in 0 .. Cardinality(S) - 1
  BY <1>1, <1>2, <1>4, <1>5
<1>7. ASSUME NEW i \in S, NEW j \in S
      PROVE  /\ <<i, j>> \in R <=> Rank(S, R, i) < Rank(S, R, j)
             /\ Rank(S, R, i) = Rank(S, R, j) => i = j
  <2>1. i = j \/ <<i, j>> \in R \/ <<j, i>> \in R
    BY DEF Orders
  <2>2. Cardinality(Before(i)) \in Nat /\ Cardinality(Before(j)) \in Nat
    BY <1>1
  <2>3. /\ <<i, j>> \in R => Cardinality(Before(i)) < Cardinality(Before(j))
        /\ <<j, i>> \in R => Cardinality(Before(j)) < Cardinality(Before(i))
    BY <1>3
  <2> QED BY <1>4, <2>1, <2>2, <2>3
<1> QED BY <1>6, <1>7

\* A set in order has each of its elements at one place.
LEMMA OrderedFacts ==
  ASSUME NEW S, IsFiniteSet(S), NEW R, Orders(R, S)
  PROVE  LET s == Ordered(S, R)
             n == Cardinality(S)
         IN  /\ n \in Nat /\ s \in [1 .. n -> S]
             /\ \A j, k \in 1 .. n : j < k => <<s[j], s[k]>> \in R
             /\ \A j, k \in 1 .. n : s[j] = s[k] => j = k
             /\ \A i \in S : \E k \in 1 .. n : s[k] = i
<1> DEFINE s == Ordered(S, R)
           n == Cardinality(S)
           r == [i \in S |-> Rank(S, R, i) + 1]
<1>1. n \in Nat /\ IsFiniteSet(1 .. n) /\ Cardinality(1 .. n) = n
  <2>1. n \in Nat
    BY FS_CardinalityType
  <2> HIDE DEF n
  <2> QED BY <2>1, FS_Interval
<1>2. /\ \A i \in S : Rank(S, R, i) \in 0 .. n - 1
      /\ \A i, j \in S : <<i, j>> \in R <=> Rank(S, R, i) < Rank(S, R, j)
      /\ \A i, j \in S : Rank(S, R, i) = Rank(S, R, j) => i = j
  BY RankFacts
<1>3. r \in Surjection(S, 1 .. n)
  <2>1. r \in Injection(S, 1 .. n)
    <3> HIDE DEF n
    <3> QED BY <1>1, <1>2 DEF Injection, IsInjective
  <2> HIDE DEF r
  <2> QED BY <1>1, <2>1, FS_Injection
<1>4. ASSUME NEW k \in 1 .. n PROVE s[k] \in S /\ Rank(S, R, s[k]) = k - 1
  <2>1. \E i \in S : Rank(S, R, i) = k - 1
    <3>1. \E i \in S : r[i] = k
      BY <1>3 DEF Surjection
    <3> HIDE DEF n
    <3> QED BY <1>1, <1>2, <3>1
  <2>2. s[k] = CHOOSE i \in S : Rank(S, R, i) = k - 1
    BY DEF Ordered
  <2> HIDE DEF s
  <2> QED BY <2>1, <2>2
<1>5. s \in [1 .. n -> S]
  BY <1>4 DEF Ordered
<1> HIDE DEF s, n
<1>6. \A i \in S : \E k \in 1 .. n : s[k] = i
  <2> SUFFICES ASSUME NEW i \in S PROVE \E k \in 1 .. n : s[k] = i
    OBVIOUS
  <2>1. Rank(S, R, i) + 1 \in 1 .. n
    BY <1>1, <1>2
  <2> QED BY <1>1, <1>2, <1>4, <2>1
<1>7. \A j, k \in 1 .. n : j < k => <<s[j], s[k]>> \in R
  BY <1>1, <1>2, <1>4
<1>8. \A j, k \in 1 .. n : s[j] = s[k] => j = k
  BY <1>1, <1>4
<1> QED BY <1>1, <1>5, <1>6, <1>7, <1>8 DEF s, n

\* There is one sequence of all the elements of a set in order.
LEMMA OrderedIsUnique ==
  ASSUME NEW S, IsFiniteSet(S), NEW R, Orders(R, S),
         NEW q \in [1 .. Cardinality(S) -> S],
         \A j, k \in 1 .. Cardinality(S) : j < k => <<q[j], q[k]>> \in R
  PROVE  q = Ordered(S, R)
<1> DEFINE n == Cardinality(S)
           Before(i) == {j \in S : <<j, i>> \in R}
<1>1. n \in Nat /\ IsFiniteSet(1 .. n) /\ Cardinality(1 .. n) = n
  <2>1. n \in Nat
    BY FS_CardinalityType
  <2> HIDE DEF n
  <2> QED BY <2>1, FS_Interval
<1> HIDE DEF n
<1>2. \A j, k \in 1 .. n : (j < k <=> <<q[j], q[k]>> \in R) /\ (q[j] = q[k] => j = k)
  <2> SUFFICES ASSUME NEW j \in 1 .. n, NEW k \in 1 .. n
               PROVE  (j < k <=> <<q[j], q[k]>> \in R) /\ (q[j] = q[k] => j = k)
    OBVIOUS
  <2>1. q[j] \in S /\ q[k] \in S
    BY DEF n
  <2>2. j < k => <<q[j], q[k]>> \in R
    BY DEF n
  <2>3. k < j => <<q[k], q[j]>> \in R
    BY DEF n
  <2>4. j < k \/ k < j \/ j = k
    BY <1>1
  <2> QED BY <1>1, <2>1, <2>2, <2>3, <2>4 DEF Orders
<1>3. q \in Injection(1 .. n, S)
  BY <1>2 DEF Injection, IsInjective, n
<1>4. q \in Surjection(1 .. n, S)
  BY <1>1, <1>3, FS_Injection DEF n
<1>5. ASSUME NEW k \in 1 .. n PROVE Rank(S, R, q[k]) = k - 1
  <2> DEFINE f == [j \in 1 .. k - 1 |-> q[j]]
  <2>1. \A j \in 1 .. k - 1 : j \in 1 .. n /\ j < k
    BY <1>1
  <2>2. f \in Injection(1 .. k - 1, Before(q[k]))
    BY <1>2, <2>1 DEF Injection, IsInjective, n
  <2>3. f \in Surjection(1 .. k - 1, Before(q[k]))
    <3>1. ASSUME NEW i \in Before(q[k]) PROVE \E j \in 1 .. k - 1 : f[j] = i
      <4>1. PICK j \in 1 .. n : q[j] = i
        BY <1>4 DEF Surjection
      <4>2. j < k
        BY <1>2, <4>1
      <4>3. j \in 1 .. k - 1
        BY <1>1, <4>2
      <4> QED BY <4>1, <4>3
    <3> QED BY <2>2, <3>1 DEF Injection, Surjection
  <2> HIDE DEF f, Before
  <2>4. ExistsBijection(1 .. k - 1, Before(q[k]))
    BY <2>2, <2>3 DEF ExistsBijection, Bijection
  <2>5. IsFiniteSet(1 .. k - 1) /\ Cardinality(1 .. k - 1) = k - 1
    BY <1>1, FS_Interval
  <2>6. Cardinality(Before(q[k])) = k - 1
    BY <2>4, <2>5, FS_Bijection
  <2> QED BY <2>6 DEF Rank, Before
<1>6. ASSUME NEW k \in 1 .. n PROVE Ordered(S, R)[k] = q[k]
  <2>1. Ordered(S, R)[k] = CHOOSE i \in S : Rank(S, R, i) = k - 1
    BY DEF Ordered, n
  <2>2. q[k] \in S
    BY DEF n
  <2> QED BY <1>5, <2>1, <2>2, RankFacts
<1> QED BY <1>6 DEF Ordered, n

\* Rows are ordered by position, creation time and id.
LEMMA SlotsAreOrdered ==
  ASSUME NEW table, Sane(table), NEW S \in SUBSET DOMAIN table
  PROVE  /\ Orders(SlotOrder(table, S), S)
         /\ IsFiniteSet(S)
         /\ \A i, j \in S : <<i, j>> \in SlotOrder(table, S) <=> SlotBefore(table, i, j)
<1>1. IsFiniteSet(S)
  BY FS_Subset DEF Sane
<1>2. \A i, j \in S : <<i, j>> \in SlotOrder(table, S) <=> SlotBefore(table, i, j)
  BY DEF SlotOrder
<1>3. \A i \in S : i \in Nat /\ table[i].pos \in Int /\ table[i].born \in Nat
  BY SaneRows
<1> HIDE DEF SlotOrder
<1>4. \A i \in S : <<i, i>> \notin SlotOrder(table, S)
  BY <1>2, <1>3 DEF SlotBefore
<1>5. \A i, j \in S : i = j \/ SlotBefore(table, i, j) \/ SlotBefore(table, j, i)
  BY <1>3 DEF SlotBefore
<1>6. \A i, j, k \in S :
        SlotBefore(table, i, j) /\ SlotBefore(table, j, k) => SlotBefore(table, i, k)
  BY <1>3 DEF SlotBefore
<1> QED BY <1>1, <1>2, <1>4, <1>5, <1>6 DEF Orders

-----------------------------------------------------------------------------
\* Moving a row

\* The index that the row at index x of the list had before one was moved.
Origin(from, to, x) ==
  LET y == IF x < to THEN x ELSE x - 1
  IN  IF y < from THEN y ELSE y + 1

\* Listings of n elements.
Listings(n, S) == [1 .. n -> S]

LEMMA ArrayMoveFacts ==
  ASSUME NEW S, NEW n \in Nat, NEW s \in Listings(n, S), NEW from \in 1 .. n, NEW to \in 1 .. n
  PROVE  LET q == InsertAt(RemoveAt(s, from), to, s[from])
         IN  /\ q \in Listings(n, S)
             /\ q[to] = s[from]
             /\ \A x \in (1 .. n) \ {to} : q[x] = s[Origin(from, to, x)]
<1> DEFINE rest == RemoveAt(s, from)
           q == InsertAt(RemoveAt(s, from), to, s[from])
<1>1. /\ s \in Seq(S) /\ Len(s) = n
      /\ s \in [1 .. n -> S] /\ s[from] \in S
  BY DEF Listings
<1>2. /\ rest \in Seq(S) /\ Len(rest) = n - 1
      /\ \A x \in 1 .. n - 1 : rest[x] = IF x < from THEN s[x] ELSE s[x + 1]
  BY <1>1 DEF RemoveAt
<1>3. q = InsertAt(rest, to, s[from])
  OBVIOUS
<1> HIDE DEF rest, q
<1>4. /\ q \in Seq(S) /\ Len(q) = n /\ q[to] = s[from]
      /\ \A x \in (1 .. n) \ {to} : q[x] = IF x < to THEN rest[x] ELSE rest[x - 1]
  <2> DEFINE e == s[from]
             front == SubSeq(rest, 1, to - 1)
             back == SubSeq(rest, to, n - 1)
             start == front \o <<e>>
  <2>1. /\ front \in Seq(S) /\ Len(front) = to - 1
        /\ \A x \in 1 .. to - 1 : front[x] = rest[x]
    BY <1>2
  <2>2. /\ back \in Seq(S) /\ Len(back) = n - to
        /\ \A x \in 1 .. n - to : back[x] = rest[to + x - 1]
    BY <1>2
  <2>3. <<e>> \in Seq(S) /\ Len(<<e>>) = 1 /\ <<e>>[1] = e
    BY <1>1
  <2>4. q = start \o back
    BY <1>2, <1>3 DEF InsertAt
  <2> HIDE DEF front, back, e
  <2>5. /\ start \in Seq(S) /\ Len(start) = to
        /\ \A x \in 1 .. to : start[x] = IF x < to THEN front[x] ELSE e
    BY <2>1, <2>3
  <2> HIDE DEF start
  <2>6. /\ q \in Seq(S) /\ Len(q) = n
        /\ \A x \in 1 .. n : q[x] = IF x <= to THEN start[x] ELSE back[x - to]
    <3>1. q \in Seq(S) /\ Len(q) = Len(start) + Len(back)
      BY <2>2, <2>4, <2>5, ConcatProperties
    <3>2. \A x \in 1 .. Len(start) + Len(back) :
            q[x] = IF x <= Len(start) THEN start[x] ELSE back[x - Len(start)]
      BY ONLY <2>2, <2>4, <2>5, ConcatProperties
    <3> QED BY <2>2, <2>5, <3>1, <3>2
  <2>7. ASSUME NEW x \in 1 .. n, x < to PROVE q[x] = rest[x]
    BY <2>1, <2>5, <2>6, <2>7
  <2>8. ASSUME NEW x \in 1 .. n, x > to PROVE q[x] = rest[x - 1]
    <3>1. x - to \in 1 .. n - to
      BY <2>8
    <3>2. back[x - to] = rest[to + (x - to) - 1]
      BY <2>2, <3>1
    <3>3. to + (x - to) - 1 = x - 1
      BY <2>8
    <3> QED BY <2>6, <2>8, <3>2, <3>3
  <2> QED BY <2>5, <2>6, <2>7, <2>8 DEF e
<1>5. ASSUME NEW x \in (1 .. n) \ {to} PROVE q[x] = s[Origin(from, to, x)]
  <2>1. CASE x < to
    BY <1>2, <1>4, <2>1 DEF Origin
  <2>2. CASE x > to
    <3>1. x - 1 \in 1 .. n - 1 /\ q[x] = rest[x - 1]
      BY <1>4, <2>2
    <3> QED BY <1>2, <2>2, <3>1 DEF Origin
  <2> QED BY <2>1, <2>2
<1>6. q \in Listings(n, S)
  BY <1>4 DEF Listings
<1>7. /\ q \in Listings(n, S) /\ q[to] = s[from]
      /\ \A x \in (1 .. n) \ {to} : q[x] = s[Origin(from, to, x)]
  BY <1>4, <1>5, <1>6
<1> QED BY <1>7 DEF q

\* A list in order, with one row moved, has every other row where it was among
\* the others.
MovesOne(S, R, from, to) ==
  LET n == Cardinality(S)
      s == Ordered(S, R)
      q == InsertAt(RemoveAt(s, from), to, s[from])
  IN  /\ n \in Nat /\ q \in [1 .. n -> S] /\ s[from] \in S /\ q[to] = s[from]
      /\ \A x \in (1 .. n) \ {to} : q[x] # s[from]
      /\ \A x, y \in (1 .. n) \ {to} : x < y => <<q[x], q[y]>> \in R
      /\ \A k \in S \ {s[from]} : \E x \in (1 .. n) \ {to} : q[x] = k

LEMMA MovedOrder ==
  ASSUME NEW S, IsFiniteSet(S), NEW R, Orders(R, S),
         NEW from \in 1 .. Cardinality(S), NEW to \in 1 .. Cardinality(S)
  PROVE  MovesOne(S, R, from, to)
<1> DEFINE n == Cardinality(S)
           s == Ordered(S, R)
           q == InsertAt(RemoveAt(s, from), to, s[from])
<1>1. /\ n \in Nat /\ s \in [1 .. n -> S]
      /\ \A j, k \in 1 .. n : j < k => <<s[j], s[k]>> \in R
      /\ \A j, k \in 1 .. n : s[j] = s[k] => j = k
      /\ \A i \in S : \E k \in 1 .. n : s[k] = i
  BY OrderedFacts
<1>2. from \in 1 .. n /\ to \in 1 .. n
  OBVIOUS
<1> HIDE DEF n, s
<1>3. /\ q \in Listings(n, S)
      /\ q[to] = s[from]
      /\ \A x \in (1 .. n) \ {to} : q[x] = s[Origin(from, to, x)]
  <2>1. s \in Listings(n, S)
    BY <1>1 DEF Listings
  <2>2. /\ InsertAt(RemoveAt(s, from), to, s[from]) \in Listings(n, S)
        /\ InsertAt(RemoveAt(s, from), to, s[from])[to] = s[from]
        /\ \A x \in (1 .. n) \ {to} : InsertAt(RemoveAt(s, from), to, s[from])[x] = s[Origin(from, to, x)]
    <3>1. n \in Nat
      BY <1>1
    <3> QED BY ONLY <1>2, <2>1, <3>1, ArrayMoveFacts
  <2> QED BY <2>2
<1> HIDE DEF q
<1>4. /\ \A x \in (1 .. n) \ {to} : Origin(from, to, x) \in (1 .. n) \ {from}
      /\ \A x, y \in (1 .. n) \ {to} : x < y => Origin(from, to, x) < Origin(from, to, y)
  BY <1>1, <1>2 DEF Origin
<1>5. \A x \in (1 .. n) \ {to} : q[x] # s[from]
  BY <1>1, <1>2, <1>3, <1>4
<1>6. \A x, y \in (1 .. n) \ {to} : x < y => <<q[x], q[y]>> \in R
  BY <1>1, <1>3, <1>4
<1>7. ASSUME NEW k \in S \ {s[from]} PROVE \E x \in (1 .. n) \ {to} : q[x] = k
  <2>1. PICK y \in 1 .. n : s[y] = k
    BY <1>1
  <2>2. y # from
    BY <2>1
  <2> DEFINE z == IF y < from THEN y ELSE y - 1
             x == IF z < to THEN z ELSE z + 1
  <2>3. x \in (1 .. n) \ {to} /\ Origin(from, to, x) = y
    BY <1>1, <1>2, <2>1, <2>2 DEF Origin
  <2> QED BY <1>3, <2>1, <2>3
<1>8. q \in [1 .. n -> S]
  BY <1>3 DEF Listings
<1> QED BY <1>1, <1>2, <1>3, <1>5, <1>6, <1>7, <1>8 DEF MovesOne, n, s, q

-----------------------------------------------------------------------------
\* What each method leaves

\* Update leaves the table alone, or writes one patched row over the table or
\* over its renormalization; the row clashes with no other name and satisfies
\* the CHECK constraint.
LEMMA UpdateItemCases ==
  ASSUME NEW table, Sane(table), NEW l, NEW i, NEW p \in Patches(Name, ItemId)
  PROVE  LET r == UpdateItem(table, l, i, p)
         IN  \/ r.items = table
             \/ /\ InList(table, l, i)
                /\ \E base \in {table, Renormalize(table, l)}, pos \in Int :
                     LET row == PatchedRow(table[i], p, pos)
                     IN  /\ r.items = With(base, i, row)
                         /\ Holders(table, l, row.name) \ {i} = {}
                         /\ NoteNotChecked(row)
                         /\ row \in ItemRow
                         /\ row.list = l
                         /\ p.reorder = Nil =>
                              base = table /\ pos = table[i].pos
<1> SUFFICES ASSUME InList(table, l, i)
             PROVE  LET r == UpdateItem(table, l, i, p)
                    IN  \/ r.items = table
                        \/ \E base \in {table, Renormalize(table, l)}, pos \in Int :
                             LET row == PatchedRow(table[i], p, pos)
                             IN  /\ r.items = With(base, i, row)
                                 /\ Holders(table, l, row.name) \ {i} = {}
                                 /\ NoteNotChecked(row)
                                 /\ row \in ItemRow
                                 /\ row.list = l
                                 /\ p.reorder = Nil =>
                                      base = table /\ pos = table[i].pos
  BY DEF UpdateItem
<1> DEFINE placed == IF p.reorder = Nil
                     THEN [err |-> "none", pos |-> table[i].pos, items |-> table]
                     ELSE ComputePosition(table, l, i, p.reorder)
           row == PatchedRow(table[i], p, placed.pos)
           r == UpdateItem(table, l, i, p)
<1>1. i \in DOMAIN table /\ table[i].list = l
  BY DEF InList, ItemsOf
<1>2. /\ placed.pos \in Int
      /\ placed.items \in {table, Renormalize(table, l)}
      /\ p.reorder = Nil => placed.items = table /\ placed.pos = table[i].pos
  BY <1>1, SaneRows, ComputePositionAnswer
<1>3. \/ r.items = table
      \/ /\ r.items = With(placed.items, i, row)
         /\ Holders(table, l, row.name) \ {i} = {}
         /\ NoteNotChecked(row)
  BY DEF UpdateItem
<1>4. row \in ItemRow /\ row.list = l
  <2>1. /\ Given(p.name, table[i].name) \in Name
        /\ Given(p.note, table[i].note) \in BOOLEAN
        /\ Given(p.checked, table[i].checked) \in BOOLEAN
    BY <1>1, SaneRows, RowAssumption DEF Given, Patches
  <2>2. table[i] \in ItemRow
    BY <1>1, SaneRows
  <2> HIDE DEF placed
  <2> QED BY <1>1, <1>2, <2>1, <2>2 DEF PatchedRow, ItemRow
<1> HIDE DEF placed, r
<1> QED BY <1>2, <1>3, <1>4 DEF r

\* A row under a known id, or fewer rows, keep a table sane.
LEMMA WithSane ==
  ASSUME NEW table, Sane(table), NEW i \in ItemId, NEW row \in ItemRow
  PROVE  /\ Sane(With(table, i, row))
         /\ DOMAIN With(table, i, row) = DOMAIN table \cup {i}
         /\ With(table, i, row)[i] = row
         /\ \A j \in DOMAIN table \ {i} : With(table, i, row)[j] = table[j]
<1>1. IsFiniteSet(DOMAIN table \cup {i})
  BY FS_AddElement DEF Sane
<1> QED BY <1>1 DEF Sane, IsTable, With

LEMMA WithoutSane ==
  ASSUME NEW table, Sane(table), NEW X
  PROVE  /\ Sane(Without(table, X))
         /\ DOMAIN Without(table, X) = DOMAIN table \ X
         /\ \A j \in DOMAIN table \ X : Without(table, X)[j] = table[j]
<1>1. IsFiniteSet(DOMAIN table \ X)
  BY FS_Difference DEF Sane
<1> QED BY <1>1 DEF Sane, IsTable, Without

\* CreateOrRevive leaves the table alone, revives the row of that name, or adds
\* a row under an id and a name that are free in the list.
LEMMA CreateOrReviveCases ==
  ASSUME NEW table, Sane(table), NEW ls, NEW l \in ListId, NEW n \in Name, NEW i
  PROVE  LET r == CreateOrRevive(table, ls, l, n, i)
         IN  \/ r.items = table
             \/ \E j \in Holders(table, l, n) :
                  r.items = With(table, j, Revived(table[j]))
             \/ /\ r.items = With(table, i, NewItem(table, l, n))
                /\ r.row = i
                /\ i \notin DOMAIN table
                /\ Holders(table, l, n) = {}
                /\ l \in DOMAIN ls
BY DEF CreateOrRevive

\* The row CreateOrRevive adds is a row of the schema.
LEMMA NewItemType ==
  ASSUME NEW table, Sane(table), NEW l \in ListId, NEW n \in Name
  PROVE  NewItem(table, l, n) \in ItemRow
<1>1. MaxPosition(table, l) + PositionGap \in Int
  BY MaxPositionBounds, GapAssumption
<1>2. Now(table) \in Nat
  BY NowIsLater, SaneRows
<1> QED BY <1>1, <1>2 DEF NewItem, ItemRow

\* Reviving a row keeps it a row of the schema, and changes two fields.
LEMMA RevivedRow ==
  ASSUME NEW table, Sane(table), NEW j \in DOMAIN table
  PROVE  LET row == Revived(table[j])
         IN  /\ row \in ItemRow
             /\ row.list = table[j].list /\ row.name = table[j].name
             /\ row.pos = table[j].pos /\ row.born = table[j].born
             /\ ~row.note /\ ~row.checked
<1>1. table[j] \in ItemRow
  BY SaneRows
<1> QED BY <1>1 DEF ItemRow, Revived

-----------------------------------------------------------------------------
\* The schema, as a predicate of two tables

TablesOK(table, ls) ==
  /\ Sane(table)
  /\ \A i \in DOMAIN table : table[i].list \in DOMAIN ls
  /\ \A i, j \in DOMAIN table :
       table[i].list = table[j].list /\ table[i].name = table[j].name => i = j
  /\ \A i \in DOMAIN table : NoteNotChecked(table[i])

\* Writing a row that meets the constraints keeps the schema.
LEMMA WriteKeepsSchema ==
  ASSUME NEW table, NEW ls, TablesOK(table, ls), NEW i \in ItemId, NEW row \in ItemRow,
         row.list \in DOMAIN ls, Holders(table, row.list, row.name) \ {i} = {},
         NoteNotChecked(row)
  PROVE  TablesOK(With(table, i, row), ls)
<1> DEFINE new == With(table, i, row)
<1>0. Sane(table)
  BY DEF TablesOK
<1>1. /\ Sane(new)
      /\ DOMAIN new = DOMAIN table \cup {i}
      /\ new[i] = row
      /\ \A j \in DOMAIN table \ {i} : new[j] = table[j]
  BY <1>0, WithSane
<1>2. \A j \in DOMAIN table \ {i} : ~(table[j].list = row.list /\ table[j].name = row.name)
  BY DEF Holders, ItemsOf
<1> HIDE DEF new
<1>3. \A j \in DOMAIN new : new[j].list \in DOMAIN ls /\ NoteNotChecked(new[j])
  BY <1>1 DEF TablesOK
<1>4. \A j, k \in DOMAIN new :
        new[j].list = new[k].list /\ new[j].name = new[k].name => j = k
  BY <1>1, <1>2 DEF TablesOK
<1> QED BY <1>1, <1>3, <1>4 DEF TablesOK, new

\* Renormalizing a list keeps the schema and who holds which name.
LEMMA RenormalizeKeepsSchema ==
  ASSUME NEW table, NEW ls, TablesOK(table, ls), NEW l
  PROVE  /\ TablesOK(Renormalize(table, l), ls)
         /\ \A k, n : Holders(Renormalize(table, l), k, n) = Holders(table, k, n)
<1> DEFINE new == Renormalize(table, l)
<1>1. Sane(table) /\ Sane(new) /\ DOMAIN new = DOMAIN table
  <2>1. Sane(table)
    BY DEF TablesOK
  <2> QED BY <2>1, RenormalizeFields
<1>2. \A i \in DOMAIN table :
        /\ new[i].list = table[i].list /\ new[i].name = table[i].name
        /\ new[i].checked = table[i].checked /\ new[i].note = table[i].note
  BY <1>1, RenormalizeFields
<1> HIDE DEF new
<1>3. \A k, n : Holders(new, k, n) = Holders(table, k, n)
  BY <1>1, <1>2 DEF Holders, ItemsOf
<1>4. TablesOK(new, ls)
  BY <1>1, <1>2 DEF TablesOK, NoteNotChecked
<1> QED BY <1>3, <1>4 DEF new

\* Removing rows keeps the schema, as long as no list is removed under the rest.
LEMMA RemoveKeepsSchema ==
  ASSUME NEW table, NEW ls, TablesOK(table, ls), NEW X, NEW new,
         \A i \in DOMAIN table \ X : table[i].list \in DOMAIN new
  PROVE  TablesOK(Without(table, X), new)
<1>1. Sane(table)
  BY DEF TablesOK
<1>2. /\ Sane(Without(table, X))
      /\ DOMAIN Without(table, X) = DOMAIN table \ X
      /\ \A j \in DOMAIN table \ X : Without(table, X)[j] = table[j]
  BY <1>1, WithoutSane
<1> QED BY <1>2 DEF TablesOK

\* Each method on items keeps the schema.
LEMMA CreateOrReviveKeepsSchema ==
  ASSUME NEW table, NEW ls, TablesOK(table, ls),
         NEW l \in ListId, NEW n \in Name, NEW i \in ItemId
  PROVE  TablesOK(CreateOrRevive(table, ls, l, n, i).items, ls)
<1> DEFINE r == CreateOrRevive(table, ls, l, n, i)
<1>1. Sane(table)
  BY DEF TablesOK
<1>2. CASE r.items = table
  BY <1>2
<1>3. ASSUME NEW j \in Holders(table, l, n),
             r.items = With(table, j, Revived(table[j]))
      PROVE  TablesOK(r.items, ls)
  <2> DEFINE row == Revived(table[j])
  <2>1. j \in DOMAIN table /\ j \in ItemId
    BY <1>1 DEF Holders, ItemsOf, Sane, IsTable
  <2>2. /\ row \in ItemRow /\ ~row.note
        /\ row.list = table[j].list /\ row.name = table[j].name
    BY <1>1, <2>1, RevivedRow
  <2> HIDE DEF row
  <2>3. row.list \in DOMAIN ls /\ Holders(table, row.list, row.name) \ {j} = {}
    BY <2>1, <2>2 DEF TablesOK, Holders, ItemsOf
  <2>4. TablesOK(With(table, j, row), ls)
    BY <2>1, <2>2, <2>3, WriteKeepsSchema DEF NoteNotChecked
  <2> QED BY <1>3, <2>4 DEF row
<1>4. CASE /\ r.items = With(table, i, NewItem(table, l, n))
           /\ Holders(table, l, n) = {}
           /\ l \in DOMAIN ls
  <2> DEFINE row == NewItem(table, l, n)
  <2>1. row \in ItemRow
    BY <1>1, NewItemType
  <2>2. row.list = l /\ row.name = n /\ NoteNotChecked(row)
    BY DEF NewItem, NoteNotChecked
  <2> HIDE DEF row
  <2>3. TablesOK(With(table, i, row), ls)
    BY <1>4, <2>1, <2>2, WriteKeepsSchema
  <2> QED BY <1>4, <2>3 DEF row
<1>5. \/ r.items = table
      \/ \E j \in Holders(table, l, n) :
           r.items = With(table, j, Revived(table[j]))
      \/ /\ r.items = With(table, i, NewItem(table, l, n))
         /\ Holders(table, l, n) = {}
         /\ l \in DOMAIN ls
  BY <1>1, CreateOrReviveCases
<1> QED BY <1>2, <1>3, <1>4, <1>5

LEMMA UpdateItemKeepsSchema ==
  ASSUME NEW table, NEW ls, TablesOK(table, ls), NEW l, NEW i, NEW p \in Patches(Name, ItemId)
  PROVE  TablesOK(UpdateItem(table, l, i, p).items, ls)
<1> DEFINE r == UpdateItem(table, l, i, p)
<1>1. Sane(table)
  BY DEF TablesOK
<1>2. CASE r.items = table
  BY <1>2
<1>3. ASSUME InList(table, l, i),
             NEW base \in {table, Renormalize(table, l)}, NEW row \in ItemRow,
             r.items = With(base, i, row),
             Holders(table, l, row.name) \ {i} = {},
             NoteNotChecked(row), row.list = l
      PROVE  TablesOK(r.items, ls)
  <2>1. i \in ItemId /\ l \in DOMAIN ls
    BY <1>3 DEF InList, ItemsOf, TablesOK, Sane, IsTable
  <2>2. TablesOK(base, ls) /\ Holders(base, l, row.name) \ {i} = {}
    BY <1>3, RenormalizeKeepsSchema
  <2> QED BY <1>3, <2>1, <2>2, WriteKeepsSchema
<1> HIDE DEF r
<1> QED BY <1>1, <1>2, <1>3, UpdateItemCases DEF r
=============================================================================
