------------------------------ MODULE MCStore ------------------------------
(* Instances of Store and Reorder for TLC: the PATCH bodies of each run.     *)
EXTENDS Reorder, TLC

CONSTANTS
  Depth,    \* how far below zero positions may go
  Height,   \* how far above
  MaxTime   \* how many creation times there are

Window == -Depth .. Height
Clock  == 1 .. MaxTime

NoChange == [name |-> Nil, checked |-> Nil, note |-> Nil, reorder |-> Nil]

Moves == {[NoChange EXCEPT !.reorder = t] : t \in Targets(ItemId)}

\* A name, a check, a note, a check and a note together (which the constraint
\* would refuse if Update did not take the check away), the neighbours of a drop.
Edited ==
  {[NoChange EXCEPT !.name = n] : n \in Name} \cup
  {[NoChange EXCEPT !.checked = c] : c \in BOOLEAN} \cup
  {[NoChange EXCEPT !.note = b] : b \in BOOLEAN} \cup
  {[NoChange EXCEPT !.checked = TRUE, !.note = TRUE]} \cup
  Moves

\* uuids handed out in the order of creation.  Creation times are distinct and
\* uuids only break their ties, so this loses nothing but other names of the rows.
IdsByAge == \A i \in DOMAIN items : items[i].born = i

SpecByAge == Init /\ [][Next /\ IdsByAge']_vars

NameSymmetry == Permutations(Name)
Symmetry     == Permutations(Name) \cup Permutations(ListId) \cup Permutations(ListName)
=============================================================================
