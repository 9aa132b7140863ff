----------------------------- MODULE MCItemTxn -----------------------------
(* Instances of ItemTxn for TLC.                                             *)
EXTENDS ItemTxn

CONSTANTS a, b, c, d, e, L

\* Four items were added, and the third was dragged between the first two, where
\* it left no room; it may have been checked since.
Item(name, pos, age, checked) ==
  [list |-> L, name |-> name, checked |-> checked, note |-> FALSE, pos |-> pos, born |-> age]

Dragged(checked) ==
  <<Item(a, 2, 1, FALSE), Item(b, 4, 2, FALSE), Item(c, 3, 3, checked), Item(d, 8, 4, FALSE)>>

OldTables == {Dragged(FALSE), Dragged(TRUE)}

Request(op, item, patch) == [op |-> op, item |-> item, patch |-> patch]

Same == [name |-> Nil, checked |-> Nil, note |-> Nil, reorder |-> Nil]

Moved(after, before) == [Same EXCEPT !.reorder = [after |-> after, before |-> before]]

\* Adds of a name that is held and of one that is free, a check, a rename to the
\* free name, two drops where there is no room, one at each end, and a delete.
MCRequests ==
  { Request("add", Nil, [Same EXCEPT !.name = c]),
    Request("add", Nil, [Same EXCEPT !.name = e]),
    Request("update", 3, [Same EXCEPT !.checked = TRUE]),
    Request("update", 1, [Same EXCEPT !.name = e]),
    Request("update", 2, Moved(1, 3)),
    Request("update", 1, Moved(3, 2)),
    Request("update", 4, Moved(Nil, 1)),
    Request("update", 3, Moved(4, Nil)),
    Request("delete", 3, Same) }
=============================================================================
