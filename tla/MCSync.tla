------------------------------- MODULE MCSync -------------------------------
(* Instances of Sync for TLC.                                                *)
EXTENDS Sync

CONSTANTS anna, ben, milk, eggs

Tabs  == {anna, ben}
Names == {milk, eggs}

\* The list that an add and a conversion make.
Empty == [i \in {} |-> Nil]
Noted == [i \in {1} |-> [NewItem(Empty, TheList, milk) EXCEPT !.note = TRUE]]

TheStart   == {Noted}
Ids        == 1 .. 5
TwoAndOne  == [c \in Tabs |-> IF c = anna THEN 2 ELSE 1]
=============================================================================
