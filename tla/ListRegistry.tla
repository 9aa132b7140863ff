---------------------------- MODULE ListRegistry ----------------------------
(***************************************************************************)
(* What the lists endpoints promise: the lists change one request at a     *)
(* time, no two have the same name, and the only list is never deleted.    *)
(***************************************************************************)
EXTENDS Naturals, FiniteSets

CONSTANTS ListId, ListName

VARIABLE names  \* the lists there are, each with its name

Present == DOMAIN names

Free(n) == \A k \in Present : names[k] # n

Init ==
  \E S \in (SUBSET ListId) \ {{}} :
    /\ names \in [S -> ListName]
    /\ \A k, l \in S : names[k] = names[l] => k = l

Create(l, n) ==
  /\ l \notin Present /\ Free(n)
  /\ names' = [k \in Present \cup {l} |-> IF k = l THEN n ELSE names[k]]

Rename(l, n) ==
  /\ l \in Present /\ (names[l] = n \/ Free(n))
  /\ names' = [names EXCEPT ![l] = n]

Delete(l) ==
  /\ l \in Present /\ Present # {l}
  /\ names' = [k \in Present \ {l} |-> names[k]]

Next == \E l \in ListId : Delete(l) \/ \E n \in ListName : Create(l, n) \/ Rename(l, n)

Spec == Init /\ [][Next]_names
=============================================================================
