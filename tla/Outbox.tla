------------------------------- MODULE Outbox -------------------------------
(***************************************************************************)
(* What the app relies on its mutation queue for: edits are accepted in    *)
(* the order they are numbered in, delivered in that order and perhaps     *)
(* more than once, and leave only when delivered, or when the page dies.   *)
(***************************************************************************)
EXTENDS Naturals

CONSTANT Edit

VARIABLES
  accepted,  \* the edits made
  pending,   \* those still to be seen through
  arrived,   \* those the server was asked for
  lost       \* those that a dying page took with it

vars == <<accepted, pending, arrived, lost>>

Init == accepted = {} /\ pending = {} /\ arrived = {} /\ lost = {}

Before(m) == {k \in Edit : k < m}

Accept(m) ==
  /\ m \in Edit \ accepted /\ Before(m) \subseteq accepted
  /\ accepted' = accepted \cup {m} /\ pending' = pending \cup {m}
  /\ UNCHANGED <<arrived, lost>>

Deliver(m) ==
  /\ m \in pending /\ Before(m) \subseteq arrived \cup lost
  /\ arrived' = arrived \cup {m}
  /\ UNCHANGED <<accepted, pending, lost>>

Finish(m) ==
  /\ m \in pending \cap arrived
  /\ pending' = pending \ {m}
  /\ UNCHANGED <<accepted, arrived, lost>>

\* The next page finds some of the edits, perhaps some that were finished.
Die ==
  \E found \in SUBSET (accepted \ lost) :
    /\ pending' = found /\ lost' = lost \cup (pending \ found)
    /\ UNCHANGED <<accepted, arrived>>

Next == Die \/ \E m \in Edit : Accept(m) \/ Deliver(m) \/ Finish(m)

Spec == Init /\ [][Next]_vars
=============================================================================
