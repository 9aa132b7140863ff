------------------------------- MODULE MCView -------------------------------
(* Instances of ListView for TLC.                                            *)
EXTENDS ListView

AnyLink == {"up", "dead", "off"}
Dragged == {1}
Toggled == {2}
=============================================================================
