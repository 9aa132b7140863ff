------------------------------ MODULE MCSwipe ------------------------------
(* Instances of RowSwipe for TLC.                                            *)
EXTENDS RowSwipe, TLC

CONSTANTS finger, mouse

OneTouch == {finger}
OneMouse == {mouse}
Screen   == 0 .. 4
=============================================================================
