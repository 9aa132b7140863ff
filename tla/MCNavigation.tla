---------------------------- MODULE MCNavigation ----------------------------
(* Instances of Navigation for TLC.                                          *)
EXTENDS Navigation

CONSTANTS home, work, party

AllLists == {home, work, party}
OldLists == {home, work}
=============================================================================
