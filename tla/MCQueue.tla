------------------------------ MODULE MCQueue ------------------------------
(* Instances of MutationQueue for TLC.                                       *)
EXTENDS MutationQueue

AnyLink == {"up", "dead", "off"}
=============================================================================
