----------------------------- MODULE MCListTxn -----------------------------
(* Instances of ListTxn for TLC.                                             *)
EXTENDS ListTxn, TLC

AllOps == {"delete", "create", "rename", "add"}

Symmetry == Permutations(Txn) \cup Permutations(Seeded) \cup Permutations(ListName)
=============================================================================
