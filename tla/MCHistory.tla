------------------------------ MODULE MCHistory ------------------------------
(* The two slots are alike.                                                  *)
EXTENDS History
Alike == Permutations(Slot)
=============================================================================
