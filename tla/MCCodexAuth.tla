---------------------------- MODULE MCCodexAuth ----------------------------
(* Two workers in one slot, one in the other: both locks are contended.  The *)
(* two workers of one slot are alike.                                        *)
EXTENDS CodexAuth, TLC
CONSTANTS w1, w2
Alike == Permutations({w1, w2}) \cup Permutations(Account)
TwoSlots == {<<"blue", w1>>, <<"blue", w2>>, <<"green", 0>>}
=============================================================================
