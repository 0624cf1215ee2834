--------------------------- MODULE MCCallLifecycle ---------------------------
(* Three branches may appear where two are kept, so the fork bound is met. *)
EXTENDS CallLifecycle, TLC

CONSTANTS b1, b2, b3

BranchSymmetry == Permutations(Branches)
=============================================================================
