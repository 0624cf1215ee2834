--------------------------- MODULE MCCallSignaling ---------------------------
(* Instances of CallSignaling for TLC. *)
EXTENDS CallSignaling, TLC

BranchSymmetry == Permutations(Branches)
=============================================================================
