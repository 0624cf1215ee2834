------------------------- MODULE MCTransactionManager -------------------------
(* An instance of TransactionManager for TLC. *)
EXTENDS TransactionManager, TLC

KeySymmetry == Permutations(InviteKeys)
=============================================================================
