---------------------------- MODULE MCCallMailbox ----------------------------
(* An instance of CallMailbox for TLC.  Liveness is checked, so there is no   *)
(* symmetry.                                                                  *)
EXTENDS CallMailbox
=============================================================================
