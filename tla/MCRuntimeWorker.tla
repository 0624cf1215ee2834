--------------------------- MODULE MCRuntimeWorker ---------------------------
(* The instance of RuntimeWorker for TLC. *)
EXTENDS RuntimeWorker
=============================================================================
