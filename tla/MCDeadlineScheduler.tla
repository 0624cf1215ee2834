------------------------ MODULE MCDeadlineScheduler ------------------------
(***************************************************************************)
(* A scheduler of capacity two that hands out four identifiers: enough for *)
(* the heap to fill with tombstones twice, for compaction to run with live *)
(* entries present, and for the identifier counter to be exhausted.        *)
(***************************************************************************)
EXTENDS DeadlineScheduler

MCMaximum == 2
MCMaxTime == 2
MCMaxId == 5
MCGenerations == {0, 1}
=============================================================================
