----------------------- MODULE MCSchedulerCoordinator ------------------------
(* Instances of SchedulerCoordinator for TLC: one request on two ranks with  *)
(* a range that starts inside a block, so that rounding the failed range to  *)
(* blocks shows, and two requests that share blocks on one rank.             *)
EXTENDS SchedulerCoordinator, TLC

Interchangeable == Permutations(Requests)
==============================================================================
