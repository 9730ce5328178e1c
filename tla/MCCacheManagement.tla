-------------------------- MODULE MCCacheManagement --------------------------
(* Instances of CacheManagement for TLC.                                   *)
EXTENDS CacheManagement

(* One thread, three locations and an unsteady clock; or workers, of which *)
(* one removes an entry while the other of two is visited.                 *)
AloneAndPooled ==
  {[locations |-> {1, 2, 3}, clock_steps |-> TRUE, pool_threads |-> FALSE],
   [locations |-> {1, 2}, clock_steps |-> FALSE, pool_threads |-> TRUE]}
==============================================================================
