----------------------------- MODULE MCScheduler -----------------------------
(***************************************************************************)
(* Scheduler with a few addresses for tasks and a table of few processes.  *)
(* With ReuseFreed = FALSE the addresses bound the programs ever loaded.   *)
(***************************************************************************)
EXTENDS Scheduler

(* Which tasks end, by their place in the list.                            *)
Anywhere == {"head", "middle", "tail"}
EndsOnly == {"head", "tail"}
==============================================================================
