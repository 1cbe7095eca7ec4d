---------------------------- MODULE MCScheduler ----------------------------
(* Small instances of Scheduler for TLC. *)
EXTENDS SchedulerRefinement, TLC

(* Agents are alike and task slots are alike; only safety runs use this. *)
Symmetric == Permutations(Agent) \cup Permutations(Task)
=============================================================================
