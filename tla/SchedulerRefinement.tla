------------------------ MODULE SchedulerRefinement ------------------------
(***************************************************************************)
(* The scheduler implements the admission policy.                          *)
(***************************************************************************)
EXTENDS Scheduler

Policy == INSTANCE AdmissionPolicy WITH
  owed       <- {a \in Agent : job[a] # 0},
  waiting    <- ForegroundWaiters,
  inferring  <- ForegroundInferences,
  compacting <- {owner[t] : t \in DeferredInferences}

(* Every step of turns, tasks, wake-ups, crashes and restarts is a step of *)
(* the policy of design.md, or invisible to it.                            *)
ImplementsPolicy == Policy!PSpec
=============================================================================
