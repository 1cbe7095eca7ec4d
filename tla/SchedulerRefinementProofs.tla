--------------------- MODULE SchedulerRefinementProofs ---------------------
(***************************************************************************)
(* Scheduler implements AdmissionPolicy, for any agents, tasks and bounds. *)
(***************************************************************************)
EXTENDS SchedulerRefinement, SchedulerProofs

(* The abstract variables under the refinement mapping. *)
Owed       == {a \in Agent : job[a] # 0}
Compacting == {owner[t] : t \in DeferredInferences}

(* No more agents have a compaction with the model than tasks do. *)
LEMMA CompactingCount ==
  /\ IsFiniteSet(Compacting)
  /\ Cardinality(Compacting) \in Nat
  /\ Cardinality(Compacting) <= DfInferences
<1> DEFINE f == [t \in DeferredInferences |-> owner[t]]
<1>1. f \in Surjection(DeferredInferences, Compacting)
  BY DEF Compacting, Surjection
<1>2. /\ IsFiniteSet(Compacting)
      /\ Cardinality(Compacting) <= DfInferences
  BY <1>1, CountedSetsFinite, FS_Surjection DEF DfInferences
<1> QED BY <1>2, FS_CardinalityType

LEMMA FreeSlot ==
  ASSUME Inv, SlotFree
  PROVE  Cardinality(ForegroundInferences) + Cardinality(Compacting) < Cap
<1>1. running = FgInferences + DfInferences
  BY DEF Inv, CountersExact, FgInferences, DfInferences
<1>2. running < Cap /\ Cap \in Nat
  BY SchedulerAssumption DEF SlotFree, SchedulerAssumption
<1> QED BY <1>1, <1>2, CompactingCount, CountTypes DEF FgInferences

(* Every step of the scheduler is a step of the policy or leaves its       *)
(* variables alone.                                                        *)
LEMMA PolicyStep ==
  ASSUME Inv, [Next]_vars
  PROVE  Policy!PNext \/ UNCHANGED <<Owed, ForegroundWaiters, ForegroundInferences, Compacting>>
<1> USE SchedulerAssumption DEF SchedulerAssumption, Inv, storeVars, turnVars, taskVars, wokenVars, bootVars
<1> DEFINE Mapped == <<Owed, ForegroundWaiters, ForegroundInferences, Compacting>>
           Goal == Policy!PNext \/ UNCHANGED Mapped
<1>a. ASSUME UNCHANGED job PROVE UNCHANGED Owed
  BY <1>a DEF Owed
<1>b. ASSUME NEW a \in Agent, NEW place, GoTurn(a, place),
             turn[a] \notin Waiting \cup Admitted, place \notin Waiting \cup Admitted
      PROVE  UNCHANGED <<ForegroundWaiters, ForegroundInferences>>
  BY <1>b DEF GoTurn, TypeOK, ForegroundWaiters, ForegroundInferences
<1>c. ASSUME UNCHANGED turn
      PROVE  UNCHANGED <<ForegroundWaiters, ForegroundInferences>>
  BY <1>c DEF ForegroundWaiters, ForegroundInferences
<1>d. ASSUME NEW t \in Task, NEW place, GoTask(t, place), UNCHANGED owner,
             task[t] # "infer", place # "infer"
      PROVE  UNCHANGED Compacting
  BY <1>d DEF GoTask, TypeOK, Compacting, DeferredInferences
<1>e. ASSUME UNCHANGED <<task, owner>> PROVE UNCHANGED Compacting
  BY <1>e DEF Compacting, DeferredInferences
<1>f. ASSUME NEW a \in Agent, AdmitDeferred(a) PROVE UNCHANGED Compacting
  <2>1. CASE a \in deferredAgents
    BY <1>e, <1>f, <2>1 DEF AdmitDeferred
  <2>2. CASE a \notin deferredAgents
    <3>1. PICK t \in Task : /\ task[t] = "free"
                            /\ GoTask(t, "spawned")
                            /\ owner' = [owner EXCEPT ![t] = a]
      BY <1>f, <2>2 DEF AdmitDeferred
    <3>2. \A u \in Task : /\ task'[u] = "infer" <=> task[u] = "infer"
                          /\ task[u] = "infer" => owner'[u] = owner[u]
      BY <3>1 DEF GoTask, TypeOK
    <3>3. DeferredInferences' = DeferredInferences
      BY <3>2 DEF DeferredInferences
    <3>4. \A u \in DeferredInferences : owner'[u] = owner[u]
      BY <3>2 DEF DeferredInferences
    <3> QED BY <3>3, <3>4 DEF Compacting
  <2> QED BY <2>1, <2>2
<1>g. \A t \in Task : task[t] # "free" => owner[t] \in Agent
  BY DEF TaskShape, TypeOK
<1>h. \A t \in Task : task[t] # "free" =>
        /\ owner[t] \in Compacting <=> task[t] = "infer"
        /\ \A u \in Task : owner[u] = owner[t] => u = t
  BY DEF TaskShape, Compacting, DeferredInferences
<1> HIDE DEF Goal
<1> SUFFICES Goal
  BY DEF Goal
<1>1. CASE Restart
  <2>1. ForegroundWaiters' = {} /\ ForegroundInferences' = {} /\ Compacting' = {}
    BY <1>1 DEF Restart, ForegroundWaiters, ForegroundInferences, Compacting,
                DeferredInferences, Waiting, Admitted
  <2>2. UNCHANGED Owed
    BY <1>1, <1>a DEF Restart
  <2>3. Policy!Crash
    BY <2>1, <2>2 DEF Policy!Crash, Owed, Compacting
  <2> QED BY <2>3 DEF Goal, Policy!PNext
<1>2. ASSUME NEW a \in Agent, BeginTurn(a) PROVE Goal
  <2>1. PICK place : /\ GoTurn(a, place) /\ place \notin Waiting \cup Admitted
                      /\ turn[a] \notin Waiting \cup Admitted
    BY <1>2 DEF BeginTurn, Waiting, Admitted
  <2> QED BY <1>2, <1>a, <1>b, <1>e, <2>1 DEF BeginTurn, Goal
<1>3. ASSUME NEW a \in Agent, CheckPending(a) PROVE Goal
  <2>1. PICK place : /\ GoTurn(a, place) /\ place \notin Waiting \cup Admitted
                      /\ turn[a] \notin Waiting \cup Admitted
    BY <1>3 DEF CheckPending, Cleared, OwesJob, Waiting, Admitted
  <2> QED BY <1>3, <1>a, <1>b, <1>e, <2>1 DEF CheckPending, Goal
<1>4. ASSUME NEW a \in Agent, LookAgain(a) PROVE Goal
  <2>1. PICK place : /\ GoTurn(a, place) /\ place \notin Waiting \cup Admitted
                      /\ turn[a] \notin Waiting \cup Admitted
    BY <1>4 DEF LookAgain, Waiting, Admitted
  <2> QED BY <1>4, <1>a, <1>b, <1>e, <2>1 DEF LookAgain, Goal
<1>5. ASSUME NEW a \in Agent, Bail(a) PROVE Goal
  <2>1. PICK place : /\ GoTurn(a, place) /\ place \notin Waiting \cup Admitted
                      /\ turn[a] \notin Waiting \cup Admitted
    BY <1>5 DEF Bail, EndTurn, Waiting, Admitted
  <2> QED BY <1>5, <1>a, <1>b, <1>e, <2>1 DEF Bail, Goal
<1>6. ASSUME NEW a \in Agent, Reread(a) PROVE Goal
  <2>1. PICK place : /\ GoTurn(a, place) /\ place \notin Waiting \cup Admitted
                      /\ turn[a] \notin Waiting \cup Admitted
    BY <1>6 DEF Reread, Cleared, OwesJob, Waiting, Admitted
  <2> QED BY <1>6, <1>a, <1>b, <1>e, <2>1 DEF Reread, Goal
<1>7. ASSUME NEW a \in Agent, AwaitChange(a) PROVE Goal
  <2>1. PICK place : /\ GoTurn(a, place) /\ place \notin Waiting \cup Admitted
                      /\ turn[a] \notin Waiting \cup Admitted
    BY <1>7 DEF AwaitChange, Waiting, Admitted
  <2> QED BY <1>7, <1>a, <1>b, <1>e, <2>1 DEF AwaitChange, Goal
<1>8. ASSUME NEW a \in Agent, Verify(a) PROVE Goal
  <2>1. PICK place : /\ GoTurn(a, place) /\ place \notin Waiting \cup Admitted
                      /\ turn[a] \notin Waiting \cup Admitted
    BY <1>8 DEF Verify, OwesJob, EndTurn, Waiting, Admitted
  <2> QED BY <1>8, <1>a, <1>b, <1>e, <2>1 DEF Verify, Goal
<1>9. ASSUME NEW a \in Agent, RunTools(a) PROVE Goal
  <2>1. PICK place : /\ GoTurn(a, place) /\ place \notin Waiting \cup Admitted
                      /\ turn[a] \notin Waiting \cup Admitted
    BY <1>9 DEF RunTools, Waiting, Admitted
  <2> QED BY <1>9, <1>a, <1>b, <1>e, <2>1 DEF RunTools, Goal
<1>10. ASSUME NEW a \in Agent, AfterAgent(a) PROVE Goal
  <2>1. PICK place : /\ GoTurn(a, place) /\ place \notin Waiting \cup Admitted
                      /\ turn[a] \notin Waiting \cup Admitted
    BY <1>10 DEF AfterAgent, AfterDone, OwesJob, EndTurn, Waiting, Admitted
  <2> QED BY <1>10, <1>a, <1>b, <1>e, <2>1 DEF AfterAgent, Goal
<1>11. ASSUME NEW a \in Agent, AdmitOwn(a) PROVE Goal
  <2>1. PICK place : /\ GoTurn(a, place) /\ place \notin Waiting \cup Admitted
                      /\ turn[a] \notin Waiting \cup Admitted
    BY <1>11 DEF AdmitOwn, Waiting, Admitted
  <2> QED BY <1>11, <1>a, <1>b, <1>f, <2>1 DEF AdmitOwn, Goal
<1>12. ASSUME NEW a \in Agent, Readmit(a) PROVE Goal
  <2>1. PICK place : /\ GoTurn(a, place) /\ place \notin Waiting \cup Admitted
                      /\ turn[a] \notin Waiting \cup Admitted
    BY <1>12 DEF Readmit, Waiting, Admitted
  <2> QED BY <1>12, <1>a, <1>b, <1>f, <2>1 DEF Readmit, Goal
<1>13. ASSUME NEW a \in Agent, HandOff(a) PROVE Goal
  <2>1. PICK place : /\ GoTurn(a, place) /\ place \notin Waiting \cup Admitted
                      /\ turn[a] \notin Waiting \cup Admitted
    BY <1>13 DEF HandOff, AfterDone, EndTurn, Waiting, Admitted
  <2> QED BY <1>13, <1>a, <1>b, <1>f, <2>1 DEF HandOff, Goal
<1>14. ASSUME NEW a \in Agent, Resume(a) PROVE Goal
  BY <1>14, <1>a, <1>c, <1>f DEF Resume, Goal
<1>15. ASSUME NEW a \in Agent, SleepForeground(a) PROVE Goal
  <2>1. UNCHANGED <<ForegroundWaiters, ForegroundInferences>>
    BY <1>15 DEF SleepForeground, GoTurn, TypeOK, ForegroundWaiters, ForegroundInferences, Waiting, Admitted
  <2> QED BY <1>15, <1>a, <1>e, <2>1 DEF SleepForeground, Goal
<1>16. ASSUME NEW a \in Agent, WakeForeground(a) PROVE Goal
  <2>1. UNCHANGED <<ForegroundWaiters, ForegroundInferences>>
    BY <1>16 DEF WakeForeground, GoTurn, TypeOK, ForegroundWaiters, ForegroundInferences, Waiting, Admitted
  <2> QED BY <1>16, <1>a, <1>e, <2>1 DEF WakeForeground, Goal
<1>17. ASSUME NEW a \in Agent, ReleaseWaiter(a) PROVE Goal
  <2>1. UNCHANGED <<ForegroundWaiters, ForegroundInferences>>
    BY <1>17 DEF ReleaseWaiter, GoTurn, TypeOK, ForegroundWaiters, ForegroundInferences, Waiting, Admitted
  <2> QED BY <1>17, <1>a, <1>e, <2>1 DEF ReleaseWaiter, Goal
<1>18. ASSUME NEW a \in Agent, EnterQueue(a) PROVE Goal
  <2>1. a \notin Owed \cup ForegroundWaiters \cup ForegroundInferences
    BY <1>18 DEF EnterQueue, Owed, Clear, Resolving, ForegroundWaiters, ForegroundInferences,
                Waiting, Admitted
  <2>2. /\ ForegroundWaiters' = ForegroundWaiters \cup {a}
        /\ UNCHANGED ForegroundInferences
    BY <1>18 DEF EnterQueue, GoTurn, TypeOK, ForegroundWaiters, ForegroundInferences, Waiting, Admitted
  <2>3. UNCHANGED <<Owed, Compacting>>
    BY <1>18, <1>a, <1>e DEF EnterQueue
  <2>4. Policy!Request(a)
    BY <2>1, <2>2, <2>3 DEF Policy!Request, Owed, Compacting
  <2> QED BY <2>4 DEF Goal, Policy!PNext
<1>19. ASSUME NEW a \in Agent, AdmitForeground(a) PROVE Goal
  <2>1. /\ a \in ForegroundWaiters
        /\ ForegroundWaiters' = ForegroundWaiters \ {a}
        /\ ForegroundInferences' = ForegroundInferences \cup {a}
    BY <1>19 DEF AdmitForeground, GoTurn, TypeOK, ForegroundWaiters, ForegroundInferences,
                Waiting, Admitted
  <2>2. UNCHANGED <<Owed, Compacting>>
    BY <1>19, <1>a, <1>e DEF AdmitForeground
  <2>3. Policy!SlotLeft
    <3>1. Cardinality(ForegroundInferences) + Cardinality(Compacting) < Cap
      BY <1>19, FreeSlot DEF AdmitForeground
    <3> QED BY <3>1 DEF Policy!SlotLeft, Compacting, Policy!Cardinality, Cardinality
  <2>4. Policy!Admit(a)
    BY <2>1, <2>2, <2>3 DEF Policy!Admit, Owed, Compacting
  <2> QED BY <2>4 DEF Goal, Policy!PNext
<1>20. ASSUME NEW a \in Agent, AnswerText(a) PROVE Goal
  <2>1. turn[a] = "infer" /\ GoTurn(a, "reply") /\ UNCHANGED <<job, task, owner>>
    BY <1>20 DEF AnswerText, Answered
  <2>2. /\ a \in ForegroundInferences
        /\ ForegroundInferences' = ForegroundInferences \ {a}
        /\ UNCHANGED ForegroundWaiters
    BY <2>1 DEF GoTurn, TypeOK, ForegroundWaiters, ForegroundInferences, Waiting, Admitted
  <2>3. Policy!Return(a)
    BY <1>a, <1>e, <2>1, <2>2 DEF Policy!Return, Owed, Compacting
  <2> QED BY <2>3 DEF Goal, Policy!PNext
<1>21. ASSUME NEW a \in Agent, AnswerToolCalls(a) PROVE Goal
  <2>1. turn[a] = "infer" /\ GoTurn(a, "tools") /\ UNCHANGED <<job, task, owner>>
    BY <1>21 DEF AnswerToolCalls, Answered
  <2>2. /\ a \in ForegroundInferences
        /\ ForegroundInferences' = ForegroundInferences \ {a}
        /\ UNCHANGED ForegroundWaiters
    BY <2>1 DEF GoTurn, TypeOK, ForegroundWaiters, ForegroundInferences, Waiting, Admitted
  <2>3. Policy!Return(a)
    BY <1>a, <1>e, <2>1, <2>2 DEF Policy!Return, Owed, Compacting
  <2> QED BY <2>3 DEF Goal, Policy!PNext
<1>22. ASSUME NEW a \in Agent, RejectCapacity(a) PROVE Goal
  <2>1. turn[a] = "infer" /\ GoTurn(a, "capacity") /\ UNCHANGED <<job, task, owner>>
    BY <1>22 DEF RejectCapacity, Answered
  <2>2. /\ a \in ForegroundInferences
        /\ ForegroundInferences' = ForegroundInferences \ {a}
        /\ UNCHANGED ForegroundWaiters
    BY <2>1 DEF GoTurn, TypeOK, ForegroundWaiters, ForegroundInferences, Waiting, Admitted
  <2>3. Policy!Return(a)
    BY <1>a, <1>e, <2>1, <2>2 DEF Policy!Return, Owed, Compacting
  <2> QED BY <2>3 DEF Goal, Policy!PNext
<1>23. ASSUME NEW a \in Agent, EnqueueRecovery(a) PROVE Goal
  <2>1. GoTurn(a, "after") /\ turn[a] = "capacity" /\ UNCHANGED <<task, owner>>
    BY <1>23 DEF EnqueueRecovery
  <2>2. UNCHANGED <<ForegroundWaiters, ForegroundInferences, Compacting>>
    BY <1>b, <1>e, <2>1 DEF Waiting, Admitted
  <2>3. a \notin Owed \cup ForegroundWaiters \cup ForegroundInferences
    BY <2>1 DEF Owed, Clear, ForegroundWaiters, ForegroundInferences, Waiting, Admitted
  <2>4. Owed' = Owed \cup {a} \/ Owed' = Owed
    BY <1>23, <2>3 DEF EnqueueRecovery, Owed, TypeOK
  <2>5. CASE Owed' = Owed
    BY <2>2, <2>5 DEF Goal
  <2>6. CASE Owed' = Owed \cup {a}
    <3>1. Policy!Owe(a)
      BY <2>2, <2>3, <2>6 DEF Policy!Owe, Owed, Compacting
    <3> QED BY <3>1 DEF Goal, Policy!PNext
  <2> QED BY <2>4, <2>5, <2>6
<1>24. ASSUME NEW a \in Agent, NEW due \in BOOLEAN, StoreReply(a, due) PROVE Goal
  <2>1. PICK place : /\ GoTurn(a, place) /\ place \notin Waiting \cup Admitted
                     /\ turn[a] = "reply"
    BY <1>24 DEF StoreReply, EndTurn, Waiting, Admitted
  <2>2. UNCHANGED <<ForegroundWaiters, ForegroundInferences, Compacting>>
    BY <1>24, <1>b, <1>e, <2>1 DEF StoreReply, Waiting, Admitted
  <2>3. a \notin Owed \cup ForegroundWaiters \cup ForegroundInferences
    BY <2>1 DEF Owed, Clear, Resolving, ForegroundWaiters, ForegroundInferences, Waiting, Admitted
  <2>4. Owed' = Owed \cup {a} \/ Owed' = Owed
    BY <1>24, <2>3 DEF StoreReply, Owed, TypeOK
  <2>5. CASE Owed' = Owed
    BY <2>2, <2>5 DEF Goal
  <2>6. CASE Owed' = Owed \cup {a}
    <3>1. Policy!Owe(a)
      BY <2>2, <2>3, <2>6 DEF Policy!Owe, Owed, Compacting
    <3> QED BY <3>1 DEF Goal, Policy!PNext
  <2> QED BY <2>4, <2>5, <2>6
<1>25. ASSUME NEW a \in Agent, AbandonTurn(a) PROVE Goal
  <2>1. GoTurn(a, "idle") /\ UNCHANGED <<job, task, owner>>
    BY <1>25 DEF AbandonTurn, EndTurn
  <2>2. UNCHANGED <<Owed, Compacting>>
    BY <1>a, <1>e, <2>1
  <2>3. CASE turn[a] = "infer"
    <3>1. /\ a \in ForegroundInferences
          /\ ForegroundInferences' = ForegroundInferences \ {a}
          /\ UNCHANGED ForegroundWaiters
      BY <2>1, <2>3 DEF GoTurn, TypeOK, ForegroundWaiters, ForegroundInferences, Waiting, Admitted
    <3>2. Policy!Return(a)
      BY <2>2, <3>1 DEF Policy!Return, Owed, Compacting
    <3> QED BY <3>2 DEF Goal, Policy!PNext
  <2>4. CASE turn[a] = "asleep"
    <3>1. /\ a \in ForegroundWaiters
          /\ ForegroundWaiters' = ForegroundWaiters \ {a}
          /\ UNCHANGED ForegroundInferences
      BY <2>1, <2>4 DEF GoTurn, TypeOK, ForegroundWaiters, ForegroundInferences, Waiting, Admitted
    <3>2. Policy!Withdraw(a)
      BY <2>2, <3>1 DEF Policy!Withdraw, Owed, Compacting
    <3> QED BY <3>2 DEF Goal, Policy!PNext
  <2>5. CASE turn[a] \notin {"infer", "asleep"}
    <3>1. turn[a] \notin Waiting \cup Admitted
      BY <1>25, <2>5 DEF AbandonTurn, Waiting, Admitted
    <3>2. UNCHANGED <<ForegroundWaiters, ForegroundInferences>>
      BY <1>b, <2>1, <3>1 DEF Waiting, Admitted
    <3> QED BY <2>2, <3>2 DEF Goal
  <2> QED BY <2>3, <2>4, <2>5
<1>26. ASSUME NEW t \in Task, Load(t) PROVE Goal
  <2>1. PICK place : GoTask(t, place) /\ place # "infer" /\ task[t] # "infer"
    BY <1>26 DEF Load
  <2> QED BY <1>26, <1>a, <1>c, <1>d, <2>1 DEF Load, Goal
<1>27. ASSUME NEW t \in Task, NothingToSummarize(t) PROVE Goal
  <2>1. PICK place : GoTask(t, place) /\ place # "infer" /\ task[t] # "infer"
    BY <1>27 DEF NothingToSummarize
  <2> QED BY <1>27, <1>a, <1>c, <1>d, <2>1 DEF NothingToSummarize, Goal
<1>28. ASSUME NEW t \in Task, StartSummary(t) PROVE Goal
  <2>1. PICK place : GoTask(t, place) /\ place # "infer" /\ task[t] # "infer"
    BY <1>28 DEF StartSummary
  <2> QED BY <1>28, <1>a, <1>c, <1>d, <2>1 DEF StartSummary, Goal
<1>29. ASSUME NEW t \in Task, SleepTask(t) PROVE Goal
  <2>1. PICK place : GoTask(t, place) /\ place # "infer" /\ task[t] # "infer"
    BY <1>29 DEF SleepTask
  <2> QED BY <1>29, <1>a, <1>c, <1>d, <2>1 DEF SleepTask, Goal
<1>30. ASSUME NEW t \in Task, WakeTask(t) PROVE Goal
  <2>1. PICK place : GoTask(t, place) /\ place # "infer" /\ task[t] # "infer"
    BY <1>30 DEF WakeTask
  <2> QED BY <1>30, <1>a, <1>c, <1>d, <2>1 DEF WakeTask, Goal
<1>31. ASSUME NEW t \in Task, Measure(t) PROVE Goal
  <2>1. PICK place : GoTask(t, place) /\ place # "infer" /\ task[t] # "infer"
    BY <1>31 DEF Measure
  <2> QED BY <1>31, <1>a, <1>c, <1>d, <2>1 DEF Measure, Goal
<1>32. ASSUME NEW t \in Task, TaskFails(t) PROVE Goal
  <2>1. PICK place : GoTask(t, place) /\ place # "infer" /\ task[t] # "infer"
    BY <1>32 DEF TaskFails
  <2> QED BY <1>32, <1>a, <1>c, <1>d, <2>1 DEF TaskFails, Goal
<1>33. ASSUME NEW t \in Task, AdmitTask(t) PROVE Goal
  <2>1. /\ owner[t] \in Agent /\ owner[t] \in Owed \ Compacting
    BY <1>33, <1>g, <1>h DEF AdmitTask, Owed, HeldJobStaysStored, Holding
  <2>2. Compacting' = Compacting \cup {owner[t]}
    BY <1>33 DEF AdmitTask, GoTask, TypeOK, Compacting, DeferredInferences
  <2>3. UNCHANGED <<Owed, ForegroundWaiters, ForegroundInferences>>
    BY <1>33, <1>a, <1>c DEF AdmitTask
  <2>4. ForegroundWaiters = {}
    <3>1. foregroundWaiting = FgWaiters + FgAdmitted /\ foregroundWaiting = 0
      BY <1>33 DEF AdmitTask, DeferredAllowed, CountersExact, FgWaiters, FgAdmitted
    <3>2. FgWaiters = 0
      BY <3>1, CountTypes
    <3> QED BY <3>2, CountedSetsFinite, FS_EmptySet DEF FgWaiters
  <2>5. Policy!SlotLeft
    <3>1. Cardinality(ForegroundInferences) + Cardinality(Compacting) < Cap
      BY <1>33, FreeSlot DEF AdmitTask, DeferredAllowed
    <3> QED BY <3>1 DEF Policy!SlotLeft, Compacting, Policy!Cardinality, Cardinality
  <2>6. \E a \in Agent : Policy!Compact(a)
    BY <2>1, <2>2, <2>3, <2>4, <2>5 DEF Policy!Compact, Owed, Compacting
  <2> QED BY <2>6 DEF Goal, Policy!PNext
<1>34. ASSUME NEW t \in Task, TaskAnswered(t) PROVE Goal
  <2>1. task[t] = "infer" /\ UNCHANGED <<job, turn, owner>>
    BY <1>34 DEF TaskAnswered
  <2>2. PICK place : GoTask(t, place) /\ place # "infer"
    BY <1>34 DEF TaskAnswered
  <2>3. owner[t] \in Agent /\ owner[t] \in Compacting
    BY <1>g, <1>h, <2>1
  <2>4. DeferredInferences' = DeferredInferences \ {t}
    BY <2>2 DEF GoTask, TypeOK, DeferredInferences
  <2>5. \A u \in DeferredInferences : owner[u] = owner[t] => u = t
    BY <1>h, <2>1 DEF DeferredInferences
  <2>6. Compacting' = Compacting \ {owner[t]}
    BY <2>1, <2>4, <2>5 DEF Compacting
  <2>7. \E a \in Agent : Policy!Compacted(a)
    BY <1>a, <1>c, <2>1, <2>3, <2>6 DEF Policy!Compacted, Owed, Compacting
  <2> QED BY <2>7 DEF Goal, Policy!PNext
<1>35. ASSUME NEW t \in Task, Finish(t) PROVE Goal
  <2>1. /\ task[t] = "finish" /\ job[owner[t]] = held[t] /\ held[t] # 0
    BY <1>35 DEF Finish, HeldJobStaysStored, Holding
  <2>2. owner[t] \in Agent /\ owner[t] \in Owed \ Compacting
    BY <1>g, <1>h, <2>1 DEF Owed
  <2>3. Owed' = Owed \ {owner[t]}
    BY <1>35, <2>1, <2>2 DEF Finish, Owed, TypeOK
  <2>4. PICK place : GoTask(t, place) /\ place # "infer"
    BY <1>35 DEF Finish
  <2>5. UNCHANGED <<ForegroundWaiters, ForegroundInferences, Compacting>>
    BY <1>35, <1>c, <1>d, <2>1, <2>4 DEF Finish
  <2>6. \E a \in Agent : Policy!Settle(a)
    BY <2>2, <2>3, <2>5 DEF Policy!Settle, Owed, Compacting
  <2> QED BY <2>6 DEF Goal, Policy!PNext
<1>36. ASSUME NEW t \in Task, ExitTask(t) PROVE Goal
  <2>1. \A u \in Task : task'[u] = "infer" <=> task[u] = "infer"
    BY <1>36 DEF ExitTask, Ending, GoTask, TypeOK
  <2>2. \A u \in Task : task[u] = "infer" => owner'[u] = owner[u]
    BY <1>36 DEF ExitTask, Ending, TypeOK
  <2>3. DeferredInferences' = DeferredInferences /\ \A u \in DeferredInferences : owner'[u] = owner[u]
    BY <2>1, <2>2 DEF DeferredInferences
  <2>4. UNCHANGED Compacting
    BY <2>3 DEF Compacting
  <2> QED BY <1>36, <1>a, <1>c, <2>4 DEF ExitTask, Goal
<1>37. CASE UNCHANGED vars
  BY <1>37, <1>a, <1>c, <1>e DEF vars, Goal
<1> QED BY <1>1, <1>2, <1>3, <1>4, <1>5, <1>6, <1>7, <1>8, <1>9, <1>10, <1>11, <1>12,
        <1>13, <1>14, <1>15, <1>16, <1>17, <1>18, <1>19, <1>20, <1>21, <1>22, <1>23,
        <1>24, <1>25, <1>26, <1>27, <1>28, <1>29, <1>30, <1>31, <1>32, <1>33, <1>34,
        <1>35, <1>36, <1>37 DEF Next, TurnStep, TaskStep

(* The scheduler of inference.rs keeps what design.md promises of          *)
(* admission: each of its behaviours is one of AdmissionPolicy.            *)
THEOREM Implementation == Spec => ImplementsPolicy
<1>1. Init => Policy!PInit
  BY DEF Init, Policy!PInit, ForegroundWaiters, ForegroundInferences, DeferredInferences,
         Waiting, Admitted
<1>2. Inv /\ [Next]_vars => [Policy!PNext]_(Policy!pvars)
  BY PolicyStep DEF Policy!pvars, Owed, Compacting
<1> QED BY <1>1, <1>2, Invariance, PTL DEF Spec, ImplementsPolicy, Policy!PSpec
=============================================================================
