-------------------------- MODULE SchedulerProofs --------------------------
(***************************************************************************)
(* Theorems about Scheduler, for any agents, tasks, cap and bounds.        *)
(***************************************************************************)
EXTENDS Scheduler, FiniteSetTheorems, TLAPS

-----------------------------------------------------------------------------
(* Counting. *)

Bit(b) == IF b THEN 1 ELSE 0

(* Two sets that differ in one element at most differ in size accordingly. *)
LEMMA CountChange ==
  ASSUME NEW F, NEW G, NEW x, IsFiniteSet(F),
         \A y : y # x => (y \in F <=> y \in G)
  PROVE  /\ Cardinality(F) \in Nat
         /\ Cardinality(G) = Cardinality(F) - Bit(x \in F) + Bit(x \in G)
<1> DEFINE B == F \ {x}
<1>1. IsFiniteSet(B) /\ Cardinality(B) \in Nat
  BY FS_Subset, FS_CardinalityType
<1>2. Cardinality(B \cup {x}) = Cardinality(B) + 1
  BY <1>1, FS_AddElement
<1>3. /\ x \in F => F = B \cup {x}
      /\ x \notin F => F = B
      /\ x \in G => G = B \cup {x}
      /\ x \notin G => G = B
  OBVIOUS
<1> HIDE DEF B
<1>4. /\ x \in F => Cardinality(F) = Cardinality(B) + 1 /\ Bit(x \in F) = 1
      /\ x \notin F => Cardinality(F) = Cardinality(B) /\ Bit(x \in F) = 0
  BY <1>2, <1>3 DEF Bit
<1>5. /\ x \in G => Cardinality(G) = Cardinality(B) + 1 /\ Bit(x \in G) = 1
      /\ x \notin G => Cardinality(G) = Cardinality(B) /\ Bit(x \in G) = 0
  BY <1>2, <1>3 DEF Bit
<1> QED BY <1>1, <1>4, <1>5

FgInferences == Cardinality(ForegroundInferences)
DfInferences == Cardinality(DeferredInferences)
FgWaiters    == Cardinality(ForegroundWaiters)
FgAdmitted   == Cardinality({a \in Agent : turn[a] = "admitted"})

LEMMA CountedSetsFinite ==
  /\ IsFiniteSet(ForegroundInferences) /\ IsFiniteSet(ForegroundWaiters)
  /\ IsFiniteSet({a \in Agent : turn[a] = "admitted"}) /\ IsFiniteSet(DeferredInferences)
<1>1. IsFiniteSet(Agent) /\ IsFiniteSet(Task)
  BY SchedulerAssumption DEF SchedulerAssumption
<1> QED BY <1>1, FS_Subset DEF ForegroundInferences, ForegroundWaiters, DeferredInferences

(* What a move of one turn does to the counts. *)
LEMMA TurnMoves ==
  ASSUME TypeOK, NEW a \in Agent, NEW place, GoTurn(a, place)
  PROVE  /\ FgInferences' = FgInferences - Bit(turn[a] \in Admitted) + Bit(place \in Admitted)
         /\ FgWaiters' = FgWaiters - Bit(turn[a] \in Waiting) + Bit(place \in Waiting)
         /\ FgAdmitted' = FgAdmitted - Bit(turn[a] = "admitted") + Bit(place = "admitted")
<1>1. turn'[a] = place /\ \A b \in Agent : b # a => turn'[b] = turn[b]
  BY DEF TypeOK, GoTurn
<1>2. FgInferences' = FgInferences - Bit(turn[a] \in Admitted) + Bit(place \in Admitted)
  <2>1. \A b : b # a => (b \in ForegroundInferences <=> b \in ForegroundInferences')
    BY <1>1 DEF ForegroundInferences
  <2>2. /\ (a \in ForegroundInferences) = (turn[a] \in Admitted)
        /\ (a \in ForegroundInferences') = (place \in Admitted)
    BY <1>1 DEF ForegroundInferences
  <2> QED BY <2>1, <2>2, CountChange, CountedSetsFinite DEF FgInferences
<1>3. FgWaiters' = FgWaiters - Bit(turn[a] \in Waiting) + Bit(place \in Waiting)
  <2>1. \A b : b # a => (b \in ForegroundWaiters <=> b \in ForegroundWaiters')
    BY <1>1 DEF ForegroundWaiters
  <2>2. /\ (a \in ForegroundWaiters) = (turn[a] \in Waiting)
        /\ (a \in ForegroundWaiters') = (place \in Waiting)
    BY <1>1 DEF ForegroundWaiters
  <2> QED BY <2>1, <2>2, CountChange, CountedSetsFinite DEF FgWaiters
<1>4. FgAdmitted' = FgAdmitted - Bit(turn[a] = "admitted") + Bit(place = "admitted")
  <2> DEFINE F == {b \in Agent : turn[b] = "admitted"}
  <2>1. \A b : b # a => (b \in F <=> b \in F')
    BY <1>1
  <2>2. (a \in F) = (turn[a] = "admitted") /\ (a \in F') = (place = "admitted")
    BY <1>1
  <2>3. IsFiniteSet(F) /\ FgAdmitted = Cardinality(F) /\ FgAdmitted' = Cardinality(F')
    BY CountedSetsFinite DEF FgAdmitted
  <2> HIDE DEF F
  <2> QED BY <2>1, <2>2, <2>3, CountChange
<1> QED BY <1>2, <1>3, <1>4

(* What a move of one compaction task does to the count. *)
LEMMA TaskMoves ==
  ASSUME TypeOK, NEW t \in Task, NEW place, GoTask(t, place)
  PROVE  DfInferences' = DfInferences - Bit(task[t] = "infer") + Bit(place = "infer")
<1>1. task'[t] = place /\ \A u \in Task : u # t => task'[u] = task[u]
  BY DEF TypeOK, GoTask
<1>2. \A u : u # t => (u \in DeferredInferences <=> u \in DeferredInferences')
  BY <1>1 DEF DeferredInferences
<1>3. /\ (t \in DeferredInferences) = (task[t] = "infer")
      /\ (t \in DeferredInferences') = (place = "infer")
  BY <1>1 DEF DeferredInferences
<1> QED BY <1>2, <1>3, CountChange, CountedSetsFinite DEF DfInferences

LEMMA CountTypes ==
  FgInferences \in Nat /\ DfInferences \in Nat /\ FgWaiters \in Nat /\ FgAdmitted \in Nat
  BY CountedSetsFinite, FS_CardinalityType DEF FgInferences, DfInferences, FgWaiters, FgAdmitted

(* Whoever holds a slot or a priority is counted. *)
LEMMA HoldersCounted ==
  ASSUME TypeOK, CountersExact
  PROVE  /\ \A a \in Agent : turn[a] \in Admitted => running > 0
         /\ \A a \in Agent : turn[a] \in Waiting \cup {"admitted"} => foregroundWaiting > 0
         /\ \A t \in Task : task[t] = "infer" => running > 0
<1>1. running = FgInferences + DfInferences /\ foregroundWaiting = FgWaiters + FgAdmitted
  BY DEF CountersExact, FgInferences, DfInferences, FgWaiters, FgAdmitted
<1>2. /\ FgInferences = 0 => ForegroundInferences = {}
      /\ DfInferences = 0 => DeferredInferences = {}
      /\ FgWaiters = 0 => ForegroundWaiters = {}
      /\ FgAdmitted = 0 => {a \in Agent : turn[a] = "admitted"} = {}
  BY CountedSetsFinite, FS_EmptySet DEF FgInferences, DfInferences, FgWaiters, FgAdmitted
<1>3. ASSUME NEW a \in Agent, turn[a] \in Admitted PROVE running > 0
  <2>1. FgInferences # 0
    BY <1>2, <1>3 DEF ForegroundInferences
  <2> QED BY <1>1, <2>1, CountTypes
<1>4. ASSUME NEW a \in Agent, turn[a] \in Waiting PROVE foregroundWaiting > 0
  <2>1. FgWaiters # 0
    BY <1>2, <1>4 DEF ForegroundWaiters
  <2> QED BY <1>1, <2>1, CountTypes
<1>5. ASSUME NEW a \in Agent, turn[a] = "admitted" PROVE foregroundWaiting > 0
  <2>1. FgAdmitted # 0
    BY <1>2, <1>5
  <2> QED BY <1>1, <2>1, CountTypes
<1>6. ASSUME NEW t \in Task, task[t] = "infer" PROVE running > 0
  <2>1. DfInferences # 0
    BY <1>2, <1>6 DEF DeferredInferences
  <2> QED BY <1>1, <2>1, CountTypes
<1> QED BY <1>3, <1>4, <1>5, <1>6

-----------------------------------------------------------------------------
(* The inductive invariant. *)

(* Slots of tasks, their owners and deferred_agents agree. *)
TaskShape ==
  /\ \A t \in Task : task[t] = "free" <=> owner[t] = NoAgent
  /\ \A t, u \in Task : owner[t] = owner[u] /\ owner[t] # NoAgent => t = u
  /\ \A t \in Task : owner[t] # NoAgent => owner[t] \in deferredAgents
  /\ \A a \in deferredAgents : \E t \in Task : owner[t] = a

(* NoInferenceWhilePending, up to the place where the recovery job is made. *)
Clear ==
  \A a \in Agent : turn[a] \in Resolving \cup {"verify", "capacity"} => job[a] = 0

(* Who sleeps and was not notified has a reason to: the reason has not     *)
(* gone since the future was made.                                         *)
NoLostWakeUp ==
  /\ \A a \in Agent : turn[a] = "asleep" /\ a \notin turnWoken => running = Cap
  /\ \A a \in Agent : turn[a] = "await" /\ a \notin turnWoken => a \in deferredAgents
  /\ \A t \in Task : task[t] = "asleep" /\ t \notin taskWoken =>
       running = Cap \/ foregroundWaiting # 0

Inv ==
  /\ TypeOK
  /\ CountersExact
  /\ running <= Cap
  /\ TaskShape
  /\ Clear
  /\ HeldJobStaysStored
  /\ NoLostWakeUp

LEMMA InitInv == Init => Inv
<1> SUFFICES ASSUME Init PROVE Inv
  OBVIOUS
<1> USE SchedulerAssumption DEF Init, SchedulerAssumption
<1>1. TypeOK
  BY DEF TypeOK, TurnPlace, TaskPlace
<1>2. CountersExact
  <2>1. /\ ForegroundInferences = {} /\ ForegroundWaiters = {}
        /\ DeferredInferences = {} /\ {a \in Agent : turn[a] = "admitted"} = {}
    BY DEF ForegroundInferences, ForegroundWaiters, DeferredInferences, Admitted, Waiting
  <2> QED BY <2>1, FS_EmptySet DEF CountersExact
<1>3. TaskShape
  BY DEF TaskShape
<1>4. Clear
  BY DEF Clear
<1>5. HeldJobStaysStored
  BY DEF HeldJobStaysStored, Holding
<1>6. NoLostWakeUp
  BY DEF NoLostWakeUp
<1> QED BY <1>1, <1>2, <1>3, <1>4, <1>5, <1>6 DEF Inv

LEMMA TypeStep ==
  ASSUME Inv, [Next]_vars
  PROVE  TypeOK'
<1> USE SchedulerAssumption
    DEF Inv, TypeOK, SchedulerAssumption, GoTurn, GoTask, EndTurn, TurnPlace, TaskPlace,
        Deciding, Resolving, Waiting, Admitted, Holding, Ending,
        storeVars, turnVars, taskVars, wokenVars, bootVars
<1>1. CASE Restart
  BY <1>1 DEF Restart
<1>2. ASSUME NEW a \in Agent, Resume(a) PROVE TypeOK'
  BY <1>2, HoldersCounted DEF Resume, AdmitDeferred
<1>3. ASSUME NEW a \in Agent, BeginTurn(a) PROVE TypeOK'
  BY <1>3, HoldersCounted DEF BeginTurn
<1>4. ASSUME NEW a \in Agent, CheckPending(a) PROVE TypeOK'
  BY <1>4, HoldersCounted DEF CheckPending, OwesJob, Cleared
<1>5. ASSUME NEW a \in Agent, AdmitOwn(a) PROVE TypeOK'
  BY <1>5, HoldersCounted DEF AdmitOwn, AdmitDeferred
<1>6. ASSUME NEW a \in Agent, LookAgain(a) PROVE TypeOK'
  BY <1>6, HoldersCounted DEF LookAgain
<1>7. ASSUME NEW a \in Agent, Bail(a) PROVE TypeOK'
  BY <1>7, HoldersCounted DEF Bail
<1>8. ASSUME NEW a \in Agent, Reread(a) PROVE TypeOK'
  BY <1>8, HoldersCounted DEF Reread, OwesJob, Cleared
<1>9. ASSUME NEW a \in Agent, Readmit(a) PROVE TypeOK'
  BY <1>9, HoldersCounted DEF Readmit, AdmitDeferred
<1>10. ASSUME NEW a \in Agent, AwaitChange(a) PROVE TypeOK'
  BY <1>10, HoldersCounted DEF AwaitChange
<1>11. ASSUME NEW a \in Agent, Verify(a) PROVE TypeOK'
  BY <1>11, HoldersCounted DEF Verify, OwesJob
<1>12. ASSUME NEW a \in Agent, EnterQueue(a) PROVE TypeOK'
  BY <1>12, HoldersCounted DEF EnterQueue, NotifyWaiters
<1>13. ASSUME NEW a \in Agent, AdmitForeground(a) PROVE TypeOK'
  BY <1>13, HoldersCounted DEF AdmitForeground
<1>14. ASSUME NEW a \in Agent, SleepForeground(a) PROVE TypeOK'
  BY <1>14, HoldersCounted DEF SleepForeground
<1>15. ASSUME NEW a \in Agent, WakeForeground(a) PROVE TypeOK'
  BY <1>15, HoldersCounted DEF WakeForeground
<1>16. ASSUME NEW a \in Agent, ReleaseWaiter(a) PROVE TypeOK'
  BY <1>16, HoldersCounted DEF ReleaseWaiter, NotifyWaiters
<1>17. ASSUME NEW a \in Agent, AnswerText(a) PROVE TypeOK'
  BY <1>17, HoldersCounted DEF AnswerText, Answered, NotifyWaiters
<1>18. ASSUME NEW a \in Agent, AnswerToolCalls(a) PROVE TypeOK'
  BY <1>18, HoldersCounted DEF AnswerToolCalls, Answered, NotifyWaiters
<1>19. ASSUME NEW a \in Agent, RejectCapacity(a) PROVE TypeOK'
  BY <1>19, HoldersCounted DEF RejectCapacity, Answered, NotifyWaiters
<1>20. ASSUME NEW a \in Agent, RunTools(a) PROVE TypeOK'
  BY <1>20, HoldersCounted DEF RunTools
<1>21. ASSUME NEW a \in Agent, EnqueueRecovery(a) PROVE TypeOK'
  BY <1>21, HoldersCounted DEF EnqueueRecovery
<1>22. ASSUME NEW a \in Agent, AfterAgent(a) PROVE TypeOK'
  BY <1>22, HoldersCounted DEF AfterAgent, OwesJob, AfterDone
<1>23. ASSUME NEW a \in Agent, HandOff(a) PROVE TypeOK'
  BY <1>23, HoldersCounted DEF HandOff, AdmitDeferred, AfterDone
<1>24. ASSUME NEW a \in Agent, AbandonTurn(a) PROVE TypeOK'
  BY <1>24, HoldersCounted DEF AbandonTurn, SlotsReleased, PriorityReleased, NotifyWaiters
<1>25. ASSUME NEW a \in Agent, NEW due \in BOOLEAN, StoreReply(a, due) PROVE TypeOK'
  BY <1>25 DEF StoreReply
<1>26. ASSUME NEW t \in Task, Load(t) PROVE TypeOK'
  BY <1>26 DEF Load, TaskShape
<1>27. ASSUME NEW t \in Task, NothingToSummarize(t) PROVE TypeOK'
  BY <1>27, HoldersCounted DEF NothingToSummarize
<1>28. ASSUME NEW t \in Task, StartSummary(t) PROVE TypeOK'
  BY <1>28, HoldersCounted DEF StartSummary
<1>29. ASSUME NEW t \in Task, AdmitTask(t) PROVE TypeOK'
  BY <1>29, HoldersCounted DEF AdmitTask
<1>30. ASSUME NEW t \in Task, SleepTask(t) PROVE TypeOK'
  BY <1>30, HoldersCounted DEF SleepTask
<1>31. ASSUME NEW t \in Task, WakeTask(t) PROVE TypeOK'
  BY <1>31, HoldersCounted DEF WakeTask
<1>32. ASSUME NEW t \in Task, TaskAnswered(t) PROVE TypeOK'
  BY <1>32, HoldersCounted DEF TaskAnswered, NotifyWaiters
<1>33. ASSUME NEW t \in Task, Measure(t) PROVE TypeOK'
  BY <1>33, HoldersCounted DEF Measure
<1>34. ASSUME NEW t \in Task, Finish(t) PROVE TypeOK'
  BY <1>34, HoldersCounted DEF Finish
<1>35. ASSUME NEW t \in Task, TaskFails(t) PROVE TypeOK'
  BY <1>35, HoldersCounted DEF TaskFails
<1>36. ASSUME NEW t \in Task, ExitTask(t) PROVE TypeOK'
  BY <1>36, HoldersCounted DEF ExitTask, NotifyWaiters
<1>37. CASE UNCHANGED vars
  BY <1>37 DEF vars
<1> QED BY <1>1, <1>2, <1>3, <1>4, <1>5, <1>6, <1>7, <1>8, <1>9, <1>10, <1>11, <1>12, <1>13, <1>14, <1>15, <1>16, <1>17, <1>18, <1>19, <1>20, <1>21, <1>22, <1>23, <1>24, <1>25, <1>26, <1>27, <1>28, <1>29, <1>30, <1>31, <1>32, <1>33, <1>34, <1>35, <1>36, <1>37 DEF Next, TurnStep, TaskStep

(* Steps that no counter notices. *)
QuietTurn ==
  \/ turn' = turn
  \/ \E a \in Agent, place \in TurnPlace \ (Waiting \cup Admitted) :
       turn[a] \notin Waiting \cup Admitted /\ GoTurn(a, place)

QuietTask ==
  \/ task' = task
  \/ \E t \in Task, place \in TaskPlace \ {"infer"} : task[t] # "infer" /\ GoTask(t, place)

LEMMA QuietTurnCounts ==
  ASSUME TypeOK, QuietTurn
  PROVE  FgInferences' = FgInferences /\ FgWaiters' = FgWaiters /\ FgAdmitted' = FgAdmitted
<1>1. CASE turn' = turn
  BY <1>1 DEF FgInferences, FgWaiters, FgAdmitted, ForegroundInferences, ForegroundWaiters
<1>2. CASE turn' # turn
  <2>1. PICK a \in Agent, place \in TurnPlace \ (Waiting \cup Admitted) :
          turn[a] \notin Waiting \cup Admitted /\ GoTurn(a, place)
    BY <1>2 DEF QuietTurn
  <2>2. /\ ~(turn[a] \in Admitted) /\ ~(place \in Admitted)
        /\ ~(turn[a] \in Waiting) /\ ~(place \in Waiting)
        /\ ~(turn[a] = "admitted") /\ ~(place = "admitted")
    BY <2>1 DEF Admitted
  <2>3. /\ FgInferences' = FgInferences - Bit(turn[a] \in Admitted) + Bit(place \in Admitted)
        /\ FgWaiters' = FgWaiters - Bit(turn[a] \in Waiting) + Bit(place \in Waiting)
        /\ FgAdmitted' = FgAdmitted - Bit(turn[a] = "admitted") + Bit(place = "admitted")
    BY <2>1, TurnMoves
  <2> QED BY <2>2, <2>3, CountTypes DEF Bit
<1> QED BY <1>1, <1>2

LEMMA QuietTaskCounts ==
  ASSUME TypeOK, QuietTask
  PROVE  DfInferences' = DfInferences
<1>1. CASE task' = task
  BY <1>1 DEF DfInferences, DeferredInferences
<1>2. CASE task' # task
  <2>1. PICK t \in Task, place \in TaskPlace \ {"infer"} : task[t] # "infer" /\ GoTask(t, place)
    BY <1>2 DEF QuietTask
  <2>2. DfInferences' = DfInferences - Bit(task[t] = "infer") + Bit(place = "infer")
    BY <2>1, TaskMoves
  <2> QED BY <2>1, <2>2, CountTypes DEF Bit
<1> QED BY <1>1, <1>2

(* Slots and priorities a turn holds at a place. *)
Slots(place) == IF place \in Admitted THEN 1 ELSE 0
Prios(place) == IF place \in Waiting \cup {"admitted"} THEN 1 ELSE 0

LEMMA Weights ==
  /\ \A place \in {"idle", "request", "reply", "tools", "capacity"} : Slots(place) = 0 /\ Prios(place) = 0
  /\ Slots("queued") = 0 /\ Slots("asleep") = 0 /\ Slots("admitted") = 1 /\ Slots("infer") = 1
  /\ Prios("queued") = 1 /\ Prios("asleep") = 1 /\ Prios("admitted") = 1 /\ Prios("infer") = 0
  /\ \A place : Slots(place) \in {0, 1} /\ Prios(place) \in {0, 1}
  BY DEF Slots, Prios, Admitted, Waiting

LEMMA TurnWeights ==
  ASSUME TypeOK, NEW a \in Agent, NEW place, GoTurn(a, place)
  PROVE  /\ FgInferences' = FgInferences - Slots(turn[a]) + Slots(place)
         /\ FgWaiters' + FgAdmitted' = FgWaiters + FgAdmitted - Prios(turn[a]) + Prios(place)
<1>1. \A p : Bit(p \in Admitted) = Slots(p)
  BY DEF Bit, Slots
<1>2. \A p : Bit(p \in Waiting) + Bit(p = "admitted") = Prios(p)
  BY DEF Bit, Prios, Waiting
<1>3. \A p : Bit(p \in Waiting) \in Nat /\ Bit(p = "admitted") \in Nat
  BY DEF Bit
<1> QED BY <1>1, <1>2, <1>3, TurnMoves, CountTypes

LEMMA CountersStep ==
  ASSUME Inv, [Next]_vars
  PROVE  CountersExact' /\ (running <= Cap)'
<1> USE SchedulerAssumption DEF Inv, SchedulerAssumption, storeVars, turnVars, taskVars, wokenVars, bootVars
<1> DEFINE Goal == CountersExact' /\ (running <= Cap)'
<1>a. /\ running = FgInferences + DfInferences /\ foregroundWaiting = FgWaiters + FgAdmitted
      /\ FgInferences \in Nat /\ DfInferences \in Nat /\ FgWaiters \in Nat /\ FgAdmitted \in Nat
  BY CountTypes DEF CountersExact, FgInferences, DfInferences, FgWaiters, FgAdmitted
<1>b. ASSUME running' = FgInferences' + DfInferences',
             foregroundWaiting' = FgWaiters' + FgAdmitted',
             running' <= Cap
      PROVE  Goal
  BY <1>b DEF CountersExact, FgInferences, DfInferences, FgWaiters, FgAdmitted
<1>c. ASSUME QuietTurn, QuietTask, UNCHANGED <<running, foregroundWaiting>>
      PROVE  Goal
  BY <1>a, <1>b, <1>c, QuietTurnCounts, QuietTaskCounts
<1>d. ASSUME UNCHANGED turn
      PROVE  FgInferences' = FgInferences /\ FgWaiters' = FgWaiters /\ FgAdmitted' = FgAdmitted
  BY <1>d, QuietTurnCounts DEF QuietTurn
<1>e. ASSUME UNCHANGED task
      PROVE  DfInferences' = DfInferences
  BY <1>e, QuietTaskCounts DEF QuietTask
<1>f. ASSUME NEW a \in Agent, AdmitDeferred(a)
      PROVE  QuietTask
  BY <1>f DEF AdmitDeferred, QuietTask, TypeOK, GoTask, TaskPlace, taskVars
<1> SUFFICES Goal
  OBVIOUS
<1> HIDE DEF Goal
<1>1. CASE Restart
  <2>1. /\ ForegroundInferences' = {} /\ ForegroundWaiters' = {}
        /\ DeferredInferences' = {} /\ {a \in Agent : turn'[a] = "admitted"} = {}
    BY <1>1 DEF Restart, ForegroundInferences, ForegroundWaiters, DeferredInferences, Admitted, Waiting
  <2>2. FgInferences' = 0 /\ DfInferences' = 0 /\ FgWaiters' = 0 /\ FgAdmitted' = 0
    BY <2>1, FS_EmptySet DEF FgInferences, DfInferences, FgWaiters, FgAdmitted
  <2> QED BY <1>1, <1>b, <2>2 DEF Restart
<1>2. ASSUME NEW a \in Agent, BeginTurn(a) PROVE Goal
  <2>1. QuietTurn
    BY <1>2 DEF BeginTurn, QuietTurn, TypeOK, GoTurn, TurnPlace, Deciding, Resolving, Waiting, Admitted
  <2> QED BY <1>2, <1>c, <2>1 DEF BeginTurn, QuietTask
<1>3. ASSUME NEW a \in Agent, CheckPending(a) PROVE Goal
  <2>1. QuietTurn
    BY <1>3 DEF CheckPending, Cleared, OwesJob, QuietTurn, TypeOK, GoTurn, TurnPlace, Deciding, Resolving, Waiting, Admitted
  <2> QED BY <1>3, <1>c, <2>1 DEF CheckPending, QuietTask
<1>4. ASSUME NEW a \in Agent, LookAgain(a) PROVE Goal
  <2>1. QuietTurn
    BY <1>4 DEF LookAgain, QuietTurn, TypeOK, GoTurn, TurnPlace, Deciding, Resolving, Waiting, Admitted
  <2> QED BY <1>4, <1>c, <2>1 DEF LookAgain, QuietTask
<1>5. ASSUME NEW a \in Agent, Bail(a) PROVE Goal
  <2>1. QuietTurn
    BY <1>5 DEF Bail, EndTurn, QuietTurn, TypeOK, GoTurn, TurnPlace, Deciding, Resolving, Waiting, Admitted
  <2> QED BY <1>5, <1>c, <2>1 DEF Bail, QuietTask
<1>6. ASSUME NEW a \in Agent, Reread(a) PROVE Goal
  <2>1. QuietTurn
    BY <1>6 DEF Reread, Cleared, OwesJob, QuietTurn, TypeOK, GoTurn, TurnPlace, Deciding, Resolving, Waiting, Admitted
  <2> QED BY <1>6, <1>c, <2>1 DEF Reread, QuietTask
<1>7. ASSUME NEW a \in Agent, AwaitChange(a) PROVE Goal
  <2>1. QuietTurn
    BY <1>7 DEF AwaitChange, QuietTurn, TypeOK, GoTurn, TurnPlace, Deciding, Resolving, Waiting, Admitted
  <2> QED BY <1>7, <1>c, <2>1 DEF AwaitChange, QuietTask
<1>8. ASSUME NEW a \in Agent, Verify(a) PROVE Goal
  <2>1. QuietTurn
    BY <1>8 DEF Verify, EndTurn, OwesJob, QuietTurn, TypeOK, GoTurn, TurnPlace, Deciding, Resolving, Waiting, Admitted
  <2> QED BY <1>8, <1>c, <2>1 DEF Verify, QuietTask
<1>9. ASSUME NEW a \in Agent, RunTools(a) PROVE Goal
  <2>1. QuietTurn
    BY <1>9 DEF RunTools, QuietTurn, TypeOK, GoTurn, TurnPlace, Deciding, Resolving, Waiting, Admitted
  <2> QED BY <1>9, <1>c, <2>1 DEF RunTools, QuietTask
<1>10. ASSUME NEW a \in Agent, EnqueueRecovery(a) PROVE Goal
  <2>1. QuietTurn
    BY <1>10 DEF EnqueueRecovery, QuietTurn, TypeOK, GoTurn, TurnPlace, Deciding, Resolving, Waiting, Admitted
  <2> QED BY <1>10, <1>c, <2>1 DEF EnqueueRecovery, QuietTask
<1>11. ASSUME NEW a \in Agent, AfterAgent(a) PROVE Goal
  <2>1. QuietTurn
    BY <1>11 DEF AfterAgent, AfterDone, EndTurn, OwesJob, QuietTurn, TypeOK, GoTurn, TurnPlace, Deciding, Resolving, Waiting, Admitted
  <2> QED BY <1>11, <1>c, <2>1 DEF AfterAgent, QuietTask
<1>12. ASSUME NEW a \in Agent, Resume(a) PROVE Goal
  <2>1. QuietTurn
    BY <1>12 DEF Resume, QuietTurn, TypeOK, GoTurn, TurnPlace, Deciding, Resolving, Waiting, Admitted
  <2> QED BY <1>12, <1>c, <1>f, <2>1 DEF Resume
<1>13. ASSUME NEW a \in Agent, AdmitOwn(a) PROVE Goal
  <2>1. QuietTurn
    BY <1>13 DEF AdmitOwn, QuietTurn, TypeOK, GoTurn, TurnPlace, Deciding, Resolving, Waiting, Admitted
  <2> QED BY <1>13, <1>c, <1>f, <2>1 DEF AdmitOwn
<1>14. ASSUME NEW a \in Agent, Readmit(a) PROVE Goal
  <2>1. QuietTurn
    BY <1>14 DEF Readmit, QuietTurn, TypeOK, GoTurn, TurnPlace, Deciding, Resolving, Waiting, Admitted
  <2> QED BY <1>14, <1>c, <1>f, <2>1 DEF Readmit
<1>15. ASSUME NEW a \in Agent, HandOff(a) PROVE Goal
  <2>1. QuietTurn
    BY <1>15 DEF HandOff, AfterDone, EndTurn, QuietTurn, TypeOK, GoTurn, TurnPlace, Deciding, Resolving, Waiting, Admitted
  <2> QED BY <1>15, <1>c, <1>f, <2>1 DEF HandOff
<1>16. ASSUME NEW a \in Agent, NEW due \in BOOLEAN, StoreReply(a, due) PROVE Goal
  <2>1. QuietTurn
    BY <1>16 DEF StoreReply, EndTurn, QuietTurn, TypeOK, GoTurn, TurnPlace, Deciding, Resolving, Waiting, Admitted
  <2> QED BY <1>16, <1>c, <2>1 DEF StoreReply, QuietTask
<1>17. ASSUME NEW a \in Agent, EnterQueue(a) PROVE Goal
  <2>1. turn[a] = "request" /\ GoTurn(a, "queued")
    BY <1>17 DEF EnterQueue
  <2>2. UNCHANGED task
    BY <1>17 DEF EnterQueue
  <2> QED BY <1>17, <1>a, <1>b, <1>e, <2>1, <2>2, TurnWeights, Weights DEF EnterQueue, NotifyWaiters
<1>18. ASSUME NEW a \in Agent, AdmitForeground(a) PROVE Goal
  <2>1. turn[a] = "queued" /\ GoTurn(a, "admitted")
    BY <1>18 DEF AdmitForeground
  <2>2. UNCHANGED task
    BY <1>18 DEF AdmitForeground
  <2> QED BY <1>18, <1>a, <1>b, <1>e, <2>1, <2>2, TurnWeights, Weights DEF AdmitForeground, SlotFree
<1>19. ASSUME NEW a \in Agent, SleepForeground(a) PROVE Goal
  <2>1. turn[a] = "queued" /\ GoTurn(a, "asleep")
    BY <1>19 DEF SleepForeground
  <2>2. UNCHANGED task
    BY <1>19 DEF SleepForeground
  <2> QED BY <1>19, <1>a, <1>b, <1>e, <2>1, <2>2, TurnWeights, Weights DEF SleepForeground
<1>20. ASSUME NEW a \in Agent, WakeForeground(a) PROVE Goal
  <2>1. turn[a] = "asleep" /\ GoTurn(a, "queued")
    BY <1>20 DEF WakeForeground
  <2>2. UNCHANGED task
    BY <1>20 DEF WakeForeground
  <2> QED BY <1>20, <1>a, <1>b, <1>e, <2>1, <2>2, TurnWeights, Weights DEF WakeForeground
<1>21. ASSUME NEW a \in Agent, ReleaseWaiter(a) PROVE Goal
  <2>1. turn[a] = "admitted" /\ GoTurn(a, "infer")
    BY <1>21 DEF ReleaseWaiter
  <2>2. UNCHANGED task
    BY <1>21 DEF ReleaseWaiter
  <2> QED BY <1>21, <1>a, <1>b, <1>e, <2>1, <2>2, TurnWeights, Weights DEF ReleaseWaiter, NotifyWaiters
<1>22. ASSUME NEW a \in Agent, AnswerText(a) PROVE Goal
  <2>1. turn[a] = "infer" /\ GoTurn(a, "reply") /\ UNCHANGED task
    BY <1>22 DEF AnswerText, Answered
  <2> QED BY <1>22, <1>a, <1>b, <1>e, <2>1, TurnWeights, Weights DEF AnswerText, Answered
<1>23. ASSUME NEW a \in Agent, AnswerToolCalls(a) PROVE Goal
  <2>1. turn[a] = "infer" /\ GoTurn(a, "tools") /\ UNCHANGED task
    BY <1>23 DEF AnswerToolCalls, Answered
  <2> QED BY <1>23, <1>a, <1>b, <1>e, <2>1, TurnWeights, Weights DEF AnswerToolCalls, Answered
<1>24. ASSUME NEW a \in Agent, RejectCapacity(a) PROVE Goal
  <2>1. turn[a] = "infer" /\ GoTurn(a, "capacity") /\ UNCHANGED task
    BY <1>24 DEF RejectCapacity, Answered
  <2> QED BY <1>24, <1>a, <1>b, <1>e, <2>1, TurnWeights, Weights DEF RejectCapacity, Answered
<1>25. ASSUME NEW a \in Agent, AbandonTurn(a) PROVE Goal
  <2>1. turn[a] \notin {"queued", "admitted"} /\ GoTurn(a, "idle") /\ UNCHANGED task
    BY <1>25 DEF AbandonTurn, EndTurn
  <2>2. SlotsReleased(a) = Slots(turn[a]) /\ PriorityReleased(a) = Prios(turn[a])
    BY <2>1 DEF SlotsReleased, PriorityReleased, Slots, Prios, Admitted, Waiting
  <2> QED BY <1>25, <1>a, <1>b, <1>e, <2>1, <2>2, TurnWeights, Weights DEF AbandonTurn
<1>26. ASSUME NEW t \in Task, Load(t) PROVE Goal
  <2>1. QuietTask
    BY <1>26 DEF Load, QuietTask, TypeOK, GoTask, TaskPlace, Holding, Ending
  <2> QED BY <1>26, <1>c, <2>1 DEF Load, QuietTurn
<1>27. ASSUME NEW t \in Task, NothingToSummarize(t) PROVE Goal
  <2>1. QuietTask
    BY <1>27 DEF NothingToSummarize, QuietTask, TypeOK, GoTask, TaskPlace, Holding, Ending
  <2> QED BY <1>27, <1>c, <2>1 DEF NothingToSummarize, QuietTurn
<1>28. ASSUME NEW t \in Task, StartSummary(t) PROVE Goal
  <2>1. QuietTask
    BY <1>28 DEF StartSummary, QuietTask, TypeOK, GoTask, TaskPlace, Holding, Ending
  <2> QED BY <1>28, <1>c, <2>1 DEF StartSummary, QuietTurn
<1>29. ASSUME NEW t \in Task, SleepTask(t) PROVE Goal
  <2>1. QuietTask
    BY <1>29 DEF SleepTask, QuietTask, TypeOK, GoTask, TaskPlace, Holding, Ending
  <2> QED BY <1>29, <1>c, <2>1 DEF SleepTask, QuietTurn
<1>30. ASSUME NEW t \in Task, WakeTask(t) PROVE Goal
  <2>1. QuietTask
    BY <1>30 DEF WakeTask, QuietTask, TypeOK, GoTask, TaskPlace, Holding, Ending
  <2> QED BY <1>30, <1>c, <2>1 DEF WakeTask, QuietTurn
<1>31. ASSUME NEW t \in Task, Measure(t) PROVE Goal
  <2>1. QuietTask
    BY <1>31 DEF Measure, QuietTask, TypeOK, GoTask, TaskPlace, Holding, Ending
  <2> QED BY <1>31, <1>c, <2>1 DEF Measure, QuietTurn
<1>32. ASSUME NEW t \in Task, Finish(t) PROVE Goal
  <2>1. QuietTask
    BY <1>32 DEF Finish, QuietTask, TypeOK, GoTask, TaskPlace, Holding, Ending
  <2> QED BY <1>32, <1>c, <2>1 DEF Finish, QuietTurn
<1>33. ASSUME NEW t \in Task, TaskFails(t) PROVE Goal
  <2>1. QuietTask
    BY <1>33 DEF TaskFails, QuietTask, TypeOK, GoTask, TaskPlace, Holding, Ending
  <2> QED BY <1>33, <1>c, <2>1 DEF TaskFails, QuietTurn
<1>34. ASSUME NEW t \in Task, ExitTask(t) PROVE Goal
  <2>1. QuietTask
    BY <1>34 DEF ExitTask, QuietTask, TypeOK, GoTask, TaskPlace, Holding, Ending
  <2> QED BY <1>34, <1>c, <2>1 DEF ExitTask, QuietTurn
<1>35. ASSUME NEW t \in Task, AdmitTask(t) PROVE Goal
  <2>1. task[t] # "infer" /\ GoTask(t, "infer") /\ UNCHANGED turn
    BY <1>35 DEF AdmitTask
  <2> QED BY <1>35, <1>a, <1>b, <1>d, <2>1, TaskMoves DEF AdmitTask, DeferredAllowed, SlotFree, Bit
<1>36. ASSUME NEW t \in Task, TaskAnswered(t) PROVE Goal
  <2>1. PICK place : place # "infer" /\ GoTask(t, place)
    BY <1>36 DEF TaskAnswered
  <2>2. task[t] = "infer" /\ UNCHANGED turn
    BY <1>36 DEF TaskAnswered
  <2> QED BY <1>36, <1>a, <1>b, <1>d, <2>1, <2>2, TaskMoves DEF TaskAnswered, Bit
<1>37. CASE UNCHANGED vars
  BY <1>37, <1>c DEF vars, QuietTurn, QuietTask
<1> QED BY <1>1, <1>2, <1>3, <1>4, <1>5, <1>6, <1>7, <1>8, <1>9, <1>10, <1>11, <1>12, <1>13, <1>14, <1>15, <1>16, <1>17, <1>18, <1>19, <1>20, <1>21, <1>22, <1>23, <1>24, <1>25, <1>26, <1>27, <1>28, <1>29, <1>30, <1>31, <1>32, <1>33, <1>34, <1>35, <1>36, <1>37 DEF Next, TurnStep, TaskStep

LEMMA ShapeStep ==
  ASSUME Inv, [Next]_vars
  PROVE  TaskShape'
<1> USE SchedulerAssumption DEF SchedulerAssumption, Inv, storeVars, turnVars, taskVars, wokenVars, bootVars
<1>a. ASSUME UNCHANGED <<task, owner, deferredAgents>> PROVE TaskShape'
  BY <1>a DEF TaskShape
<1>b. ASSUME NEW a \in Agent, AdmitDeferred(a) PROVE TaskShape'
  <2>1. CASE a \in deferredAgents
    BY <1>a, <1>b, <2>1 DEF AdmitDeferred
  <2>2. CASE a \notin deferredAgents
    <3>1. deferredAgents' = deferredAgents \cup {a}
      BY <1>b, <2>2 DEF AdmitDeferred
    <3>2. PICK t \in Task : /\ task[t] = "free"
                            /\ GoTask(t, "spawned")
                            /\ owner' = [owner EXCEPT ![t] = a]
      BY <1>b, <2>2 DEF AdmitDeferred
    <3>3. /\ task'[t] = "spawned" /\ owner'[t] = a
          /\ \A u \in Task : u # t => task'[u] = task[u] /\ owner'[u] = owner[u]
      BY <3>2 DEF GoTask, TypeOK
    <3>4. \A u \in Task : owner[u] # a
      BY <2>2 DEF TaskShape
    <3>5. \A b \in deferredAgents : \E u \in Task : u # t /\ owner[u] = b
      BY <3>2 DEF TaskShape, TypeOK
    <3>6. \A u, v \in Task : owner'[u] = owner'[v] /\ owner'[u] # NoAgent => u = v
      BY <3>3, <3>4 DEF TaskShape
    <3>7. \A u \in Task : task'[u] = "free" <=> owner'[u] = NoAgent
      BY <3>3 DEF TaskShape
    <3>8. \A u \in Task : owner'[u] # NoAgent => owner'[u] \in deferredAgents'
      BY <3>1, <3>3 DEF TaskShape
    <3>9. \A b \in deferredAgents' : \E u \in Task : owner'[u] = b
      BY <3>1, <3>3, <3>5
    <3> QED BY <3>6, <3>7, <3>8, <3>9 DEF TaskShape
  <2> QED BY <2>1, <2>2
<1>c. ASSUME NEW t \in Task, NEW place, GoTask(t, place), task[t] # "free", place # "free",
             UNCHANGED <<owner, deferredAgents>>
      PROVE  TaskShape'
  BY <1>c DEF TaskShape, GoTask, TypeOK
<1>1. CASE Restart
  BY <1>1 DEF Restart, TaskShape
<1>2. ASSUME NEW a \in Agent, BeginTurn(a) PROVE TaskShape'
  BY <1>2, <1>a DEF BeginTurn
<1>3. ASSUME NEW a \in Agent, CheckPending(a) PROVE TaskShape'
  BY <1>3, <1>a DEF CheckPending
<1>4. ASSUME NEW a \in Agent, LookAgain(a) PROVE TaskShape'
  BY <1>4, <1>a DEF LookAgain
<1>5. ASSUME NEW a \in Agent, Bail(a) PROVE TaskShape'
  BY <1>5, <1>a DEF Bail
<1>6. ASSUME NEW a \in Agent, Reread(a) PROVE TaskShape'
  BY <1>6, <1>a DEF Reread
<1>7. ASSUME NEW a \in Agent, AwaitChange(a) PROVE TaskShape'
  BY <1>7, <1>a DEF AwaitChange
<1>8. ASSUME NEW a \in Agent, Verify(a) PROVE TaskShape'
  BY <1>8, <1>a DEF Verify
<1>9. ASSUME NEW a \in Agent, EnterQueue(a) PROVE TaskShape'
  BY <1>9, <1>a DEF EnterQueue
<1>10. ASSUME NEW a \in Agent, AdmitForeground(a) PROVE TaskShape'
  BY <1>10, <1>a DEF AdmitForeground
<1>11. ASSUME NEW a \in Agent, SleepForeground(a) PROVE TaskShape'
  BY <1>11, <1>a DEF SleepForeground
<1>12. ASSUME NEW a \in Agent, WakeForeground(a) PROVE TaskShape'
  BY <1>12, <1>a DEF WakeForeground
<1>13. ASSUME NEW a \in Agent, ReleaseWaiter(a) PROVE TaskShape'
  BY <1>13, <1>a DEF ReleaseWaiter
<1>14. ASSUME NEW a \in Agent, AnswerText(a) PROVE TaskShape'
  BY <1>14, <1>a DEF AnswerText, Answered
<1>15. ASSUME NEW a \in Agent, AnswerToolCalls(a) PROVE TaskShape'
  BY <1>15, <1>a DEF AnswerToolCalls, Answered
<1>16. ASSUME NEW a \in Agent, RejectCapacity(a) PROVE TaskShape'
  BY <1>16, <1>a DEF RejectCapacity, Answered
<1>17. ASSUME NEW a \in Agent, RunTools(a) PROVE TaskShape'
  BY <1>17, <1>a DEF RunTools
<1>18. ASSUME NEW a \in Agent, EnqueueRecovery(a) PROVE TaskShape'
  BY <1>18, <1>a DEF EnqueueRecovery
<1>19. ASSUME NEW a \in Agent, AfterAgent(a) PROVE TaskShape'
  BY <1>19, <1>a DEF AfterAgent
<1>20. ASSUME NEW a \in Agent, AbandonTurn(a) PROVE TaskShape'
  BY <1>20, <1>a DEF AbandonTurn
<1>21. ASSUME NEW a \in Agent, Resume(a) PROVE TaskShape'
  BY <1>21, <1>b DEF Resume
<1>22. ASSUME NEW a \in Agent, AdmitOwn(a) PROVE TaskShape'
  BY <1>22, <1>b DEF AdmitOwn
<1>23. ASSUME NEW a \in Agent, Readmit(a) PROVE TaskShape'
  BY <1>23, <1>b DEF Readmit
<1>24. ASSUME NEW a \in Agent, HandOff(a) PROVE TaskShape'
  BY <1>24, <1>b DEF HandOff
<1>25. ASSUME NEW a \in Agent, NEW due \in BOOLEAN, StoreReply(a, due) PROVE TaskShape'
  BY <1>25, <1>a DEF StoreReply
<1>26. ASSUME NEW t \in Task, Load(t) PROVE TaskShape'
  BY <1>26, <1>c DEF Load
<1>27. ASSUME NEW t \in Task, NothingToSummarize(t) PROVE TaskShape'
  BY <1>27, <1>c DEF NothingToSummarize
<1>28. ASSUME NEW t \in Task, StartSummary(t) PROVE TaskShape'
  BY <1>28, <1>c DEF StartSummary
<1>29. ASSUME NEW t \in Task, AdmitTask(t) PROVE TaskShape'
  BY <1>29, <1>c DEF AdmitTask
<1>30. ASSUME NEW t \in Task, SleepTask(t) PROVE TaskShape'
  BY <1>30, <1>c DEF SleepTask
<1>31. ASSUME NEW t \in Task, WakeTask(t) PROVE TaskShape'
  BY <1>31, <1>c DEF WakeTask
<1>32. ASSUME NEW t \in Task, TaskAnswered(t) PROVE TaskShape'
  BY <1>32, <1>c DEF TaskAnswered
<1>33. ASSUME NEW t \in Task, Measure(t) PROVE TaskShape'
  BY <1>33, <1>c DEF Measure
<1>34. ASSUME NEW t \in Task, Finish(t) PROVE TaskShape'
  BY <1>34, <1>c DEF Finish
<1>35. ASSUME NEW t \in Task, TaskFails(t) PROVE TaskShape'
  BY <1>35, <1>c DEF TaskFails
<1>36. ASSUME NEW t \in Task, ExitTask(t) PROVE TaskShape'
  <2>1. /\ task'[t] = "free" /\ owner'[t] = NoAgent
        /\ \A u \in Task : u # t => task'[u] = task[u] /\ owner'[u] = owner[u]
        /\ deferredAgents' = deferredAgents \ {owner[t]}
    BY <1>36 DEF ExitTask, GoTask, TypeOK
  <2>2. owner[t] # NoAgent
    BY <1>36 DEF ExitTask, Ending, TaskShape
  <2>3. \A u \in Task : u # t => owner[u] # owner[t]
    BY <2>2 DEF TaskShape
  <2>4. \A u, v \in Task : owner'[u] = owner'[v] /\ owner'[u] # NoAgent => u = v
    BY <2>1 DEF TaskShape
  <2>5. \A u \in Task : task'[u] = "free" <=> owner'[u] = NoAgent
    BY <2>1 DEF TaskShape
  <2>6. \A u \in Task : owner'[u] # NoAgent => owner'[u] \in deferredAgents'
    BY <2>1, <2>3 DEF TaskShape
  <2>7. \A b \in deferredAgents' : \E u \in Task : owner'[u] = b
    BY <2>1 DEF TaskShape
  <2> QED BY <2>4, <2>5, <2>6, <2>7 DEF TaskShape
<1>37. CASE UNCHANGED vars
  BY <1>37, <1>a DEF vars
<1> QED BY <1>1, <1>2, <1>3, <1>4, <1>5, <1>6, <1>7, <1>8, <1>9, <1>10, <1>11, <1>12,
        <1>13, <1>14, <1>15, <1>16, <1>17, <1>18, <1>19, <1>20, <1>21, <1>22, <1>23,
        <1>24, <1>25, <1>26, <1>27, <1>28, <1>29, <1>30, <1>31, <1>32, <1>33, <1>34,
        <1>35, <1>36, <1>37 DEF Next, TurnStep, TaskStep

LEMMA ClearStep ==
  ASSUME Inv, [Next]_vars
  PROVE  Clear'
<1> USE DEF Inv, TypeOK, Clear, GoTurn, EndTurn, Resolving, Waiting, Admitted,
            storeVars, turnVars, taskVars, wokenVars, bootVars
<1>1. CASE Restart
  BY <1>1 DEF Restart
<1>2. ASSUME NEW a \in Agent, BeginTurn(a) PROVE Clear'
  BY <1>2 DEF BeginTurn
<1>3. ASSUME NEW a \in Agent, CheckPending(a) PROVE Clear'
  BY <1>3 DEF CheckPending, Cleared, OwesJob
<1>4. ASSUME NEW a \in Agent, LookAgain(a) PROVE Clear'
  BY <1>4 DEF LookAgain
<1>5. ASSUME NEW a \in Agent, Bail(a) PROVE Clear'
  BY <1>5 DEF Bail
<1>6. ASSUME NEW a \in Agent, Reread(a) PROVE Clear'
  BY <1>6 DEF Reread, Cleared, OwesJob
<1>7. ASSUME NEW a \in Agent, AwaitChange(a) PROVE Clear'
  BY <1>7 DEF AwaitChange
<1>8. ASSUME NEW a \in Agent, Verify(a) PROVE Clear'
  BY <1>8 DEF Verify, OwesJob
<1>9. ASSUME NEW a \in Agent, EnterQueue(a) PROVE Clear'
  BY <1>9 DEF EnterQueue
<1>10. ASSUME NEW a \in Agent, AdmitForeground(a) PROVE Clear'
  BY <1>10 DEF AdmitForeground
<1>11. ASSUME NEW a \in Agent, SleepForeground(a) PROVE Clear'
  BY <1>11 DEF SleepForeground
<1>12. ASSUME NEW a \in Agent, WakeForeground(a) PROVE Clear'
  BY <1>12 DEF WakeForeground
<1>13. ASSUME NEW a \in Agent, ReleaseWaiter(a) PROVE Clear'
  BY <1>13 DEF ReleaseWaiter
<1>14. ASSUME NEW a \in Agent, AnswerText(a) PROVE Clear'
  BY <1>14 DEF AnswerText, Answered
<1>15. ASSUME NEW a \in Agent, AnswerToolCalls(a) PROVE Clear'
  BY <1>15 DEF AnswerToolCalls, Answered
<1>16. ASSUME NEW a \in Agent, RejectCapacity(a) PROVE Clear'
  BY <1>16 DEF RejectCapacity, Answered
<1>17. ASSUME NEW a \in Agent, RunTools(a) PROVE Clear'
  BY <1>17 DEF RunTools
<1>18. ASSUME NEW a \in Agent, EnqueueRecovery(a) PROVE Clear'
  BY <1>18 DEF EnqueueRecovery
<1>19. ASSUME NEW a \in Agent, AfterAgent(a) PROVE Clear'
  BY <1>19 DEF AfterAgent, AfterDone, OwesJob
<1>20. ASSUME NEW a \in Agent, AbandonTurn(a) PROVE Clear'
  BY <1>20 DEF AbandonTurn
<1>21. ASSUME NEW a \in Agent, Resume(a) PROVE Clear'
  BY <1>21 DEF Resume
<1>22. ASSUME NEW a \in Agent, AdmitOwn(a) PROVE Clear'
  BY <1>22 DEF AdmitOwn
<1>23. ASSUME NEW a \in Agent, Readmit(a) PROVE Clear'
  BY <1>23 DEF Readmit
<1>24. ASSUME NEW a \in Agent, HandOff(a) PROVE Clear'
  BY <1>24 DEF HandOff, AfterDone
<1>25. ASSUME NEW a \in Agent, NEW due \in BOOLEAN, StoreReply(a, due) PROVE Clear'
  BY <1>25 DEF StoreReply
<1>26. ASSUME NEW t \in Task, Load(t) PROVE Clear'
  BY <1>26 DEF Load
<1>27. ASSUME NEW t \in Task, NothingToSummarize(t) PROVE Clear'
  BY <1>27 DEF NothingToSummarize
<1>28. ASSUME NEW t \in Task, StartSummary(t) PROVE Clear'
  BY <1>28 DEF StartSummary
<1>29. ASSUME NEW t \in Task, AdmitTask(t) PROVE Clear'
  BY <1>29 DEF AdmitTask
<1>30. ASSUME NEW t \in Task, SleepTask(t) PROVE Clear'
  BY <1>30 DEF SleepTask
<1>31. ASSUME NEW t \in Task, WakeTask(t) PROVE Clear'
  BY <1>31 DEF WakeTask
<1>32. ASSUME NEW t \in Task, TaskAnswered(t) PROVE Clear'
  BY <1>32 DEF TaskAnswered
<1>33. ASSUME NEW t \in Task, Measure(t) PROVE Clear'
  BY <1>33 DEF Measure
<1>34. ASSUME NEW t \in Task, Finish(t) PROVE Clear'
  BY <1>34 DEF Finish
<1>35. ASSUME NEW t \in Task, TaskFails(t) PROVE Clear'
  BY <1>35 DEF TaskFails
<1>36. ASSUME NEW t \in Task, ExitTask(t) PROVE Clear'
  BY <1>36 DEF ExitTask
<1>37. CASE UNCHANGED vars
  BY <1>37 DEF vars
<1> QED BY <1>1, <1>2, <1>3, <1>4, <1>5, <1>6, <1>7, <1>8, <1>9, <1>10, <1>11, <1>12,
        <1>13, <1>14, <1>15, <1>16, <1>17, <1>18, <1>19, <1>20, <1>21, <1>22, <1>23,
        <1>24, <1>25, <1>26, <1>27, <1>28, <1>29, <1>30, <1>31, <1>32, <1>33, <1>34,
        <1>35, <1>36, <1>37 DEF Next, TurnStep, TaskStep

LEMMA WakeStep ==
  ASSUME Inv, [Next]_vars
  PROVE  NoLostWakeUp'
<1> USE SchedulerAssumption DEF Inv, TypeOK, NoLostWakeUp, GoTurn, GoTask, EndTurn, NotifyWaiters, TurnListening, TaskListening, SlotFree,
            storeVars, turnVars, taskVars, wokenVars, bootVars
<1>1. CASE Restart
  BY <1>1 DEF Restart
<1>2. ASSUME NEW a \in Agent, BeginTurn(a) PROVE NoLostWakeUp'
  BY <1>2 DEF BeginTurn
<1>3. ASSUME NEW a \in Agent, CheckPending(a) PROVE NoLostWakeUp'
  BY <1>3 DEF CheckPending, Cleared, OwesJob
<1>4. ASSUME NEW a \in Agent, LookAgain(a) PROVE NoLostWakeUp'
  BY <1>4 DEF LookAgain
<1>5. ASSUME NEW a \in Agent, Bail(a) PROVE NoLostWakeUp'
  BY <1>5 DEF Bail
<1>6. ASSUME NEW a \in Agent, Reread(a) PROVE NoLostWakeUp'
  BY <1>6 DEF Reread, Cleared, OwesJob
<1>7. ASSUME NEW a \in Agent, AwaitChange(a) PROVE NoLostWakeUp'
  BY <1>7 DEF AwaitChange
<1>8. ASSUME NEW a \in Agent, Verify(a) PROVE NoLostWakeUp'
  BY <1>8 DEF Verify, OwesJob
<1>9. ASSUME NEW a \in Agent, EnterQueue(a) PROVE NoLostWakeUp'
  BY <1>9 DEF EnterQueue
<1>10. ASSUME NEW a \in Agent, AdmitForeground(a) PROVE NoLostWakeUp'
  BY <1>10 DEF AdmitForeground
<1>11. ASSUME NEW a \in Agent, SleepForeground(a) PROVE NoLostWakeUp'
  BY <1>11 DEF SleepForeground
<1>12. ASSUME NEW a \in Agent, WakeForeground(a) PROVE NoLostWakeUp'
  BY <1>12 DEF WakeForeground
<1>13. ASSUME NEW a \in Agent, ReleaseWaiter(a) PROVE NoLostWakeUp'
  BY <1>13 DEF ReleaseWaiter
<1>14. ASSUME NEW a \in Agent, AnswerText(a) PROVE NoLostWakeUp'
  BY <1>14 DEF AnswerText, Answered
<1>15. ASSUME NEW a \in Agent, AnswerToolCalls(a) PROVE NoLostWakeUp'
  BY <1>15 DEF AnswerToolCalls, Answered
<1>16. ASSUME NEW a \in Agent, RejectCapacity(a) PROVE NoLostWakeUp'
  BY <1>16 DEF RejectCapacity, Answered
<1>17. ASSUME NEW a \in Agent, RunTools(a) PROVE NoLostWakeUp'
  BY <1>17 DEF RunTools
<1>18. ASSUME NEW a \in Agent, EnqueueRecovery(a) PROVE NoLostWakeUp'
  BY <1>18 DEF EnqueueRecovery
<1>19. ASSUME NEW a \in Agent, AfterAgent(a) PROVE NoLostWakeUp'
  BY <1>19 DEF AfterAgent, AfterDone, OwesJob
<1>20. ASSUME NEW a \in Agent, AbandonTurn(a) PROVE NoLostWakeUp'
  BY <1>20 DEF AbandonTurn, SlotsReleased, PriorityReleased
<1>21. ASSUME NEW a \in Agent, Resume(a) PROVE NoLostWakeUp'
  BY <1>21 DEF Resume, AdmitDeferred
<1>22. ASSUME NEW a \in Agent, AdmitOwn(a) PROVE NoLostWakeUp'
  BY <1>22 DEF AdmitOwn, AdmitDeferred
<1>23. ASSUME NEW a \in Agent, Readmit(a) PROVE NoLostWakeUp'
  BY <1>23 DEF Readmit, AdmitDeferred
<1>24. ASSUME NEW a \in Agent, HandOff(a) PROVE NoLostWakeUp'
  BY <1>24 DEF HandOff, AdmitDeferred, AfterDone
<1>25. ASSUME NEW a \in Agent, NEW due \in BOOLEAN, StoreReply(a, due) PROVE NoLostWakeUp'
  BY <1>25 DEF StoreReply
<1>26. ASSUME NEW t \in Task, Load(t) PROVE NoLostWakeUp'
  BY <1>26 DEF Load
<1>27. ASSUME NEW t \in Task, NothingToSummarize(t) PROVE NoLostWakeUp'
  BY <1>27 DEF NothingToSummarize
<1>28. ASSUME NEW t \in Task, StartSummary(t) PROVE NoLostWakeUp'
  BY <1>28 DEF StartSummary
<1>29. ASSUME NEW t \in Task, AdmitTask(t) PROVE NoLostWakeUp'
  BY <1>29 DEF AdmitTask, DeferredAllowed
<1>30. ASSUME NEW t \in Task, SleepTask(t) PROVE NoLostWakeUp'
  BY <1>30 DEF SleepTask, DeferredAllowed
<1>31. ASSUME NEW t \in Task, WakeTask(t) PROVE NoLostWakeUp'
  BY <1>31 DEF WakeTask
<1>32. ASSUME NEW t \in Task, TaskAnswered(t) PROVE NoLostWakeUp'
  BY <1>32 DEF TaskAnswered
<1>33. ASSUME NEW t \in Task, Measure(t) PROVE NoLostWakeUp'
  BY <1>33 DEF Measure
<1>34. ASSUME NEW t \in Task, Finish(t) PROVE NoLostWakeUp'
  BY <1>34 DEF Finish
<1>35. ASSUME NEW t \in Task, TaskFails(t) PROVE NoLostWakeUp'
  BY <1>35 DEF TaskFails
<1>36. ASSUME NEW t \in Task, ExitTask(t) PROVE NoLostWakeUp'
  BY <1>36 DEF ExitTask
<1>37. CASE UNCHANGED vars
  BY <1>37 DEF vars
<1> QED BY <1>1, <1>2, <1>3, <1>4, <1>5, <1>6, <1>7, <1>8, <1>9, <1>10, <1>11, <1>12,
        <1>13, <1>14, <1>15, <1>16, <1>17, <1>18, <1>19, <1>20, <1>21, <1>22, <1>23,
        <1>24, <1>25, <1>26, <1>27, <1>28, <1>29, <1>30, <1>31, <1>32, <1>33, <1>34,
        <1>35, <1>36, <1>37 DEF Next, TurnStep, TaskStep

LEMMA HeldStep ==
  ASSUME Inv, [Next]_vars
  PROVE  HeldJobStaysStored'
<1> USE SchedulerAssumption
    DEF SchedulerAssumption, Inv, storeVars, turnVars, taskVars, wokenVars, bootVars
<1>a. ASSUME UNCHANGED <<job, task, owner, held>> PROVE HeldJobStaysStored'
  BY <1>a DEF HeldJobStaysStored
<1>b. ASSUME NEW a \in Agent, AdmitDeferred(a), UNCHANGED job PROVE HeldJobStaysStored'
  BY <1>b DEF AdmitDeferred, GoTask, TypeOK, HeldJobStaysStored, Holding
<1>c. ASSUME NEW t \in Task, NEW place, GoTask(t, place),
             place \in Holding => task[t] \in Holding,
             UNCHANGED <<job, owner, held>>
      PROVE  HeldJobStaysStored'
  BY <1>c DEF GoTask, TypeOK, HeldJobStaysStored
<1>d. \A t \in Task : task[t] # "free" => owner[t] \in Agent
  BY DEF TaskShape, TypeOK
<1>1. CASE Restart
  BY <1>1 DEF Restart, HeldJobStaysStored, Holding
<1>2. ASSUME NEW a \in Agent, BeginTurn(a) PROVE HeldJobStaysStored'
  BY <1>2, <1>a DEF BeginTurn
<1>3. ASSUME NEW a \in Agent, CheckPending(a) PROVE HeldJobStaysStored'
  BY <1>3, <1>a DEF CheckPending
<1>4. ASSUME NEW a \in Agent, LookAgain(a) PROVE HeldJobStaysStored'
  BY <1>4, <1>a DEF LookAgain
<1>5. ASSUME NEW a \in Agent, Bail(a) PROVE HeldJobStaysStored'
  BY <1>5, <1>a DEF Bail
<1>6. ASSUME NEW a \in Agent, Reread(a) PROVE HeldJobStaysStored'
  BY <1>6, <1>a DEF Reread
<1>7. ASSUME NEW a \in Agent, AwaitChange(a) PROVE HeldJobStaysStored'
  BY <1>7, <1>a DEF AwaitChange
<1>8. ASSUME NEW a \in Agent, Verify(a) PROVE HeldJobStaysStored'
  BY <1>8, <1>a DEF Verify
<1>9. ASSUME NEW a \in Agent, EnterQueue(a) PROVE HeldJobStaysStored'
  BY <1>9, <1>a DEF EnterQueue
<1>10. ASSUME NEW a \in Agent, AdmitForeground(a) PROVE HeldJobStaysStored'
  BY <1>10, <1>a DEF AdmitForeground
<1>11. ASSUME NEW a \in Agent, SleepForeground(a) PROVE HeldJobStaysStored'
  BY <1>11, <1>a DEF SleepForeground
<1>12. ASSUME NEW a \in Agent, WakeForeground(a) PROVE HeldJobStaysStored'
  BY <1>12, <1>a DEF WakeForeground
<1>13. ASSUME NEW a \in Agent, ReleaseWaiter(a) PROVE HeldJobStaysStored'
  BY <1>13, <1>a DEF ReleaseWaiter
<1>14. ASSUME NEW a \in Agent, AnswerText(a) PROVE HeldJobStaysStored'
  BY <1>14, <1>a DEF AnswerText, Answered
<1>15. ASSUME NEW a \in Agent, AnswerToolCalls(a) PROVE HeldJobStaysStored'
  BY <1>15, <1>a DEF AnswerToolCalls, Answered
<1>16. ASSUME NEW a \in Agent, RejectCapacity(a) PROVE HeldJobStaysStored'
  BY <1>16, <1>a DEF RejectCapacity, Answered
<1>17. ASSUME NEW a \in Agent, RunTools(a) PROVE HeldJobStaysStored'
  BY <1>17, <1>a DEF RunTools
<1>18. ASSUME NEW a \in Agent, EnqueueRecovery(a) PROVE HeldJobStaysStored'
  <2>1. \A b \in Agent : job[b] # 0 => job'[b] = job[b]
    BY <1>18 DEF EnqueueRecovery, TypeOK
  <2>2. UNCHANGED <<task, owner, held>>
    BY <1>18 DEF EnqueueRecovery
  <2> QED BY <1>d, <2>1, <2>2 DEF HeldJobStaysStored, Holding
<1>19. ASSUME NEW a \in Agent, AfterAgent(a) PROVE HeldJobStaysStored'
  BY <1>19, <1>a DEF AfterAgent
<1>20. ASSUME NEW a \in Agent, AbandonTurn(a) PROVE HeldJobStaysStored'
  BY <1>20, <1>a DEF AbandonTurn
<1>21. ASSUME NEW a \in Agent, Resume(a) PROVE HeldJobStaysStored'
  BY <1>21, <1>b DEF Resume
<1>22. ASSUME NEW a \in Agent, AdmitOwn(a) PROVE HeldJobStaysStored'
  BY <1>22, <1>b DEF AdmitOwn
<1>23. ASSUME NEW a \in Agent, Readmit(a) PROVE HeldJobStaysStored'
  BY <1>23, <1>b DEF Readmit
<1>24. ASSUME NEW a \in Agent, HandOff(a) PROVE HeldJobStaysStored'
  BY <1>24, <1>b DEF HandOff
<1>25. ASSUME NEW a \in Agent, NEW due \in BOOLEAN, StoreReply(a, due) PROVE HeldJobStaysStored'
  <2>1. job[a] = 0
    BY <1>25 DEF StoreReply, Clear, Resolving
  <2>2. \A b \in Agent : job[b] # 0 => job'[b] = job[b]
    BY <1>25, <2>1 DEF StoreReply, TypeOK
  <2>3. UNCHANGED <<task, owner, held>>
    BY <1>25 DEF StoreReply
  <2> QED BY <1>d, <2>2, <2>3 DEF HeldJobStaysStored, Holding
<1>26. ASSUME NEW t \in Task, Load(t) PROVE HeldJobStaysStored'
  BY <1>26 DEF Load, GoTask, TypeOK, HeldJobStaysStored, Holding
<1>27. ASSUME NEW t \in Task, NothingToSummarize(t) PROVE HeldJobStaysStored'
  BY <1>27, <1>c DEF NothingToSummarize, Holding
<1>28. ASSUME NEW t \in Task, StartSummary(t) PROVE HeldJobStaysStored'
  BY <1>28, <1>c DEF StartSummary, Holding
<1>29. ASSUME NEW t \in Task, AdmitTask(t) PROVE HeldJobStaysStored'
  BY <1>29, <1>c DEF AdmitTask, Holding
<1>30. ASSUME NEW t \in Task, SleepTask(t) PROVE HeldJobStaysStored'
  BY <1>30, <1>c DEF SleepTask, Holding
<1>31. ASSUME NEW t \in Task, WakeTask(t) PROVE HeldJobStaysStored'
  BY <1>31, <1>c DEF WakeTask, Holding
<1>32. ASSUME NEW t \in Task, TaskAnswered(t) PROVE HeldJobStaysStored'
  BY <1>32, <1>c DEF TaskAnswered, Holding
<1>33. ASSUME NEW t \in Task, Measure(t) PROVE HeldJobStaysStored'
  BY <1>33, <1>c DEF Measure, Holding
<1>34. ASSUME NEW t \in Task, Finish(t) PROVE HeldJobStaysStored'
  <2>1. owner[t] \in Agent /\ owner[t] # NoAgent
    BY <1>34, <1>d DEF Finish
  <2>2. \A u \in Task : u # t => owner[u] # owner[t]
    BY <2>1 DEF TaskShape
  <2>3. \A b \in Agent : b # owner[t] => job'[b] = job[b]
    BY <1>34 DEF Finish, TypeOK
  <2>4. task'[t] \notin Holding /\ \A u \in Task : u # t => task'[u] = task[u]
    BY <1>34 DEF Finish, GoTask, TypeOK, Holding
  <2>5. UNCHANGED <<owner, held>>
    BY <1>34 DEF Finish
  <2>6. \A u \in Task : task[u] \in Holding => task[u] # "free"
    BY DEF Holding
  <2> QED BY <1>d, <2>2, <2>3, <2>4, <2>5, <2>6 DEF HeldJobStaysStored
<1>35. ASSUME NEW t \in Task, TaskFails(t) PROVE HeldJobStaysStored'
  BY <1>35, <1>c DEF TaskFails, Holding
<1>36. ASSUME NEW t \in Task, ExitTask(t) PROVE HeldJobStaysStored'
  BY <1>36 DEF ExitTask, GoTask, TypeOK, HeldJobStaysStored, Holding
<1>37. CASE UNCHANGED vars
  BY <1>37, <1>a DEF vars
<1> QED BY <1>1, <1>2, <1>3, <1>4, <1>5, <1>6, <1>7, <1>8, <1>9, <1>10, <1>11, <1>12,
        <1>13, <1>14, <1>15, <1>16, <1>17, <1>18, <1>19, <1>20, <1>21, <1>22, <1>23,
        <1>24, <1>25, <1>26, <1>27, <1>28, <1>29, <1>30, <1>31, <1>32, <1>33, <1>34,
        <1>35, <1>36, <1>37 DEF Next, TurnStep, TaskStep

-----------------------------------------------------------------------------
(* The theorems. *)

LEMMA NextInv ==
  ASSUME Inv, [Next]_vars
  PROVE  Inv'
  BY TypeStep, CountersStep, ShapeStep, ClearStep, WakeStep, HeldStep DEF Inv

(* The inductive invariant: slots and priorities are held by whom the      *)
(* counters of inference.rs say, each worker by the agent it serves.       *)
THEOREM Invariance == Spec => []Inv
<1>1. Init => Inv
  BY InitInv
<1>2. Inv /\ [Next]_vars => Inv'
  BY NextInv
<1> QED BY <1>1, <1>2, PTL DEF Spec

(* Every variable of the scheduler keeps its type; in particular the two   *)
(* usize counters of State never go below zero, however turns are dropped. *)
THEOREM TypeCorrect == Spec => []TypeOK
<1>1. Inv => TypeOK
  BY DEF Inv
<1> QED BY <1>1, Invariance, PTL

(* admit never lets more than max_concurrent_inferences requests through.  *)
THEOREM NeverOverAdmitted == Spec => []AdmissionBound
<1>1. Inv => AdmissionBound
  BY DEF Inv, CountersExact, AdmissionBound
<1> QED BY <1>1, Invariance, PTL

(* Neither a slot nor a foreground priority leaks or is given back twice.  *)
THEOREM NothingLeaks == Spec => []CountersExact
<1>1. Inv => CountersExact
  BY DEF Inv
<1> QED BY <1>1, Invariance, PTL

(* deferred_agents holds exactly the agents that have a worker, and each   *)
(* has one.                                                                *)
THEOREM OneWorkerEach == Spec => []OneTaskPerAgent
<1>1. Inv => OneTaskPerAgent
  <2> SUFFICES ASSUME Inv PROVE OneTaskPerAgent
    OBVIOUS
  <2>1. \A t \in Task : task[t] # "free" <=> owner[t] # NoAgent
    BY DEF Inv, TaskShape
  <2>2. deferredAgents \subseteq {owner[t] : t \in {u \in Task : task[u] # "free"}}
    <3> SUFFICES ASSUME NEW a \in deferredAgents
                 PROVE  \E t \in Task : task[t] # "free" /\ owner[t] = a
      OBVIOUS
    <3>1. a # NoAgent
      BY SchedulerAssumption DEF Inv, TypeOK, SchedulerAssumption
    <3> QED BY <2>1, <3>1 DEF Inv, TaskShape
  <2>3. {owner[t] : t \in {u \in Task : task[u] # "free"}} \subseteq deferredAgents
    BY <2>1 DEF Inv, TaskShape
  <2> QED BY <2>2, <2>3 DEF OneTaskPerAgent, Inv, TaskShape
<1> QED BY <1>1, Invariance, PTL

(* before_agent and the capacity recovery keep an agent from inferring     *)
(* over a history it owes a compaction for.                                *)
THEOREM NoInferenceOverDebt == Spec => []NoInferenceWhilePending
<1>1. Inv => NoInferenceWhilePending
  BY DEF Inv, Clear, NoInferenceWhilePending
<1> QED BY <1>1, Invariance, PTL

(* finish_compaction always finds the row its worker loaded.               *)
THEOREM HeldJobsStay == Spec => []HeldJobStaysStored
<1>1. Inv => HeldJobStaysStored
  BY DEF Inv
<1> QED BY <1>1, Invariance, PTL

(* wait_for_agent, admit and the compaction tasks never all wait: no       *)
(* wake-up is lost and no wait is circular, for any number of agents,      *)
(* tasks and slots.                                                        *)
THEOREM SomebodyGoesOn == Spec => []NoCircularWait
<1>1. ASSUME Inv, \A a \in Agent : ~RunnableTurn(a), \A t \in Task : ~RunnableTask(t)
      PROVE  (\A a \in Agent : turn[a] = "idle") /\ (\A t \in Task : task[t] = "free")
  <2>1. /\ \A a \in Agent : turn[a] \in {"idle", "asleep", "await"}
        /\ \A a \in Agent : turn[a] # "idle" => a \notin turnWoken
        /\ \A t \in Task : task[t] = "free" \/ (task[t] = "asleep" /\ t \notin taskWoken)
    BY <1>1 DEF RunnableTurn, RunnableTask
  <2>2. /\ ForegroundInferences = {} /\ DeferredInferences = {}
        /\ {a \in Agent : turn[a] = "admitted"} = {}
    BY <2>1 DEF ForegroundInferences, DeferredInferences, Admitted
  <2>3. running = 0
    BY <1>1, <2>2, FS_EmptySet DEF Inv, CountersExact
  <2>4. \A a \in Agent : turn[a] # "asleep"
    BY <1>1, <2>1, <2>3, SchedulerAssumption DEF Inv, NoLostWakeUp
  <2>5. foregroundWaiting = 0
    <3>1. ForegroundWaiters = {}
      BY <2>1, <2>4 DEF ForegroundWaiters, Waiting
    <3> QED BY <1>1, <2>2, <3>1, FS_EmptySet DEF Inv, CountersExact
  <2>6. \A t \in Task : task[t] = "free"
    BY <1>1, <2>1, <2>3, <2>5, SchedulerAssumption DEF Inv, NoLostWakeUp
  <2>7. deferredAgents = {}
    <3> SUFFICES ASSUME NEW a \in deferredAgents PROVE FALSE
      OBVIOUS
    <3>1. PICK t \in Task : owner[t] = a
      BY <1>1 DEF Inv, TaskShape
    <3>2. a # NoAgent
      BY <1>1, SchedulerAssumption DEF Inv, TypeOK
    <3> QED BY <1>1, <2>6, <3>1, <3>2 DEF Inv, TaskShape
  <2> QED BY <1>1, <2>1, <2>4, <2>6, <2>7 DEF Inv, NoLostWakeUp
<1>2. Inv => NoCircularWait
  BY <1>1 DEF NoCircularWait
<1> QED BY <1>2, Invariance, PTL

(* An inference of a task starts only by its admission. *)
LEMMA InferenceStarts ==
  ASSUME Inv, [Next]_vars, NEW t \in Task, task[t] # "infer", task'[t] = "infer"
  PROVE  AdmitTask(t)
<1> USE DEF Inv, TypeOK, GoTask, storeVars, turnVars, taskVars, wokenVars, bootVars
<1>1. CASE Restart
  BY <1>1 DEF Restart
<1>2. ASSUME NEW a \in Agent, BeginTurn(a) PROVE FALSE
  BY <1>2 DEF BeginTurn
<1>3. ASSUME NEW a \in Agent, CheckPending(a) PROVE FALSE
  BY <1>3 DEF CheckPending
<1>4. ASSUME NEW a \in Agent, LookAgain(a) PROVE FALSE
  BY <1>4 DEF LookAgain
<1>5. ASSUME NEW a \in Agent, Bail(a) PROVE FALSE
  BY <1>5 DEF Bail
<1>6. ASSUME NEW a \in Agent, Reread(a) PROVE FALSE
  BY <1>6 DEF Reread
<1>7. ASSUME NEW a \in Agent, AwaitChange(a) PROVE FALSE
  BY <1>7 DEF AwaitChange
<1>8. ASSUME NEW a \in Agent, Verify(a) PROVE FALSE
  BY <1>8 DEF Verify
<1>9. ASSUME NEW a \in Agent, EnterQueue(a) PROVE FALSE
  BY <1>9 DEF EnterQueue
<1>10. ASSUME NEW a \in Agent, AdmitForeground(a) PROVE FALSE
  BY <1>10 DEF AdmitForeground
<1>11. ASSUME NEW a \in Agent, SleepForeground(a) PROVE FALSE
  BY <1>11 DEF SleepForeground
<1>12. ASSUME NEW a \in Agent, WakeForeground(a) PROVE FALSE
  BY <1>12 DEF WakeForeground
<1>13. ASSUME NEW a \in Agent, ReleaseWaiter(a) PROVE FALSE
  BY <1>13 DEF ReleaseWaiter
<1>14. ASSUME NEW a \in Agent, AnswerText(a) PROVE FALSE
  BY <1>14 DEF AnswerText, Answered
<1>15. ASSUME NEW a \in Agent, AnswerToolCalls(a) PROVE FALSE
  BY <1>15 DEF AnswerToolCalls, Answered
<1>16. ASSUME NEW a \in Agent, RejectCapacity(a) PROVE FALSE
  BY <1>16 DEF RejectCapacity, Answered
<1>17. ASSUME NEW a \in Agent, RunTools(a) PROVE FALSE
  BY <1>17 DEF RunTools
<1>18. ASSUME NEW a \in Agent, EnqueueRecovery(a) PROVE FALSE
  BY <1>18 DEF EnqueueRecovery
<1>19. ASSUME NEW a \in Agent, AfterAgent(a) PROVE FALSE
  BY <1>19 DEF AfterAgent
<1>20. ASSUME NEW a \in Agent, AbandonTurn(a) PROVE FALSE
  BY <1>20 DEF AbandonTurn
<1>21. ASSUME NEW a \in Agent, Resume(a) PROVE FALSE
  BY <1>21 DEF Resume, AdmitDeferred
<1>22. ASSUME NEW a \in Agent, AdmitOwn(a) PROVE FALSE
  BY <1>22 DEF AdmitOwn, AdmitDeferred
<1>23. ASSUME NEW a \in Agent, Readmit(a) PROVE FALSE
  BY <1>23 DEF Readmit, AdmitDeferred
<1>24. ASSUME NEW a \in Agent, HandOff(a) PROVE FALSE
  BY <1>24 DEF HandOff, AdmitDeferred
<1>25. ASSUME NEW a \in Agent, NEW due \in BOOLEAN, StoreReply(a, due) PROVE FALSE
  BY <1>25 DEF StoreReply
<1>26. ASSUME NEW u \in Task, Load(u) PROVE FALSE
  BY <1>26 DEF Load
<1>27. ASSUME NEW u \in Task, NothingToSummarize(u) PROVE FALSE
  BY <1>27 DEF NothingToSummarize
<1>28. ASSUME NEW u \in Task, StartSummary(u) PROVE FALSE
  BY <1>28 DEF StartSummary
<1>29. ASSUME NEW u \in Task, AdmitTask(u) PROVE AdmitTask(t)
  BY <1>29 DEF AdmitTask
<1>30. ASSUME NEW u \in Task, SleepTask(u) PROVE FALSE
  BY <1>30 DEF SleepTask
<1>31. ASSUME NEW u \in Task, WakeTask(u) PROVE FALSE
  BY <1>31 DEF WakeTask
<1>32. ASSUME NEW u \in Task, TaskAnswered(u) PROVE FALSE
  BY <1>32 DEF TaskAnswered
<1>33. ASSUME NEW u \in Task, Measure(u) PROVE FALSE
  BY <1>33 DEF Measure
<1>34. ASSUME NEW u \in Task, Finish(u) PROVE FALSE
  BY <1>34 DEF Finish
<1>35. ASSUME NEW u \in Task, TaskFails(u) PROVE FALSE
  BY <1>35 DEF TaskFails
<1>36. ASSUME NEW u \in Task, ExitTask(u) PROVE FALSE
  BY <1>36 DEF ExitTask
<1>37. CASE UNCHANGED vars
  BY <1>37 DEF vars
<1> QED BY <1>1, <1>2, <1>3, <1>4, <1>5, <1>6, <1>7, <1>8, <1>9, <1>10, <1>11, <1>12,
        <1>13, <1>14, <1>15, <1>16, <1>17, <1>18, <1>19, <1>20, <1>21, <1>22, <1>23,
        <1>24, <1>25, <1>26, <1>27, <1>28, <1>29, <1>30, <1>31, <1>32, <1>33, <1>34,
        <1>35, <1>36, <1>37 DEF Next, TurnStep, TaskStep

(* Deferred work is admitted only when no player-visible request waits.    *)
THEOREM ForegroundFirst == Spec => DeferredYields
<1>1. ASSUME Inv, [Next]_vars, NEW t \in Task, task[t] # "infer", task'[t] = "infer"
      PROVE  ForegroundWaiters = {}
  <2>1. foregroundWaiting = 0
    BY <1>1, InferenceStarts DEF AdmitTask, DeferredAllowed
  <2>2. foregroundWaiting = FgWaiters + FgAdmitted
    BY <1>1 DEF Inv, CountersExact, FgWaiters, FgAdmitted
  <2>3. FgWaiters = 0
    BY <2>1, <2>2, CountTypes
  <2> QED BY <2>3, CountedSetsFinite, FS_EmptySet DEF FgWaiters
<1>2. Inv /\ [Next]_vars =>
        \A t \in Task : task[t] # "infer" /\ task'[t] = "infer" => ForegroundWaiters = {}
  BY <1>1
<1> QED BY <1>2, Invariance, PTL DEF Spec, DeferredYields

(* A stored job changes only when the task that loaded it retires it. *)
LEMMA JobChanges ==
  ASSUME Inv, [Next]_vars, NEW a \in Agent, job[a] # 0, job'[a] # job[a]
  PROVE  \E t \in Task : Finish(t) /\ owner[t] = a /\ held[t] = job[a] /\ job'[a] = 0
<1> USE DEF Inv, TypeOK, storeVars, turnVars, taskVars, wokenVars, bootVars
<1>1. CASE Restart
  BY <1>1 DEF Restart
<1>2. ASSUME NEW b \in Agent, BeginTurn(b) PROVE FALSE
  BY <1>2 DEF BeginTurn
<1>3. ASSUME NEW b \in Agent, CheckPending(b) PROVE FALSE
  BY <1>3 DEF CheckPending
<1>4. ASSUME NEW b \in Agent, LookAgain(b) PROVE FALSE
  BY <1>4 DEF LookAgain
<1>5. ASSUME NEW b \in Agent, Bail(b) PROVE FALSE
  BY <1>5 DEF Bail
<1>6. ASSUME NEW b \in Agent, Reread(b) PROVE FALSE
  BY <1>6 DEF Reread
<1>7. ASSUME NEW b \in Agent, AwaitChange(b) PROVE FALSE
  BY <1>7 DEF AwaitChange
<1>8. ASSUME NEW b \in Agent, Verify(b) PROVE FALSE
  BY <1>8 DEF Verify
<1>9. ASSUME NEW b \in Agent, EnterQueue(b) PROVE FALSE
  BY <1>9 DEF EnterQueue
<1>10. ASSUME NEW b \in Agent, AdmitForeground(b) PROVE FALSE
  BY <1>10 DEF AdmitForeground
<1>11. ASSUME NEW b \in Agent, SleepForeground(b) PROVE FALSE
  BY <1>11 DEF SleepForeground
<1>12. ASSUME NEW b \in Agent, WakeForeground(b) PROVE FALSE
  BY <1>12 DEF WakeForeground
<1>13. ASSUME NEW b \in Agent, ReleaseWaiter(b) PROVE FALSE
  BY <1>13 DEF ReleaseWaiter
<1>14. ASSUME NEW b \in Agent, AnswerText(b) PROVE FALSE
  BY <1>14 DEF AnswerText, Answered
<1>15. ASSUME NEW b \in Agent, AnswerToolCalls(b) PROVE FALSE
  BY <1>15 DEF AnswerToolCalls, Answered
<1>16. ASSUME NEW b \in Agent, RejectCapacity(b) PROVE FALSE
  BY <1>16 DEF RejectCapacity, Answered
<1>17. ASSUME NEW b \in Agent, RunTools(b) PROVE FALSE
  BY <1>17 DEF RunTools
<1>18. ASSUME NEW b \in Agent, EnqueueRecovery(b) PROVE FALSE
  BY <1>18 DEF EnqueueRecovery
<1>19. ASSUME NEW b \in Agent, AfterAgent(b) PROVE FALSE
  BY <1>19 DEF AfterAgent
<1>20. ASSUME NEW b \in Agent, AbandonTurn(b) PROVE FALSE
  BY <1>20 DEF AbandonTurn
<1>21. ASSUME NEW b \in Agent, Resume(b) PROVE FALSE
  BY <1>21 DEF Resume
<1>22. ASSUME NEW b \in Agent, AdmitOwn(b) PROVE FALSE
  BY <1>22 DEF AdmitOwn
<1>23. ASSUME NEW b \in Agent, Readmit(b) PROVE FALSE
  BY <1>23 DEF Readmit
<1>24. ASSUME NEW b \in Agent, HandOff(b) PROVE FALSE
  BY <1>24 DEF HandOff
<1>25. ASSUME NEW b \in Agent, NEW due \in BOOLEAN, StoreReply(b, due) PROVE FALSE
  BY <1>25 DEF StoreReply, Clear, Resolving
<1>26. ASSUME NEW t \in Task, Load(t) PROVE FALSE
  BY <1>26 DEF Load
<1>27. ASSUME NEW t \in Task, NothingToSummarize(t) PROVE FALSE
  BY <1>27 DEF NothingToSummarize
<1>28. ASSUME NEW t \in Task, StartSummary(t) PROVE FALSE
  BY <1>28 DEF StartSummary
<1>29. ASSUME NEW t \in Task, AdmitTask(t) PROVE FALSE
  BY <1>29 DEF AdmitTask
<1>30. ASSUME NEW t \in Task, SleepTask(t) PROVE FALSE
  BY <1>30 DEF SleepTask
<1>31. ASSUME NEW t \in Task, WakeTask(t) PROVE FALSE
  BY <1>31 DEF WakeTask
<1>32. ASSUME NEW t \in Task, TaskAnswered(t) PROVE FALSE
  BY <1>32 DEF TaskAnswered
<1>33. ASSUME NEW t \in Task, Measure(t) PROVE FALSE
  BY <1>33 DEF Measure
<1>34. ASSUME NEW t \in Task, Finish(t)
      PROVE  owner[t] = a /\ held[t] = job[a] /\ job'[a] = 0
  BY <1>34 DEF Finish
<1>35. ASSUME NEW t \in Task, TaskFails(t) PROVE FALSE
  BY <1>35 DEF TaskFails
<1>36. ASSUME NEW t \in Task, ExitTask(t) PROVE FALSE
  BY <1>36 DEF ExitTask
<1>37. CASE UNCHANGED vars
  BY <1>37 DEF vars
<1> QED BY <1>1, <1>2, <1>3, <1>4, <1>5, <1>6, <1>7, <1>8, <1>9, <1>10, <1>11, <1>12,
        <1>13, <1>14, <1>15, <1>16, <1>17, <1>18, <1>19, <1>20, <1>21, <1>22, <1>23,
        <1>24, <1>25, <1>26, <1>27, <1>28, <1>29, <1>30, <1>31, <1>32, <1>33, <1>34,
        <1>35, <1>36, <1>37 DEF Next, TurnStep, TaskStep

(* Crashes, failed tasks, dropped turns and further enqueues leave every   *)
(* stored compaction job as it is.                                         *)
THEOREM StoredJobsSurvive == Spec => JobsAreDurable
<1>1. Inv /\ [Next]_vars =>
        \A a \in Agent :
          job[a] # 0 /\ job'[a] # job[a] =>
            /\ job'[a] = 0
            /\ \E t \in Task : owner[t] = a /\ held[t] = job[a] /\ task[t] = "finish"
  BY JobChanges DEF Finish
<1> QED BY <1>1, Invariance, PTL DEF Spec, JobsAreDurable
=============================================================================
