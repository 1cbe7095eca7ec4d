----------------------------- MODULE Scheduler -----------------------------
(***************************************************************************)
(* src/inference.rs together with the parts of agent.rs, context.rs,       *)
(* compaction.rs and store.rs whose order it controls: the agent turns     *)
(* (foreground), the compaction tasks they leave behind (deferred), the    *)
(* admission counters they share and the durable pending_compaction table. *)
(*                                                                         *)
(* One action per critical section of the scheduler's mutex or per store   *)
(* call: what happens between two awaits is one step, everything else      *)
(* interleaves.  Histories, prompts and summaries are abstracted: a model  *)
(* answer, and whether a reply makes a compaction due, is a free choice.   *)
(***************************************************************************)
EXTENDS Naturals, FiniteSets

CONSTANTS
  Agent,          \* agents, each of a world of its own
  Task,           \* slots for spawned tokio tasks
  NoAgent,        \* owner of a free slot
  Cap,            \* limits.max_concurrent_inferences
  MaxMessages,    \* bound: message rows per agent
  MaxPasses,      \* bound: fallback passes that can still lower the measured size
  MaxRejections,  \* bound: capacity rejections in one turn
  MaxRestarts     \* bound: crashes followed by a restart

ASSUME SchedulerAssumption ==
  /\ IsFiniteSet(Agent)
  /\ IsFiniteSet(Task)
  /\ NoAgent \notin Agent
  /\ Cap \in Nat \ {0}
  /\ MaxMessages \in Nat
  /\ MaxPasses \in Nat
  /\ MaxRejections \in Nat
  /\ MaxRestarts \in Nat

VARIABLES           \* SQLite: survives a crash
  lastMessage,      \* newest message row of each agent (0: none)
  job               \* after_message_id of its pending_compaction row (0: none)
VARIABLES           \* State, under the scheduler's mutex
  running,
  foregroundWaiting,
  deferredAgents,
  failures          \* per agent: "none", "missing" (no job found) or "failed"
VARIABLES           \* the turn of each agent
  turn,             \* where it is
  recovering,       \* agents whose before_agent call follows a capacity rejection
  rejected,         \* capacity rejections of the current turn
  outcome,          \* result of the last turn: "none", "replied" or "failed"
  turnWoken         \* turns whose Notified future has fired
VARIABLES           \* the spawned compaction tasks
  task,             \* where each is ("free": slot not in use)
  owner,            \* the agent it works for
  held,             \* the job it loaded (0: none yet)
  pass,             \* 0: ordinary summary, k > 0: k-th fallback pass
  taskWoken         \* tasks whose Notified future has fired
VARIABLES           \* the process
  toResume,         \* agents resume() has read and not yet admitted
  restarts

storeVars == <<lastMessage, job>>
turnVars  == <<turn, recovering, rejected, outcome>>
taskVars  == <<task, owner, held, pass>>
wokenVars == <<turnWoken, taskWoken>>
bootVars  == <<toResume, restarts>>
vars == <<storeVars, running, foregroundWaiting, deferredAgents, failures,
          turnVars, taskVars, wokenVars, bootVars>>

-----------------------------------------------------------------------------
(* Places of a turn and of a task. *)

Waiting   == {"queued", "asleep"}       \* holds a ForegroundWaiter, no Admission
Admitted  == {"admitted", "infer"}      \* holds an Admission
Resolving == {"request", "reply", "tools"} \cup Waiting \cup Admitted
Deciding  == {"check", "admit", "look", "reread", "readmit", "await", "verify"}
TurnPlace == {"idle", "capacity", "after", "handoff"} \cup Deciding \cup Resolving

Holding   == {"loaded", "queued", "asleep", "infer", "fallback", "measure", "finish"}
Ending    == {"ended", "missing", "failed"}
TaskPlace == {"free", "spawned"} \cup Holding \cup Ending

(* Where a Notified future exists that nobody has polled to completion. *)
TurnListeningForSlots == {"asleep"}  \* faulty: wait_for_agent misses wake-ups
TurnListening == {"reread", "readmit", "await", "asleep"}
TaskListening == {"asleep"}

NotifyNobody == UNCHANGED wokenVars   \* faulty: no wake-up at all

(* Notify::notify_waiters: fires every future that exists at that moment. *)
NotifyWaiters ==
  /\ turnWoken' = {a \in Agent : turn'[a] \in TurnListening}
  /\ taskWoken' = {t \in Task : task'[t] \in TaskListening}

GoTurn(a, place) == turn' = [turn EXCEPT ![a] = place]
GoTask(t, place) == task' = [task EXCEPT ![t] = place]

EndTurn(a, result) ==
  /\ GoTurn(a, "idle")
  /\ outcome' = [outcome EXCEPT ![a] = result]
  /\ recovering' = recovering \ {a}
  /\ rejected' = [rejected EXCEPT ![a] = 0]

(* Faulty: a second task for an agent that already has one. *)
AdmitDeferredAgain(a) ==
  /\ deferredAgents' = deferredAgents \cup {a}
  /\ \E t \in Task :
       /\ task[t] = "free"
       /\ GoTask(t, "spawned")
       /\ owner' = [owner EXCEPT ![t] = a]
  /\ UNCHANGED <<held, pass>>

(* admit_deferred: at most one task per agent, the rest is the task's own. *)
AdmitDeferred(a) ==
  \/ /\ a \in deferredAgents
     /\ UNCHANGED <<deferredAgents, taskVars>>
  \/ /\ a \notin deferredAgents
     /\ deferredAgents' = deferredAgents \cup {a}
     /\ \E t \in Task :
          /\ task[t] = "free"
          /\ GoTask(t, "spawned")
          /\ owner' = [owner EXCEPT ![t] = a]
     /\ UNCHANGED <<held, pass>>

OneSlotMore == running <= Cap            \* faulty: off by one
SlotFree == running < Cap

DeferredIgnoresWaiters == SlotFree       \* faulty: no priority
DeferredAllowed == SlotFree /\ foregroundWaiting = 0

OwesUnservedJob(a) == job[a] # 0 /\ a \notin deferredAgents  \* faulty: admitted is not settled
OwesJob(a) == job[a] # 0

-----------------------------------------------------------------------------
(* Startup: resume() admits every stored job before the server listens. *)

Init ==
  /\ lastMessage = [a \in Agent |-> 0]
  /\ job = [a \in Agent |-> 0]
  /\ running = 0
  /\ foregroundWaiting = 0
  /\ deferredAgents = {}
  /\ failures = [a \in Agent |-> "none"]
  /\ turn = [a \in Agent |-> "idle"]
  /\ recovering = {}
  /\ rejected = [a \in Agent |-> 0]
  /\ outcome = [a \in Agent |-> "none"]
  /\ turnWoken = {}
  /\ task = [t \in Task |-> "free"]
  /\ owner = [t \in Task |-> NoAgent]
  /\ held = [t \in Task |-> 0]
  /\ pass = [t \in Task |-> 0]
  /\ taskWoken = {}
  /\ toResume = {}
  /\ restarts = 0

(* The process dies at any moment: only the tables are left, and the next  *)
(* start reads the pending jobs.                                           *)
Restart ==
  /\ restarts < MaxRestarts
  /\ restarts' = restarts + 1
  /\ running' = 0
  /\ foregroundWaiting' = 0
  /\ deferredAgents' = {}
  /\ failures' = [a \in Agent |-> "none"]
  /\ turn' = [a \in Agent |-> "idle"]
  /\ recovering' = {}
  /\ rejected' = [a \in Agent |-> 0]
  /\ outcome' = [a \in Agent |-> "none"]
  /\ turnWoken' = {}
  /\ task' = [t \in Task |-> "free"]
  /\ owner' = [t \in Task |-> NoAgent]
  /\ held' = [t \in Task |-> 0]
  /\ pass' = [t \in Task |-> 0]
  /\ taskWoken' = {}
  /\ toResume' = {a \in Agent : job[a] # 0}
  /\ UNCHANGED storeVars

Resume(a) ==
  /\ a \in toResume
  /\ toResume' = toResume \ {a}
  /\ AdmitDeferred(a)
  /\ UNCHANGED <<storeVars, running, foregroundWaiting, failures, turnVars,
                 wokenVars, restarts>>

-----------------------------------------------------------------------------
(* before_agent / wait_for_agent. *)

(* The caller stores the triggering message, then enters the agent loop. *)
BeginTurn(a) ==
  /\ toResume = {}
  /\ turn[a] = "idle"
  /\ lastMessage[a] + 2 <= MaxMessages
  /\ lastMessage' = [lastMessage EXCEPT ![a] = @ + 1]
  /\ GoTurn(a, "check")
  /\ outcome' = [outcome EXCEPT ![a] = "none"]
  /\ UNCHANGED <<job, running, foregroundWaiting, deferredAgents, failures,
                 recovering, rejected, taskVars, wokenVars, bootVars>>

Cleared(a) == IF a \in recovering THEN "verify" ELSE "request"

CheckPending(a) ==
  /\ turn[a] = "check"
  /\ GoTurn(a, IF OwesJob(a) THEN "admit" ELSE Cleared(a))
  /\ UNCHANGED <<storeVars, running, foregroundWaiting, deferredAgents, failures,
                 recovering, rejected, outcome, taskVars, wokenVars, bootVars>>

AdmitOwn(a) ==
  /\ turn[a] = "admit"
  /\ AdmitDeferred(a)
  /\ GoTurn(a, "look")
  /\ UNCHANGED <<storeVars, running, foregroundWaiting, failures,
                 recovering, rejected, outcome, wokenVars, bootVars>>

(* Loop head: a new future, then one look at the state under the mutex. *)
LookAgain(a) ==
  /\ turn[a] = "look"
  /\ failures[a] = "none"
  /\ GoTurn(a, IF a \in deferredAgents THEN "await" ELSE "reread")
  /\ turnWoken' = turnWoken \ {a}
  /\ UNCHANGED <<storeVars, running, foregroundWaiting, deferredAgents, failures,
                 recovering, rejected, outcome, taskVars, taskWoken, bootVars>>

Bail(a) ==
  /\ turn[a] = "look"
  /\ failures[a] # "none"
  /\ failures' = [failures EXCEPT ![a] = "none"]
  /\ EndTurn(a, "failed")
  /\ UNCHANGED <<storeVars, running, foregroundWaiting, deferredAgents,
                 taskVars, wokenVars, bootVars>>

Reread(a) ==
  /\ turn[a] = "reread"
  /\ \/ /\ ~OwesJob(a)
        /\ GoTurn(a, Cleared(a))
        /\ turnWoken' = turnWoken \ {a}
     \/ /\ OwesJob(a)
        /\ GoTurn(a, "readmit")
        /\ UNCHANGED turnWoken
  /\ UNCHANGED <<storeVars, running, foregroundWaiting, deferredAgents, failures,
                 recovering, rejected, outcome, taskVars, taskWoken, bootVars>>

Readmit(a) ==
  /\ turn[a] = "readmit"
  /\ AdmitDeferred(a)
  /\ GoTurn(a, "await")
  /\ UNCHANGED <<storeVars, running, foregroundWaiting, failures,
                 recovering, rejected, outcome, wokenVars, bootVars>>

AwaitChange(a) ==
  /\ turn[a] = "await"
  /\ a \in turnWoken
  /\ GoTurn(a, "look")
  /\ turnWoken' = turnWoken \ {a}
  /\ UNCHANGED <<storeVars, running, foregroundWaiting, deferredAgents, failures,
                 recovering, rejected, outcome, taskVars, taskWoken, bootVars>>

(* context.rs re-reads the job after a capacity recovery before it retries. *)
Verify(a) ==
  /\ turn[a] = "verify"
  /\ IF OwesJob(a)
     THEN EndTurn(a, "failed")
     ELSE /\ GoTurn(a, "request")
          /\ recovering' = recovering \ {a}
          /\ UNCHANGED <<rejected, outcome>>
  /\ UNCHANGED <<storeVars, running, foregroundWaiting, deferredAgents, failures,
                 taskVars, wokenVars, bootVars>>

-----------------------------------------------------------------------------
(* admit(Foreground), the inference, and what its answer leads to. *)

EnterQueue(a) ==
  /\ turn[a] = "request"
  /\ foregroundWaiting' = foregroundWaiting + 1
  /\ GoTurn(a, "queued")
  /\ UNCHANGED task
  /\ NotifyWaiters
  /\ UNCHANGED <<storeVars, running, deferredAgents, failures,
                 recovering, rejected, outcome, owner, held, pass, bootVars>>

AdmitForeground(a) ==
  /\ turn[a] = "queued"
  /\ SlotFree
  /\ running' = running + 1
  /\ GoTurn(a, "admitted")
  /\ UNCHANGED <<storeVars, foregroundWaiting, deferredAgents, failures,
                 recovering, rejected, outcome, taskVars, wokenVars, bootVars>>

SleepForeground(a) ==
  /\ turn[a] = "queued"
  /\ ~SlotFree
  /\ GoTurn(a, "asleep")
  /\ turnWoken' = turnWoken \ {a}
  /\ UNCHANGED <<storeVars, running, foregroundWaiting, deferredAgents, failures,
                 recovering, rejected, outcome, taskVars, taskWoken, bootVars>>

WakeForeground(a) ==
  /\ turn[a] = "asleep"
  /\ a \in turnWoken
  /\ GoTurn(a, "queued")
  /\ turnWoken' = turnWoken \ {a}
  /\ UNCHANGED <<storeVars, running, foregroundWaiting, deferredAgents, failures,
                 recovering, rejected, outcome, taskVars, taskWoken, bootVars>>

(* The waiter is released in a critical section of its own. *)
ReleaseWaiter(a) ==
  /\ turn[a] = "admitted"
  /\ foregroundWaiting' = foregroundWaiting - 1
  /\ GoTurn(a, "infer")
  /\ UNCHANGED task
  /\ NotifyWaiters
  /\ UNCHANGED <<storeVars, running, deferredAgents, failures,
                 recovering, rejected, outcome, owner, held, pass, bootVars>>

(* The admission is dropped as the backend returns, before the answer is   *)
(* recorded: tools and nested agents run without holding a slot.           *)
Answered(a, place) ==
  /\ turn[a] = "infer"
  /\ running' = running - 1
  /\ GoTurn(a, place)
  /\ UNCHANGED task
  /\ NotifyWaiters
  /\ UNCHANGED <<storeVars, foregroundWaiting, deferredAgents, failures,
                 recovering, rejected, outcome, owner, held, pass, bootVars>>

AnswerText(a) == Answered(a, "reply")

AnswerToolCalls(a) == lastMessage[a] + 2 <= MaxMessages /\ Answered(a, "tools")

RejectCapacity(a) == rejected[a] < MaxRejections /\ Answered(a, "capacity")

RunTools(a) ==
  /\ turn[a] = "tools"
  /\ lastMessage' = [lastMessage EXCEPT ![a] = @ + 1]
  /\ GoTurn(a, "request")
  /\ UNCHANGED <<job, running, foregroundWaiting, deferredAgents, failures,
                 recovering, rejected, outcome, taskVars, wokenVars, bootVars>>

(* enqueue_capacity_compaction: ON CONFLICT DO NOTHING. *)
EnqueueRecovery(a) ==
  /\ turn[a] = "capacity"
  /\ job' = [job EXCEPT ![a] = IF @ = 0 THEN lastMessage[a] ELSE @]
  /\ GoTurn(a, "after")
  /\ recovering' = recovering \cup {a}
  /\ rejected' = [rejected EXCEPT ![a] = @ + 1]
  /\ UNCHANGED <<lastMessage, running, foregroundWaiting, deferredAgents, failures,
                 outcome, taskVars, wokenVars, bootVars>>

(* append_reply_and_enqueue_compaction: one transaction, which a job that  *)
(* already exists aborts.                                                  *)
StoreReply(a, due) ==
  /\ turn[a] = "reply"
  /\ IF due /\ job[a] # 0
     THEN EndTurn(a, "failed") /\ UNCHANGED storeVars
     ELSE /\ lastMessage' = [lastMessage EXCEPT ![a] = @ + 1]
          /\ job' = IF due THEN [job EXCEPT ![a] = lastMessage[a] + 1] ELSE job
          /\ GoTurn(a, "after")
          /\ UNCHANGED <<recovering, rejected, outcome>>
  /\ UNCHANGED <<running, foregroundWaiting, deferredAgents, failures,
                 taskVars, wokenVars, bootVars>>

-----------------------------------------------------------------------------
(* after_agent: read the job, then admit a task for it. *)

AfterDone(a) ==
  IF a \in recovering
  THEN GoTurn(a, "check") /\ UNCHANGED <<recovering, rejected, outcome>>
  ELSE EndTurn(a, "replied")

AfterAgent(a) ==
  /\ turn[a] = "after"
  /\ IF OwesJob(a)
     THEN GoTurn(a, "handoff") /\ UNCHANGED <<recovering, rejected, outcome>>
     ELSE AfterDone(a)
  /\ UNCHANGED <<storeVars, running, foregroundWaiting, deferredAgents, failures,
                 taskVars, wokenVars, bootVars>>

HandOff(a) ==
  /\ turn[a] = "handoff"
  /\ AdmitDeferred(a)
  /\ AfterDone(a)
  /\ UNCHANGED <<storeVars, running, foregroundWaiting, failures, wokenVars, bootVars>>

(* What the guards of a turn release when its future is dropped. *)
SlotsReleased(a)      == IF turn[a] = "infer" THEN 1 ELSE 0
PriorityLeaked(a)     == 0                                                  \* faulty
PriorityReleased(a)   == IF turn[a] = "asleep" THEN 1 ELSE 0

(* The turn's future ends early at an await: a store or backend error, an  *)
(* exhausted budget, a tool that fails, or a caller that drops it.         *)
AbandonTurn(a) ==
  /\ turn[a] \in TurnPlace \ {"idle", "admit", "look", "readmit", "queued", "admitted", "handoff"}
  /\ EndTurn(a, "failed")
  /\ running' = running - SlotsReleased(a)
  /\ foregroundWaiting' = foregroundWaiting - PriorityReleased(a)
  /\ UNCHANGED task
  /\ IF turn[a] \in {"infer", "asleep"}
     THEN NotifyWaiters
     ELSE turnWoken' = turnWoken \ {a} /\ UNCHANGED taskWoken
  /\ UNCHANGED <<storeVars, deferredAgents, failures, owner, held, pass, bootVars>>

-----------------------------------------------------------------------------
(* The spawned task: compaction::run under admit(Deferred). *)

(* Faulty: the job is taken out of the table as it is loaded. *)
TakeJob(t) ==
  /\ task[t] = "spawned"
  /\ IF job[owner[t]] # 0
     THEN /\ GoTask(t, "loaded")
          /\ held' = [held EXCEPT ![t] = job[owner[t]]]
          /\ job' = [job EXCEPT ![owner[t]] = 0]
     ELSE GoTask(t, "missing") /\ UNCHANGED <<held, job>>
  /\ UNCHANGED <<lastMessage, running, foregroundWaiting, deferredAgents, failures,
                 turnVars, owner, pass, wokenVars, bootVars>>

Load(t) ==
  /\ task[t] = "spawned"
  /\ IF job[owner[t]] # 0
     THEN GoTask(t, "loaded") /\ held' = [held EXCEPT ![t] = job[owner[t]]]
     ELSE GoTask(t, "missing") /\ UNCHANGED held
  /\ UNCHANGED <<storeVars, running, foregroundWaiting, deferredAgents, failures,
                 turnVars, owner, pass, wokenVars, bootVars>>

(* Only the retained tail exists: the job is retired with a notice alone. *)
NothingToSummarize(t) ==
  /\ task[t] = "loaded"
  /\ GoTask(t, "finish")
  /\ UNCHANGED <<storeVars, running, foregroundWaiting, deferredAgents, failures,
                 turnVars, owner, held, pass, wokenVars, bootVars>>

StartSummary(t) ==
  /\ \/ task[t] = "loaded" /\ UNCHANGED pass
     \/ task[t] = "fallback" /\ pass[t] < MaxPasses /\ pass' = [pass EXCEPT ![t] = @ + 1]
  /\ GoTask(t, "queued")
  /\ UNCHANGED <<storeVars, running, foregroundWaiting, deferredAgents, failures,
                 turnVars, owner, held, wokenVars, bootVars>>

AdmitTask(t) ==
  /\ task[t] = "queued"
  /\ DeferredAllowed
  /\ running' = running + 1
  /\ GoTask(t, "infer")
  /\ UNCHANGED <<storeVars, foregroundWaiting, deferredAgents, failures,
                 turnVars, owner, held, pass, wokenVars, bootVars>>

SleepTask(t) ==
  /\ task[t] = "queued"
  /\ ~DeferredAllowed
  /\ GoTask(t, "asleep")
  /\ taskWoken' = taskWoken \ {t}
  /\ UNCHANGED <<storeVars, running, foregroundWaiting, deferredAgents, failures,
                 turnVars, owner, held, pass, turnWoken, bootVars>>

WakeTask(t) ==
  /\ task[t] = "asleep"
  /\ t \in taskWoken
  /\ GoTask(t, "queued")
  /\ taskWoken' = taskWoken \ {t}
  /\ UNCHANGED <<storeVars, running, foregroundWaiting, deferredAgents, failures,
                 turnVars, owner, held, pass, turnWoken, bootVars>>

(* Summary text, a capacity rejection (which the ordinary pass answers     *)
(* with the fallback), or any other error or answer.                       *)
TaskAnswered(t) ==
  /\ task[t] = "infer"
  /\ running' = running - 1
  /\ \E place \in IF pass[t] = 0 THEN {"finish", "fallback", "failed"}
                                 ELSE {"measure", "failed"} :
       GoTask(t, place)
  /\ UNCHANGED turn
  /\ NotifyWaiters
  /\ UNCHANGED <<storeVars, foregroundWaiting, deferredAgents, failures,
                 recovering, rejected, outcome, owner, held, pass, bootVars>>

(* A fallback pass stored its rolling summary: done below the threshold,   *)
(* another pass otherwise.                                                 *)
Measure(t) ==
  /\ task[t] = "measure"
  /\ \E place \in {"finish", "fallback"} : GoTask(t, place)
  /\ UNCHANGED <<storeVars, running, foregroundWaiting, deferredAgents, failures,
                 turnVars, owner, held, pass, wokenVars, bootVars>>

(* finish_compaction: deletes exactly the row it loaded, or fails. *)
Finish(t) ==
  /\ task[t] = "finish"
  /\ IF job[owner[t]] = held[t]
     THEN job' = [job EXCEPT ![owner[t]] = 0] /\ GoTask(t, "ended")
     ELSE UNCHANGED job /\ GoTask(t, "failed")
  /\ UNCHANGED <<lastMessage, running, foregroundWaiting, deferredAgents, failures,
                 turnVars, owner, held, pass, wokenVars, bootVars>>

(* A store, tokenizer or ensure! error ends the run with the job kept. *)
TaskFails(t) ==
  /\ task[t] \in {"spawned", "loaded", "fallback", "measure", "finish"}
  /\ GoTask(t, "failed")
  /\ UNCHANGED <<storeVars, running, foregroundWaiting, deferredAgents, failures,
                 turnVars, owner, held, pass, wokenVars, bootVars>>

ExitTask(t) ==
  /\ task[t] \in Ending
  /\ deferredAgents' = deferredAgents \ {owner[t]}
  /\ failures' = IF task[t] = "ended" THEN failures
                 ELSE [failures EXCEPT ![owner[t]] = task[t]]
  /\ GoTask(t, "free")
  /\ owner' = [owner EXCEPT ![t] = NoAgent]
  /\ held' = [held EXCEPT ![t] = 0]
  /\ pass' = [pass EXCEPT ![t] = 0]
  /\ UNCHANGED turn
  /\ NotifyWaiters
  /\ UNCHANGED <<storeVars, running, foregroundWaiting,
                 recovering, rejected, outcome, bootVars>>

-----------------------------------------------------------------------------
TurnStep(a) ==
  \/ CheckPending(a) \/ AdmitOwn(a) \/ LookAgain(a) \/ Bail(a)
  \/ Reread(a) \/ Readmit(a) \/ AwaitChange(a) \/ Verify(a)
  \/ EnterQueue(a) \/ AdmitForeground(a) \/ SleepForeground(a)
  \/ WakeForeground(a) \/ ReleaseWaiter(a)
  \/ AnswerText(a) \/ AnswerToolCalls(a) \/ RejectCapacity(a)
  \/ RunTools(a) \/ EnqueueRecovery(a)
  \/ \E due \in BOOLEAN : StoreReply(a, due)
  \/ AfterAgent(a) \/ HandOff(a)

TaskStep(t) ==
  \/ Load(t) \/ NothingToSummarize(t) \/ StartSummary(t)
  \/ AdmitTask(t) \/ SleepTask(t) \/ WakeTask(t) \/ TaskAnswered(t)
  \/ Measure(t) \/ Finish(t) \/ TaskFails(t) \/ ExitTask(t)

Next ==
  \/ Restart
  \/ \E a \in Agent : Resume(a) \/ BeginTurn(a) \/ TurnStep(a) \/ AbandonTurn(a)
  \/ \E t \in Task : TaskStep(t)

Spec == Init /\ [][Next]_vars

(* The tokio runtime polls every woken task and the backend answers every  *)
(* admitted request; nothing makes a trigger arrive, a turn be abandoned   *)
(* or the process die.                                                     *)
Fairness ==
  /\ \A a \in Agent : WF_vars(Resume(a)) /\ WF_vars(TurnStep(a))
  /\ \A t \in Task : WF_vars(TaskStep(t))

FairSpec == Spec /\ Fairness

-----------------------------------------------------------------------------
(* Properties. *)

(* Every variable stays in the range the code gives it. *)
TypeOK ==
  /\ lastMessage \in [Agent -> Nat]
  /\ job \in [Agent -> Nat]
  /\ running \in Nat
  /\ foregroundWaiting \in Nat
  /\ deferredAgents \subseteq Agent
  /\ failures \in [Agent -> {"none", "missing", "failed"}]
  /\ turn \in [Agent -> TurnPlace]
  /\ recovering \subseteq Agent
  /\ rejected \in [Agent -> Nat]
  /\ outcome \in [Agent -> {"none", "replied", "failed"}]
  /\ turnWoken \subseteq Agent
  /\ task \in [Task -> TaskPlace]
  /\ owner \in [Task -> Agent \cup {NoAgent}]
  /\ held \in [Task -> Nat]
  /\ pass \in [Task -> Nat]
  /\ taskWoken \subseteq Task
  /\ toResume \subseteq Agent
  /\ restarts \in Nat

ForegroundInferences == {a \in Agent : turn[a] \in Admitted}
DeferredInferences   == {t \in Task : task[t] = "infer"}
ForegroundWaiters    == {a \in Agent : turn[a] \in Waiting}

(* The model is never given more requests than the configured cap, however *)
(* turns and compaction tasks start, finish and are dropped (the test      *)
(* admission_never_exceeds_the_configured_cap, for every interleaving).    *)
AdmissionBound ==
  Cardinality(ForegroundInferences) + Cardinality(DeferredInferences) <= Cap

(* No slot and no priority leaks: the counters say exactly who holds an    *)
(* admission and who waits for one, also after a turn was dropped (the     *)
(* comment on ForegroundWaiter: else deferred work would starve).          *)
CountersExact ==
  /\ running = Cardinality(ForegroundInferences) + Cardinality(DeferredInferences)
  /\ foregroundWaiting = Cardinality(ForegroundWaiters)
                         + Cardinality({a \in Agent : turn[a] = "admitted"})

(* At most one compaction task works for an agent, and the agent is in     *)
(* deferred_agents for exactly as long as the task exists.                 *)
OneTaskPerAgent ==
  /\ \A t, u \in Task : owner[t] = owner[u] /\ owner[t] # NoAgent => t = u
  /\ deferredAgents = {owner[t] : t \in {u \in Task : task[u] # "free"}}

(* From assembling its context to storing its reply, a turn runs only      *)
(* while its agent owes no compaction: the same history is never inferred  *)
(* over again, the transaction that stores the reply never meets a job,    *)
(* and a turn that waited out its own capacity recovery finds it settled.  *)
NoInferenceWhilePending ==
  \A a \in Agent : turn[a] \in Resolving \cup {"verify"} => job[a] = 0

(* A task that loaded a job finds that same job in the table until it      *)
(* retires it: "compaction job changed before it could complete" never     *)
(* happens, although the reply and the capacity path write the row too.    *)
HeldJobStaysStored ==
  \A t \in Task : task[t] \in Holding => job[owner[t]] = held[t] /\ held[t] # 0

(* Who can take the next step: whoever does not wait, and whoever was       *)
(* notified.                                                               *)
RunnableTurn(a) == turn[a] # "idle" /\ (turn[a] \in {"asleep", "await"} => a \in turnWoken)
RunnableTask(t) == task[t] # "free" /\ (task[t] = "asleep" => t \in taskWoken)

(* At no moment do all wait: as long as a turn or a task is under way one  *)
(* of them can go on, whatever is triggered, dropped or failing.  A turn   *)
(* waits for a task, tasks for foreground requests, and both for a slot,   *)
(* each in a future that fires only if somebody calls notify_waiters.      *)
NoCircularWait ==
  (\E a \in Agent : turn[a] # "idle") \/ (\E t \in Task : task[t] # "free") =>
    (\E a \in Agent : RunnableTurn(a)) \/ (\E t \in Task : RunnableTask(t))

(* No deferred inference is admitted while a player-visible request waits. *)
DeferredYields ==
  [][ \A t \in Task :
        task[t] # "infer" /\ task'[t] = "infer" => ForegroundWaiters = {} ]_vars

(* A job leaves the table only by the hand of the task that loaded it, and *)
(* is never replaced: not by a crash, a failed task, a dropped turn or a   *)
(* second enqueue.                                                         *)
JobsAreDurable ==
  [][ \A a \in Agent :
        job[a] # 0 /\ job'[a] # job[a] =>
          /\ job'[a] = 0
          /\ \E t \in Task : owner[t] = a /\ held[t] = job[a] /\ task[t] = "finish" ]_vars

(* After a finite burst of triggers every turn comes to an end: no wake-up *)
(* is lost, and turns waiting for jobs, jobs waiting for foreground work   *)
(* and both waiting for a slot never block one another.                    *)
TurnsSettle ==
  \A a \in Agent : turn[a] # "idle" ~> turn[a] = "idle"

(* Likewise every spawned task ends, so its agent leaves deferred_agents.  *)
TasksSettle ==
  \A a \in Agent : a \in deferredAgents ~> a \notin deferredAgents

(* What the documentation says of failures: a turn is held back, and       *)
(* refused, only on account of work that is there to be done.  A task      *)
(* reports a missing job only if somebody lost one.                        *)
NoPhantomFailure ==
  \A a \in Agent : failures[a] # "missing"

(* What the documentation says of a due compaction: once the reply is      *)
(* delivered it is being worked on, until it is done or has failed.        *)
QueuedWorkIsServed ==
  \A a \in Agent :
    turn[a] = "idle" /\ outcome[a] = "replied" /\ job[a] # 0 =>
      \/ failures[a] # "none"
      \/ \E t \in Task : owner[t] = a /\ task[t] # "ended"
=============================================================================
