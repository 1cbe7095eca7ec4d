---------------------------- MODULE Compaction ----------------------------
(***************************************************************************)
(* The history of one agent and its compaction: compaction.rs, the tables  *)
(* of store.rs it works on, and the parts of context.rs and agent.rs that  *)
(* grow the history and decide that a compaction is due.                   *)
(*                                                                         *)
(* Sizes are exact: every row, summary and prompt has a number of tokens,  *)
(* and the arithmetic that decides rejections, passes and due compactions  *)
(* is the code's.  Who may run when is the subject of module Scheduler:    *)
(* here admitting a worker, and its retiring the job and leaving, are one  *)
(* step each, and a turn asks only when no job is stored.  Reading the     *)
(* history and acting on what was read are steps of their own wherever the *)
(* second writes to the store: rows may be written between them.           *)
(***************************************************************************)
EXTENDS Naturals, Sequences

CONSTANTS
  KeepTail,         \* limits.keep_tail_messages
  MaxInput,         \* limits.max_context_tokens - limits.max_output_tokens
  MaxOutput,        \* limits.max_output_tokens
  Threshold,        \* limits.compact_before_next_input_tokens
  MaxChat,          \* limits.max_inferences_per_chat
  Static,           \* tokens of the standing instructions and tools
  Prompt,           \* tokens of the compaction prompt
  RowSize,          \* sizes of user messages, tool results and narrations
  MaxRows,          \* bound: message rows
  MaxRestarts       \* bound: crashes followed by a restart

ASSUME CompactionAssumption ==
  /\ KeepTail \in Nat \ {0}
  /\ MaxInput \in Nat \ {0}
  /\ MaxOutput \in Nat \ {0}
  /\ Threshold \in 1..MaxInput
  /\ MaxChat \in Nat \ {0}
  /\ Static \in Nat
  /\ Prompt \in Nat
  /\ RowSize \subseteq Nat
  /\ MaxRows \in Nat
  /\ MaxRestarts \in Nat

VARIABLES           \* SQLite: survives a crash
  written,          \* written[i]: tokens of the first i message rows together
  summaries,        \* summary rows in the order they were inserted
  job               \* next_input_tokens of the pending_compaction row (0: none)
VARIABLES           \* the agent's turn
  turn,             \* where it is
  asked,            \* input tokens of the request it has with the model
  spent             \* inferences charged to this turn
VARIABLES           \* the compaction task
  worker,           \* where it is ("off": the agent is not in deferred_agents)
  recipe,           \* what its request summarizes
  keep,             \* rows the fallback retains
  previous,         \* size of the next context before this fallback pass
  failed            \* the scheduler's failures holds an error for the agent
VARIABLE restarts
VARIABLE            \* auxiliary, read by no guard
  seen              \* rows there were when the task last read the history

turnVars   == <<turn, asked, spent>>
passVars   == <<recipe, keep, previous, seen>>
workerVars == <<worker, passVars, failed>>
vars == <<written, summaries, job, turnVars, workerVars, restarts>>

TurnPlace   == {"idle", "check", "wait", "spend", "request", "capacity", "recover",
                "infer", "tools"}
Inferring   == {"ordinary", "pass"}
Retiring    == {"nothing", "small"}     \* has decided so, and not yet written it
WorkerPlace == {"off", "admitted", "fallback", "measure"} \cup Inferring \cup Retiring

-----------------------------------------------------------------------------
(* Rows are numbered from 1: row i is the one with seq = i - 1, so that a  *)
(* summary with covers_to_seq = c - 1 covers the rows 1..c.                *)

Rows == Len(written)

TokensTo(i) == IF i = 0 THEN 0 ELSE written[i]

Tokens(from, to) == TokensTo(to) - TokensTo(from)   \* of the rows from+1..to

WriteRow(n) == written' = Append(written, TokensTo(Rows) + n)

(* The bound leaves a turn the rows it needs to end: a result and a reply. *)
Room   == Rows < MaxRows
Roomy  == Rows + 2 < MaxRows

(* told: the rows a summary speaks for, through the recorded recipe of its *)
(* inference and of the summary that recipe starts from; first: the first  *)
(* row it was shown as it was written.                                     *)
NoSummary == [covers |-> 0, tokens |-> 0, first |-> 0, told |-> {}]

OldestSummary == IF summaries = <<>> THEN NoSummary ELSE summaries[1]  \* faulty order

(* latest_summary: the largest covers_to_seq. *)
LatestSummary ==
  IF summaries = <<>> THEN NoSummary
  ELSE summaries[CHOOSE i \in DOMAIN summaries :
         \A j \in DOMAIN summaries : summaries[j].covers <= summaries[i].covers]

Covered == LatestSummary.covers

(* tail_split, as the number of the last row that is not retained. *)
SplitPastTail(k) == IF Covered + k <= Rows + 1           \* faulty: off by one
                    THEN Rows + 1 - k ELSE Covered
TailSplit(k) == IF Covered + k < Rows THEN Rows - k ELSE Covered

(* The recipe of a summary that retains the newest k rows, and its input.  *)
RecipeAfresh(k) == [covers |-> TailSplit(k), first |-> Covered + 1,  \* faulty: no rolling
                    told |-> (Covered + 1)..TailSplit(k)]
Recipe(k) == [covers |-> TailSplit(k), first |-> Covered + 1,
              told |-> LatestSummary.told \cup (Covered + 1)..TailSplit(k)]

RecipeSize(k) == Prompt + LatestSummary.tokens + Tokens(Covered, TailSplit(k))

NoRecipe == [covers |-> 0, first |-> 0, told |-> {}]

(* history_segments behind the static ones: the next request of a turn. *)
ContextUpTo(i) == Static + LatestSummary.tokens + Tokens(Covered, i)
ContextSize    == ContextUpTo(Rows)

(* The library answers a request it cannot give max_output_tokens to with  *)
(* ContextLengthExceeded.                                                  *)
Fits(tokens) == tokens <= MaxInput

StoreSummary(n) ==
  summaries' = Append(summaries, [covers |-> recipe.covers, tokens |-> n,
                                  first |-> recipe.first, told |-> recipe.told])

ReadHistory == seen' = Rows

WorkerEnds ==
  /\ worker' = "off"
  /\ recipe' = NoRecipe
  /\ keep' = 0
  /\ previous' = 0
  /\ seen' = 0

GoTurn(place) == turn' = place

EndTurn == GoTurn("idle") /\ asked' = 0 /\ spent' = 0

AdmitDeferred == worker' = IF worker = "off" THEN "admitted" ELSE worker

-----------------------------------------------------------------------------
Init ==
  /\ written = <<>>
  /\ summaries = <<>>
  /\ job = 0
  /\ turn = "idle"
  /\ asked = 0
  /\ spent = 0
  /\ worker = "off"
  /\ recipe = NoRecipe
  /\ keep = 0
  /\ previous = 0
  /\ failed = FALSE
  /\ restarts = 0
  /\ seen = 0

(* Only the tables are left; load_game admits the stored job again. *)
Restart ==
  /\ restarts < MaxRestarts
  /\ restarts' = restarts + 1
  /\ EndTurn
  /\ worker' = IF job = 0 THEN "off" ELSE "admitted"
  /\ recipe' = NoRecipe
  /\ keep' = 0
  /\ previous' = 0
  /\ seen' = 0
  /\ failed' = FALSE
  /\ UNCHANGED <<written, summaries, job>>

(* append_location_narration, at any moment of a turn or a compaction. *)
Narrate ==
  /\ Roomy
  /\ \E n \in RowSize : WriteRow(n)
  /\ UNCHANGED <<summaries, job, turnVars, workerVars, restarts>>

-----------------------------------------------------------------------------
(* The turn. *)

(* A player's message is stored before its turn begins; the turns of GMs   *)
(* and openings begin with what the history already holds.                 *)
BeginTurn ==
  /\ turn = "idle"
  /\ \/ Room /\ UNCHANGED written
     \/ Roomy /\ \E n \in RowSize : WriteRow(n)
  /\ GoTurn("check")
  /\ UNCHANGED <<summaries, job, asked, spent, workerVars, restarts>>

(* before_agent: a stored job is admitted and waited for. *)
CheckPending ==
  /\ turn = "check"
  /\ IF job = 0
     THEN GoTurn("spend") /\ UNCHANGED worker
     ELSE GoTurn("wait") /\ AdmitDeferred
  /\ UNCHANGED <<written, summaries, job, asked, spent, passVars, failed, restarts>>

Bail ==
  /\ turn \in {"wait", "recover"}
  /\ failed
  /\ failed' = FALSE
  /\ EndTurn
  /\ UNCHANGED <<written, summaries, job, worker, passVars, restarts>>

(* After a capacity recovery the request is sent again without a charge. *)
WaitOver ==
  /\ turn \in {"wait", "recover"}
  /\ ~failed
  /\ worker = "off"
  /\ job = 0
  /\ GoTurn(IF turn = "recover" THEN "request" ELSE "spend")
  /\ UNCHANGED <<written, summaries, job, asked, spent, workerVars, restarts>>

SpendFreely ==                               \* faulty: the bound is not looked at
  /\ turn = "spend"
  /\ GoTurn("request")
  /\ spent' = spent + 1
  /\ UNCHANGED <<written, summaries, job, asked, workerVars, restarts>>

(* Budget::spend. *)
Spend ==
  /\ turn = "spend"
  /\ IF spent = MaxChat
     THEN EndTurn
     ELSE GoTurn("request") /\ spent' = spent + 1 /\ UNCHANGED asked
  /\ UNCHANGED <<written, summaries, job, workerVars, restarts>>

(* complete_recorded assembles the context and hands it to the model. *)
Ask ==
  /\ turn = "request"
  /\ asked' = ContextSize
  /\ GoTurn(IF Fits(ContextSize) THEN "infer" ELSE "capacity")
  /\ UNCHANGED <<written, summaries, job, spent, workerVars, restarts>>

(* enqueue_capacity_compaction fails where there is no history, and leaves *)
(* a stored job alone; after_agent and before_agent then admit and wait.   *)
Recover ==
  /\ turn = "capacity"
  /\ IF Rows = 0
     THEN EndTurn /\ UNCHANGED <<job, worker>>
     ELSE /\ job' = IF job = 0 THEN asked ELSE job
          /\ AdmitDeferred
          /\ GoTurn("recover")
          /\ UNCHANGED <<asked, spent>>
  /\ UNCHANGED <<written, summaries, passVars, failed, restarts>>

(* The final text and the job it makes due are one transaction. *)
Reply(n) ==
  /\ turn = "infer"
  /\ WriteRow(n)
  /\ EndTurn
  /\ IF asked + n >= Threshold
     THEN job' = asked + n /\ AdmitDeferred
     ELSE UNCHANGED <<job, worker>>
  /\ UNCHANGED <<summaries, passVars, failed, restarts>>

CallTools(n) ==
  /\ turn = "infer"
  /\ Roomy
  /\ WriteRow(n)
  /\ GoTurn("tools")
  /\ UNCHANGED <<summaries, job, asked, spent, workerVars, restarts>>

ToolResult ==
  /\ turn = "tools"
  /\ \E n \in RowSize : WriteRow(n)
  /\ GoTurn("spend")
  /\ UNCHANGED <<summaries, job, asked, spent, workerVars, restarts>>

(* A backend, store or tool error, or a caller that goes away. *)
AbandonTurn ==
  /\ turn # "idle"
  /\ EndTurn
  /\ UNCHANGED <<written, summaries, job, workerVars, restarts>>

-----------------------------------------------------------------------------
(* The worker: compaction::run. *)

(* summary_segments finds nothing older than the tail. *)
NothingToSummarize ==
  /\ worker = "admitted"
  /\ TailSplit(KeepTail) <= Covered
  /\ ReadHistory
  /\ worker' = "nothing"
  /\ UNCHANGED <<written, summaries, job, turnVars, recipe, keep, previous, failed, restarts>>

(* finish_compaction without a summary, a transaction later: the history   *)
(* is not looked at again.                                                 *)
Retire ==
  /\ worker \in Retiring
  /\ job' = 0
  /\ WorkerEnds
  /\ UNCHANGED <<written, summaries, turnVars, failed, restarts>>

(* One ordinary request, unmeasured. *)
AskOrdinary ==
  /\ worker = "admitted"
  /\ TailSplit(KeepTail) > Covered
  /\ Fits(RecipeSize(KeepTail))
  /\ ReadHistory
  /\ worker' = "ordinary"
  /\ recipe' = Recipe(KeepTail)
  /\ UNCHANGED <<written, summaries, job, turnVars, keep, previous, failed, restarts>>

(* It was rejected: the fallback measures before it asks. *)
EnterFallback ==
  /\ worker = "admitted"
  /\ TailSplit(KeepTail) > Covered
  /\ ~Fits(RecipeSize(KeepTail))
  /\ ReadHistory
  /\ worker' = "fallback"
  /\ keep' = KeepTail
  /\ previous' = job
  /\ UNCHANGED <<written, summaries, job, turnVars, recipe, failed, restarts>>

(* finish_compaction: summary and retirement in one transaction. *)
FinishOrdinary(n) ==
  /\ worker = "ordinary"
  /\ StoreSummary(n)
  /\ job' = 0
  /\ WorkerEnds
  /\ UNCHANGED <<written, turnVars, failed, restarts>>

RetainSame ==                                \* faulty: keep is not incremented
  /\ worker = "fallback"
  /\ TailSplit(keep) > Covered
  /\ ~Fits(RecipeSize(keep))
  /\ UNCHANGED vars

RetainMore ==
  /\ worker = "fallback"
  /\ TailSplit(keep) > Covered
  /\ ~Fits(RecipeSize(keep))
  /\ ReadHistory
  /\ keep' = keep + 1
  /\ UNCHANGED <<written, summaries, job, turnVars, worker, recipe, previous, failed, restarts>>

AskFallback ==
  /\ worker = "fallback"
  /\ TailSplit(keep) > Covered
  /\ Fits(RecipeSize(keep))
  /\ ReadHistory
  /\ worker' = "pass"
  /\ recipe' = Recipe(keep)
  /\ UNCHANGED <<written, summaries, job, turnVars, keep, previous, failed, restarts>>

StorePassRetiring(n) ==                      \* faulty: retires what is not finished
  /\ worker = "pass"
  /\ StoreSummary(n)
  /\ job' = 0
  /\ worker' = "measure"
  /\ recipe' = NoRecipe
  /\ UNCHANGED <<written, turnVars, keep, previous, seen, failed, restarts>>

(* append_summary: the job stays. *)
StorePass(n) ==
  /\ worker = "pass"
  /\ StoreSummary(n)
  /\ worker' = "measure"
  /\ recipe' = NoRecipe
  /\ UNCHANGED <<written, job, turnVars, keep, previous, seen, failed, restarts>>

(* The next context, measured: small enough, still too large but smaller.  *)
OnePassIsEnough ==                           \* faulty: not compared
  /\ worker = "measure"
  /\ ReadHistory
  /\ worker' = "small"
  /\ UNCHANGED <<written, summaries, job, turnVars, recipe, keep, previous, failed, restarts>>

BelowThreshold ==
  /\ worker = "measure"
  /\ ContextSize < Threshold
  /\ ReadHistory
  /\ worker' = "small"
  /\ UNCHANGED <<written, summaries, job, turnVars, recipe, keep, previous, failed, restarts>>

NextPass ==
  /\ worker = "measure"
  /\ ContextSize \in Threshold..(previous - 1)
  /\ ReadHistory
  /\ worker' = "fallback"
  /\ previous' = ContextSize
  /\ keep' = KeepTail
  /\ UNCHANGED <<written, summaries, job, turnVars, recipe, failed, restarts>>

(* The fallback has nothing left to summarize or has not made it smaller.  *)
Irreducible ==
  \/ worker = "fallback" /\ TailSplit(keep) <= Covered
  \/ worker = "measure" /\ ContextSize >= Threshold /\ ContextSize >= previous

FailSilently == WorkerEnds /\ UNCHANGED failed   \* faulty: nobody is told
Fail == WorkerEnds /\ failed' = TRUE

GiveUp ==
  /\ Irreducible
  /\ Fail
  /\ UNCHANGED <<written, summaries, job, turnVars, restarts>>

(* A backend or store error, or tool calls instead of a text. *)
Break ==
  /\ worker # "off"
  /\ Fail
  /\ UNCHANGED <<written, summaries, job, turnVars, restarts>>

-----------------------------------------------------------------------------
TurnStep ==
  \/ CheckPending \/ Bail \/ WaitOver \/ Spend \/ Ask \/ Recover \/ ToolResult
  \/ \E n \in 1..MaxOutput : Reply(n) \/ CallTools(n)

Summarized ==
  \E n \in 1..MaxOutput : FinishOrdinary(n) \/ StorePass(n)

WorkerStep ==
  \/ NothingToSummarize \/ AskOrdinary \/ EnterFallback
  \/ RetainMore \/ AskFallback \/ BelowThreshold \/ NextPass \/ GiveUp
  \/ Retire \/ Summarized

Next ==
  \/ BeginTurn \/ TurnStep \/ AbandonTurn
  \/ WorkerStep \/ Break
  \/ Narrate \/ Restart

Spec == Init /\ [][Next]_vars

(* The runtime polls every future that can go on, and the model answers.   *)
(* Nothing makes a player write, a caller go away or a backend break.      *)
Fairness == WF_vars(TurnStep) /\ WF_vars(WorkerStep)

FairSpec == Spec /\ Fairness

-----------------------------------------------------------------------------
SummaryRecipe == [covers : Nat, first : Nat, told : SUBSET Nat]
SummaryRow    == [covers : Nat, first : Nat, told : SUBSET Nat, tokens : 1..MaxOutput]

(* Every variable stays in its range, and sizes are natural numbers.       *)
TypeOK ==
  /\ written \in Seq(Nat)
  /\ summaries \in Seq(SummaryRow)
  /\ job \in Nat
  /\ turn \in TurnPlace
  /\ asked \in Nat
  /\ spent \in 0..MaxChat
  /\ worker \in WorkerPlace
  /\ recipe \in SummaryRecipe
  /\ keep \in Nat
  /\ previous \in Nat
  /\ failed \in BOOLEAN
  /\ restarts \in 0..MaxRestarts
  /\ seen \in Nat

(* Through whatever mixture of ordinary summaries, fallback passes,        *)
(* failures and restarts it came about, a summary speaks for every row up  *)
(* to covers_to_seq and for no other: nothing an agent was told falls      *)
(* between the summary and the raw rows of its next context.               *)
SummariesAreWhole ==
  \A i \in DOMAIN summaries : summaries[i].told = 1..summaries[i].covers

(* No row is read by two stored summaries, so a restart or a failure       *)
(* between the passes of a fallback resumes from the stored prefix and no  *)
(* two rows violate UNIQUE (agent_id, covers_to_seq).                      *)
RowsReadOnce ==
  \A i, j \in DOMAIN summaries : i < j => summaries[i].covers < summaries[j].first

(* When a summary becomes visible at least the newest KeepTail rows stay   *)
(* as they were written, whatever was written while it was inferred.       *)
TailStaysRaw ==
  [][summaries' # summaries =>
       summaries'[Len(summaries')].covers + KeepTail <= Rows]_vars

(* A job leaves the table only after its task has read the history and     *)
(* worked off what it read: of those rows at most KeepTail are left raw,   *)
(* or they make a context below the threshold.  Whatever else is raw then  *)
(* was written since, by narrations of other players' turns.               *)
JobsDoTheirWork ==
  [][job # 0 /\ job' = 0 =>
       /\ seen > 0
       /\ \/ seen <= Covered' + KeepTail
          \/ ContextUpTo(seen) < Threshold]_vars

(* A compaction ends: its loops over larger tails and further passes run   *)
(* out of rows.                                                            *)
CompactionsEnd == worker # "off" ~> worker = "off"

(* A turn ends: with its reply, or with the error of a bound or a failed   *)
(* compaction, and the agent is free again.                                *)
TurnsEnd == turn # "idle" ~> turn = "idle"

History == INSTANCE RollingHistory WITH
  rows <- Rows, covered <- Covered, owed <- job # 0

(* Every step of the tables is one the abstract history allows.            *)
ImplementsHistory == History!Spec
=============================================================================
