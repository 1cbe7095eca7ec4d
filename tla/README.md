# Verification of Cairnworld

TLA+ models of the Cairnworld server (`src/` of the repository, Rust), TLC
configurations that check them on small instances, and TLAPS proofs of what
matters most for every size.

Cairnworld runs role-play worlds whose inhabitants (a player's narrator, a
location, characters) are language-model agents. One process holds one loaded
model, one SQLite file and any number of web sockets. Everything that is hard to
test in it comes from three things: agent turns and background compactions that
share the model's slots, histories that are compacted while they are being used,
and worlds whose events, sockets and openings interleave.

## The system: components, state, operations

| component | state | operations | interacts with |
|---|---|---|---|
| Inference scheduler (`inference.rs`) | `running`, `foreground_waiting`, `deferred_agents`, `failures` under one mutex; one `Notify` | `admit`, `admit_deferred`, `wait_for_agent`, `resume`, the drops of `ForegroundWaiter` and `Admission`, `before_agent`, `after_agent`, `complete` | called by the agent loop and by compaction; reads `pending_compaction`; spawns tasks |
| Agent turn loop (`agent.rs`, `tools.rs`) | call stack of agents, inference budget, chat count | `complete_with_call_context`: wait, infer, store, run tools, repeat | scheduler, context, store, tools that call other agents |
| Context and recorded completion (`context.rs`) | none of its own | `segments`, `complete_recipe`, `complete_recorded` with its capacity recovery | store, backend |
| Compaction (`compaction.rs`) | none of its own; summaries in the store | `run`, `summary_segments`, `run_fallback` | runs as a deferred task of the scheduler |
| Store (`store.rs`, `migrations/`) | SQLite: users, worlds, members, invitations, agents, messages, summaries, pending compactions, notices, inferences, items, rolls, pending actions | one transaction per operation, over a single connection | everybody |
| World processing (`game.rs`) | per world an mpsc queue of 64 and a processor; a map of openings with their watchers | `player_message`, `resolve_enter`, `wait_for_opening`, `world_events`, `arbitrate`, `deliver_narration` | agent loop, store, web |
| Web (`web.rs`) | the game being loaded, sessions, one task per socket, ready broadcasts | login, invitations, `play_connection` | game, store, browser |
| Browser client (`ui.rs`) | messages shown, the pending one | socket messages in, chat out | web |
| Membership | member and invitation rows | invite, accept, remove, join | web, store |
| Items, rolls, pending actions | their rows | tools of a location agent, player approval | game, store |
| Scenario and settings | none (files) | load, `validate` | start-up |
| mistral.rs backend (`mistralrs_backend.rs`, `llm.rs`) | the model (external) | `input_tokens`, `complete`, assembly of streamed tool calls | scheduler |
| Command line (`main.rs`) | none | `serve`, `chat`, `replay`; `load_game` resumes stored jobs | all |

What makes each correct, and what is hard about it:

* **Scheduler.** Never more requests than slots; player-visible requests first;
  no slot or priority lost when a future is dropped; at most one compaction task
  for an agent; an agent does not infer over a history it owes a compaction for;
  no lost wake-up; stored jobs survive anything. Hard because every `.await` is
  an interleaving point and a cancellation point.
* **Compaction.** The summary covers a prefix of the history, once, and the
  retained tail follows it without a gap; the fallback's loop ends; a failure
  between its passes loses nothing. Hard at the boundaries of the split and when
  messages arrive during the run.
* **Agent loop.** A message sequence a model can be given (every tool call
  answered, contiguously); no agent inside itself; budgets that bound the work of
  one trigger. Hard when a tool fails or calls back into another agent.
* **World.** Events of a world one at a time and in order; an opening runs once
  and everybody who waits for it is answered. Hard with several connections and
  a failing opening.
* **Sockets.** Each message shown once, in the order of the store. Hard because
  broadcast and catch-up overlap.
* **Membership, actions.** No double approval, no action decided that its player
  did not just submit, no use of a removed member's rights, no token used beyond
  its limit, nothing lost or doubled by a trigger that fails halfway. Hard across
  separate transactions, and because members come and go during a turn.
* **Recorded inferences.** A record rebuilds the request it was sent with, however
  the history, its summaries and the program's prompts have changed since. Hard
  because records hold references and not text.
* **Streamed answers.** What was said, in the right call, with nothing of the last
  chunk lost. Hard because pieces of text, reasoning and calls interleave.
* **Scenario files.** A bad file is refused before anything is installed; an
  installed world refers to nothing that is not there; an export is the file
  again. Hard because an export reads a world that is being played.

The hazards are listed one by one, at their lines, in `PROJECT.json`.

## Modules

| module | what it is |
|---|---|
| `Scheduler` | the scheduler, and of the turn loop, the recovery, the compaction run and the store just the control it depends on |
| `AdmissionPolicy` | the abstract specification: what admission promises, without mutex, tasks or wake-ups |
| `SchedulerRefinement` | the refinement mapping, `Scheduler` to `AdmissionPolicy` |
| `MCScheduler` | symmetry for the TLC runs |
| `SchedulerProofs` | the inductive invariant and the theorems about `Scheduler` |
| `SchedulerRefinementProofs` | the proof that `Scheduler` implements `AdmissionPolicy` |
| `Compaction` | one agent's history, its summaries and the compaction run, with exact token arithmetic |
| `RollingHistory` | the abstract specification: a history whose summarized prefix grows and stays behind the tail |
| `MCCompaction` | the module the compaction runs start from |
| `CompactionProofs` | the inductive invariant, the theorems about `Compaction` and its refinement |
| `ChatSocket` | the chat of one player: store, world queue, broadcasts and the pages that show it |
| `MCChatSocket` | symmetry of the pages for the TLC runs |
| `ChatSocketProofs` | the inductive invariant of the chat and its safety properties |
| `Membership` | worlds, owners, members, invitations; used by `Play` and by `Library` |
| `MembershipProofs` | its inductive invariant |
| `Play` | one world being played: triggers, nested turns, tools, budgets, items, actions, narrations, with members coming and going |
| `MCPlay` | symmetry of the users for the TLC run |
| `PlayProofs` | the inductive invariant of `Play` and all its properties |
| `Library` | scenario files installed and exported, characters' handles, with members coming and going |
| `MCLibrary` | the files the TLC run installs |
| `LibraryProofs` | the inductive invariant of `Library` and all its properties, for any files |
| `Streaming` | one streamed answer put together; used by `Recording` |
| `Recording` | recipes, requests and records of one agent's inferences, and their replay |
| `MCRecording` | the answers and prompts of the TLC run |
| `RecordingProofs` | the inductive invariant of `Recording` with `Streaming` and all their properties |

`Scheduler` and `Compaction` look at the same program from two sides. The first
has every interleaving of turns, tasks and the mutex and no sizes; the second has
every size and boundary and, of the interleavings, those that touch one agent's
tables. Neither assumes a property that only the other shows: a turn of
`Compaction` asks when no job is stored, which is `NoInferenceWhilePending`, and a
single worker at a time is `OneTaskPerAgent`, both theorems of `Scheduler`.

`Play` is the same turn a third time, from the side of the world: an inference is one
step there, and what it shows instead is what the tools do to the store, to nested
turns and to other players. `ChatSocket` is what a player's browser sees of those
triggers, and `Recording` what is sent and kept of each inference. `Membership` is a
component that two others compose with: every step of `Play` and of `Library` is a
step of it or leaves it alone (`PlayImplementsMembership`, `LibraryImplementsMembership`),
so what `MembershipProofs` shows holds in both.

### Scheduler

*State.* `running`, `foregroundWaiting`, `deferredAgents`, `failures` are the
fields of `State`. `job` is the `pending_compaction` row of each agent (its
`after_message_id`, 0 for no row) and `lastMessage` the newest message; these two
survive `Restart`. Of the futures, `turn[a]` is the await point at which agent
`a`'s turn stands, `task[t]` that of a spawned compaction task, with the agent it
works for (`owner`), the row it loaded (`held`) and the fallback pass it is in
(`pass`). `turnWoken` and `taskWoken` are the `Notified` futures that have fired:
`NotifyWaiters` wakes exactly those that exist at that moment, as tokio's
`notify_waiters` does, so a future created too late would miss it.

*Actions.* One action per critical section of the mutex or per store call.
`wait_for_agent` is `CheckPending` (the first read), `AdmitOwn`, then a loop of
`LookAgain` or `Bail`, `Reread`, `Readmit`, `AwaitChange`. `admit` is `EnterQueue`
(the waiter's constructor), `AdmitForeground` or `SleepForeground` (the critical
section), `WakeForeground`, and `ReleaseWaiter`, which is a critical section of
its own: between it and the admission the request is counted both as running and
as waiting. The backend's answer is text, tool calls or a capacity rejection, and
drops the admission (`Answered`) before anything is stored. `StoreReply` is the
transaction of reply and job, `EnqueueRecovery` the one of a rejected request,
`AfterAgent` and `HandOff` are `after_agent`. `AbandonTurn` ends a turn at an
await: an error of the store or backend, an exhausted budget, a failing tool or a
dropped future; the guards that are alive at that place release what they hold.
The spawned task is `Load`, the ordinary summary or the fallback's passes,
`Finish` (the transaction that deletes exactly the loaded row) and `ExitTask`,
which leaves `deferred_agents`, records a failure and notifies. `Restart` is a
crash followed by `load_game`; `Resume` admits the stored jobs one at a time
before a trigger is accepted.

*Abstractions.* Contents of messages and prompts are left out; whether an answer
is text, tool calls or a rejection, whether a reply makes a compaction due and
what a pass measures are free choices. Each agent has at most one turn: the
agents of the model are agents of different worlds, or of one world with one
calling another (the caller then stands at `tools`); this gives every
interleaving, since the worlds' queues only restrict it. Openings, which start a
turn without storing a message first, are in `Play` and `ChatSocket`. Message
numbers are per agent, where SQLite's are per table: only equality matters.

*Properties.* `AdmissionBound`, `CountersExact`, `OneTaskPerAgent`,
`NoInferenceWhilePending`, `HeldJobStaysStored` and `NoCircularWait` are invariants;
the last says that at no moment do all turns and tasks wait for one another, and is
the part of the liveness that is true of every state;
`DeferredYields` and `JobsAreDurable` say what a step may not do; `TurnsSettle`
and `TasksSettle` are liveness; `ImplementsPolicy` is the refinement. Each is
stated in words above its definition, and each has a mutant: a plausible bug that
TLC finds through that property (a missing wake-up, `<=` for `<`, a task admitted
twice, a priority not released on drop, ...). Those faulty variants stand before
the definitions they alter and are used by nothing else.

*What the code does not do.* Two things the repository says of this component
are not so; each is a run that TLC refutes.

* `NoPhantomFailure`. `wait_for_agent` reads the job and then, without anything
  held in between, calls `admit_deferred`. If the worker retires the job and
  leaves in that gap, a second worker is spawned, finds no job, and records
  "missing pending compaction", on which the turn bails although nothing failed.
  It also stays recorded when no one waits, and refuses a later turn.
  `settings.rs:86-87` says the next inference *waits* for the queued work.
* `QueuedWorkIsServed`. A worker deletes the row before it leaves
  `deferred_agents`. A reply stored in between enqueues a new job, and the
  hand-over of `after_agent` returns early because the old worker is still
  listed. Nobody serves the job until the agent's next turn or a restart.
  `settings.rs:86` says it is "queued for idle time".

Neither breaks the properties above: a stranded job is picked up by
`wait_for_agent`, so `NoInferenceWhilePending` and `TurnsSettle` hold.

### Compaction

*State.* Row `i` of the model is the message with `seq = i - 1`, so
`covers_to_seq = c - 1` reads "covers the rows `1..c`". `written[i]` is the number
of tokens of the rows up to `i`; the tokens between two rows are a difference.
`summaries` are the summary rows in order of insertion. Beside `covers` and
`tokens` a summary has what its recorded recipe says: `first`, the first message it
was shown as it was written, and `told`, the messages it speaks for through that
recipe and through the earlier summary the recipe starts from. `job` is
`next_input_tokens` of the pending row (0 for no row; a real one is positive).
These survive `Restart`. `turn`, `asked` and `spent` are the turn's await point,
the size of its request and its charged inferences; `worker`, `recipe`, `keep` and
`previous` are the locals of `compaction::run` and `run_fallback`; `failed` is the
agent's entry in the scheduler's `failures`. `seen` is auxiliary and read by no guard:
how many rows there were when the task last looked at the history.

*Actions.* `tail_split` and the boundary of the summarized rows are `TailSplit` and
`Recipe`, the assembly of the next context is `ContextSize`. The run is
`NothingToSummarize`, `AskOrdinary` with `FinishOrdinary`, or `EnterFallback` and
then the loop `RetainMore`, `AskFallback`, `StorePass`, and the measurement with
its three ends `BelowThreshold`, `NextPass` and `GiveUp`. The two looks at the history
that end in a retirement without a summary, `NothingToSummarize` and `BelowThreshold`,
only decide it: the job is deleted by `Retire`, a transaction of its own, as
`finish_compaction` is in the code, and narrations may be stored in between. `Break` is
an error of the backend or the store, or tool calls where text was expected. The turn is
`CheckPending`, `WaitOver` or `Bail`, `Spend`, `Ask`, and then `Reply` (text, and in
the same transaction the job if the threshold is reached), `CallTools` and
`ToolResult`, or `Recover` after a rejection. `Narrate` adds a row to the history
at any moment, also while the agent's worker infers a summary of it.

*Abstractions.* One agent: its tables are its own, and others matter only for
scheduling. The kinds of rows, the reasoning kept with a reply and the text are
left out. A request is rejected exactly when it leaves less than
`max_output_tokens` of the context (`Fits`); that rule is the inference library's,
whose error the code relies on. `max_inferences_total` bounds the same charge as
`max_inferences_per_chat` when one agent is looked at, and is in `Play`. The bound on rows is stricter for narrations, player messages and
tool calls than for their consequences, so that no turn stops for lack of rows.

*Properties.* `SummariesAreWhole` and `RowsReadOnce` say that the summaries tile a
prefix of the history, whatever failures and restarts came between the passes;
`TailStaysRaw` says what storing a summary may never do, and `JobsDoTheirWork` what
retiring a job may never do: leave work undone in the history the task last read. Of
those rows at most `KeepTail` are raw afterwards, or their context is below the
threshold. It does not say so of the history there is when the job goes: a
narration stored after the last look may leave more rows raw than the tail, or the
context at the threshold again. The agent's next reply, or its next rejected request,
makes a new job then. `CompactionsEnd` and `TurnsEnd` are liveness; `ImplementsHistory` is
the refinement of `RollingHistory`.

*What the code does not do.* `settings.rs:66-67` calls the limits "runaway bounds"
that "exist to stop a loop that is already wrong", and `agent.rs:13-15` says that
exhausting the inference budget is how such a loop reaches the user. The request
that follows a capacity recovery is not charged. If the retained tail alone is too large for the
context, the compaction finds nothing to summarize, retires the job as done, and
the request is sent again, rejected again, and so on: run `tail_too_large` violates
`TurnsEnd`. Run `passes` shows that turns do end where the tail always fits.

### ChatSocket

*State.* `rows` are the player-visible messages of one player's agent in the order
of their ids, as `player_chat` returns them; `ready` is the completed character
creation. These two survive `Restart`. `queue`, `event`, `step` and `outcome` are
the world's mpsc queue and the event its task resolves; `opening` is the entry of
the `openings` map; `sent` is what was broadcast at the player's location. Of each
page (a tab with its socket), `place` is the await point of `play_connection`,
`shown` the entries in the browser's list (0 for a message typed there), `cursor`
the snapshot's last id, `next` the position of the broadcast receiver, `canAct` the
enabled form. `strays` counts messages whose tab is closed while their connection
waits for a place in the queue: it does not watch its socket then.

*Actions.* `Render` is `game_page`; `Subscribe`, `LookForOpening`,
`JoinOpening`, `CatchUp` and `Enable` are `play_connection` up to its loop, in its
order (the two in the middle are `wait_for_opening`: the history is looked at before
the map of openings is); `Receive`, `Forward`
and `ShowReply` the loop. `Forward` stands for `broadcasts.recv()` and for
`send_ready_broadcasts`, with tokio's rule for a receiver that lags: it is told, and
goes on with the oldest entry still buffered. `QueueMessage`, `QueueStray` and
`QueueOpening` wait for a place in the queue. `TakeEvent` stores a player message
before it is resolved, and for an entry looks again whether anything is left to
open. During a turn the agent may begin play (`BeginPlay`), narrations are stored
and then broadcast (`StoreNarration`, `BroadcastNarration`; `DeliveryFails` is an
error while storing it for another player), and the turn ends with a reply, with an
empty one that is stored and never shown, or with an error, also after the reply is
stored (`TurnFails`). `AnswerMessage` is the oneshot, `FinishOpening` the watch
channel and `RemoveOpening` the end of its entry in the map, after the result is
known: a viewer who comes in between gets that result, be it an old failure. `Close` is a tab that leaves anywhere; `Restart` the end of the process.

*Abstractions.* One player at one location; the turns of others are events that
may narrate there. What goes through a socket arrives at once, since sockets keep
their order. Hidden rows (tool calls and results, empty replies) are left out of
`rows`: a cursor skips them either way.

*Properties.* `NarrationsReach`, `RepliesShownOnce` and `NarrationBeforeReply`
relate what a page shows to what is stored; `OpeningSpeaksFirst` is the second look
of `resolve_enter` together with the world's seriality; `SubmittedIsAnswered` and
`ViewersGetIn` are liveness. `NobodyForgotten` is what they rest on: a page that may
not act has a message on its way or an opening that is queued or under way, so nobody
waits for what has been dropped already.

*What the code does not do.* `store.rs:983-985` and `implementation_reference.md:155-157`
say that work completed between rendering and connection is neither lost nor
duplicated; run `shown_twice` refutes `NothingShownTwice`. The socket subscribes,
waits for the opening, then reads the entries after its snapshot. A narration
delivered in between is shown by the catching up and once more by its broadcast.
The order is the right one for losing nothing (`NarrationsReach` fails with the
opposite one), but nothing compares the two sources.

A reply goes only to the connection that submitted the message. If that tab is
reloaded during the turn, the new page catches up before the reply is stored, is
enabled, and stays without it until the next load. The sources claim nothing for
this case, and no property does.

### Membership

*State.* `owner` is `world_owner`, `active` the members whose access is active,
`agent[w][u]` the player agent of a membership, with 0 for no membership: a removed
member keeps the rows, and so the agent. `invitation` has the rows of
`world_invitation`. `agents` makes the ids of new agents fresh. `joined` is a
history variable: who became a member through which token.

*Actions.* One per store operation, which is one transaction over the single
connection: `InstallScenario`, `CreateInvitation`, `RevokeInvitation`,
`RemoveMember`, `AcceptInvitation` with its two cases (a returning member takes no
slot; a newcomer takes one and gets agent and Adventurer). The routes of `web.rs`
look up the user and call exactly one of them.

*Properties.* `SlotsAreSeats`, `OwnersStay`, `SeatsAreForever`; checked in run
`worlds`, where they share the instance with `Library`.

### Play

*State.* Of the store: `sheet` (which rolls are settled, and readiness), `rolls`
(how often something was rolled: a history variable), `itemAt` and `holder`
(`item_location`, `item_character`), `nextAction`, `pending`, `log` (the resolved
actions) and `heard` (the narrations in each player agent's history). Of the
trigger: `event`, the call stack `stack` of `CallContext`, and for each agent on it
where its turn stands (`at`), its tools (`kit`), its `chat_spent` (`asked`) and the
calls of its last message that have no result yet; `spent` is the `Budget` all
agents of a trigger share, `presented` what is before the GM or to be delivered,
`audience` whom the narration has yet to reach. `inferred`, `began` and `present` are
history variables of the trigger.

*Actions.* `Take` and `Choose` begin `resolve_player_message` or `resolve_enter`;
`NothingToOpen` and `TurnAwayRemoved` are their early ends. `Infer`, `RunOut`,
`RefuseCall` and `Reply` are the loop of `complete_with_call_context`, for
whichever turn is innermost. The tools are `RollOnce`, `ReadyToBegin`, `Submit`
(look, say, take), `ToolFails`, and for the GM `Approve`, `Reject` and
`ResolvingFails`. `AskGM` is the nested turn of `arbitrate` or
`opening_narration`: refused if the agent is on the stack, with a chat of its own
and the trigger's budget. `Narrate` is its end, where `arbitrate` insists on a
decision. `StoreResult`, `DeliverTo` and `Delivered` are what follows: the result
row, then one append for each active member there, then the next call of the same
message. `End` is every other way out of a trigger; `Break` takes it at any
moment, for an error of the store or the backend, and for the end of the process.
`MembersChange` is any step of `Membership`, at any moment of a trigger.

*Abstractions.* The model's answers are free: any number of calls up to a bound, and
any tool whose guard allows it. Contents are left out; a narration is the number
of its action. One location: every member starts where the owner's Adventurer is
and nothing in the code moves one. `heard` is a set: where in a history the
narration stands is not said (see below). Waiting for slots and compactions is
`Scheduler`'s.

*Properties.* `AnsweredIsWhole` (when a player's agent answers, each action of its
turn was decided, and told to everybody who had access throughout), `ResolvedOnce`,
`LeftoversStay` (an action that a failed trigger left pending is never picked up by a
later one), `ItemsFollowLog`, `RolledOnce`, `RemovedDoNothing`, `NestedTurnsEnd` (the
call stack is left as it was found, limits hold for the chat and the trigger) and
`TriggersWindDown`, which gives the rank that every step of a trigger lowers.

*What the code does not do.* `store.rs:1042-1045` asks that a location narration be
appended only after the triggering player agent has settled, so that its calls and
results stay together. `deliver_narration` (`game.rs:821-838`) runs as the
`after_result` of one call, before the next call of the same message is executed
(`agent.rs:245`): with two calls in a message the narration stands between their
results. In `Play` that is the order of `DeliverTo` and the next `Submit`; no run
states it, since histories are sets there.

### Library

*State.* `file[w]` is the scenario a world was installed from, `rows[w]` its rows,
in which a reference is the position of the row it means, `held[w]` the items that
have been taken. `handles` are the `tool_id`s in use and `characters` counts the
rows they name. `export` is the export under way or the last one.

*Actions.* `ImportScenario` validates, then makes the world, its rows, its NPCs with
their handles and the owner's membership in one transaction; `Accept` adds an
Adventurer for a newcomer; `OwnerActs` is the rest of `Membership`; `TakeItem` is
what play does to the items. `BeginExport` and `FinishExport` are separate: the
command runs in a process of its own and reads the held items first and the tables
after that, without a transaction, so an item can be taken in between (`torn`).
`FreeHandles` is `next_character_tool_id`: any unused handle of the fewest digits.

*Properties.* `GraphsAreWhole`, `ExportsAreWhole` (an export is the file again;
a torn one may miss an item and can still be installed), `HandlesAreShort`, and the
three of `Membership`.

### Streaming and Recording

*State.* `Streaming`: the answer the model is giving (`answer`), what of it is still
to come (`left`, `begun`), and what the backend has collected: `content`,
`reasoning` and `calls`, a map by index. `Recording`: the tables of one agent
(`texts`, `rows`, `summaries`, `inferences`, and `kept`, the static segments of its
`pending_compaction`), the running `build`, and `call`, the completion under way:
its recipe so far, and then the request it was turned into.

*Actions.* `Chunk` brings any pieces of text, reasoning and one call, and finishes the
response if nothing is left; `WrongDelta` changes the id or the name of a call
under way and is refused; `StreamFails` is an error or an end without a final
chunk. `BeginTurn`, `StoreTools`, `ReadSummary` and `ReadNewest` assemble a recipe
in separate store calls, `BeginSummary` is that of a compaction, `BeginReplay` that
of the `replay` command. `Ask` turns the recipe into a request, `Record` and
`RecordError` store the inference with its outcome, and `StoreReply`,
`StoreCalls`, `StoreResult`, `StoreSummary` or `Discard` use it. When a summary's
request is rejected the fallback follows: `BeginPass` puts a pass together, `GrowTail`
another with a longer tail, `StorePass` stores its summary and keeps the job, and
`ReadSummary`, `ReadNewest` and `Measure` put together what the agent would be sent
next, from the static segments the job has kept; `Retire`, `NextPass` or `GiveUp`
ends it. A pass's own measuring sends and stores nothing and is part of `GrowTail` or `Ask`. `Write` adds a row
at any moment; `Restart` ends a completion and may bring a build with other prompts
and tools.

*Abstractions.* A text is a value or a short sequence of pieces. The hash of the input
is the request itself (`sent`): equal hashes are equal requests. When a compaction
is due, which rejection makes one owed or begins the fallback, whether a pass fits and
what a measuring comes to are free choices; `Compaction` has their arithmetic.

*Properties.* `ResponseIsAnswer` for every way to cut an answer; `ReplayIsExact`,
`RecipesConnect` (summary and raw rows meet without gap or overlap, in every
recorded request) and `MeasuredAsSent` (what the fallback measures is the prompt and
the tools of the request the compaction is owed for, the newest summary, and rows from
the first that it does not cover).

## Runs

A run has the properties only TLC can check, and those whose violation by a faulty
variant says most about the code. What the theorems below show for every value of
the constants and no run repeats: the type invariants of every module but `Recording`,
and `OneTaskPerAgent`, `HeldJobStaysStored`, `DeferredYields` and `TailStaysRaw`.

| run | instance | what it shows |
|---|---|---|
| `turns` | 2 agents, 1 slot, 3 messages each, 1 fallback pass, 1 capacity rejection, 1 restart | counters, priority and jobs stay consistent, no inference over an owed history, somebody can always go on, the policy is implemented |
| `liveness` | 2 agents, 1 slot, 2 messages each, 1 rejection, 1 restart, fair | no lost wake-up, no circular wait, also for a turn that waits for its own compaction |
| `phantom`, `stranded` | 1 agent | the two counterexamples above |
| `passes` | tail of 2, input 8, output 1, threshold 6, rows of 1 or 3 tokens, 8 rows, 1 restart, fair | the summaries tile the prefix, no job is retired with work left in what it read, the abstract history is implemented, compactions and turns end |
| `tail_too_large` | tail of 2, input 5, rows of 1 or 3 tokens, fair | the counterexample above |
| `pages` | 2 pages, 2 loads, 1 message, 3 narrations, queue of 1, buffer of 2 | nothing said is lost, replies come once and after their narration, nobody waits in vain |
| `answers` | 2 pages, 2 loads, 1 message, 1 event of another player, 1 restart, queue of 1, fair | whoever submits or waits is answered |
| `shown_twice` | 1 page | the counterexample of `ChatSocket` |
| `play` | owner and guest, 1 roll, 1 item, 2 actions, 2 calls in a message, 2 inferences in a chat and 4 in a trigger | items, rolls, actions and narrations agree through failures, and triggers wind down |
| `worlds` | 2 worlds, 3 users, 1 token, unlimited or for one, 1 good file and 11 bad ones, handles to base 2 | references resolve, exports reproduce the file, handles are short, seats and slots agree |
| `replay` | 2 answers, 2 builds, tail of 1, 3 rows, 3 inferences | answers are put together, records can be rebuilt, a fallback measures what would be sent |

*Bounds of `Compaction`.* With eight rows a history is compacted twice, by an
ordinary request or by a fallback that has to retain more than the tail and needs a
second pass; a row of 3 tokens next to one of 1 makes the ordinary request fit or
not, and the measured context fall on either side of the threshold. A narration of 3
tokens stored between a look at the history and the retirement is enough to make more
than the tail raw, or the context reach the threshold: both happen in the run. A tail of
two rows of at most 3 tokens, with a summary of 1 and standing instructions of
1, is the largest that still fits an input of 8 tokens: turns end there, and not
where `tail_too_large` makes the input smaller.

*Bounds of `Scheduler`.* One slot is the hardest case for waiting and priority, and two agents
the fewest that compete for it; the theorems cover several slots. Three
messages are a trigger with its reply and a second trigger, which meets the job of
the first; liveness needs only the first, since a restart leaves a job behind too. A pass of the fallback, a
rejection and a restart each happen at least once; a second one starts from a
state the first can also start from. `MaxRejections` has no counterpart in the
code: see the hazard at `context.rs:30`. `Task` has as many slots as there are
agents; `OneTaskPerAgent` shows that no more are ever used. Deadlock is not
checked in any run: when the bounded triggers or rows are used up the idle system
stops.

*Bounds of `ChatSocket`.* The queue and the buffer hold 64 entries in the code and one
or two in the model, where a single other event fills the one and three narrations
overrun the other. Two loads are two tabs or a tab and its reload, and three
narrations one before, one during and one after the catching up. `answers` leaves
narrations out: they are not what an answer waits for; `pages` leaves out the
restart, after which every page starts from its snapshot again, and events of other
players, whose narrations come to a page as those of its player's other tab do.

*Bounds of `Play`.* Four inferences are a turn with an action that is judged and
answered: the player agent twice and the GM twice, which is also what one chat may
ask. Two calls in a message are the fewest with a narration between their results;
two actions the fewest of which one can be left pending when another is submitted.
The guest joins, is removed and returns through one token. `PlayProofs` covers every
larger instance of all of its properties.

*Bounds of `Library`.* To base 2 there are two handles of two digits and four of three,
so that three characters already need the third digit. Each bad file breaks one
rule of `validate`. *Bounds of `Recording`.* One of the answers has text, reasoning
and two calls, the other has text only; three inferences are enough for a turn, a
summary of it, and a turn or a replay that starts from the summary, and for a turn, a
rejected summary, and the pass whose context is then measured, after a restart with the
other build as well. `MaxTexts` only
keeps abandoned completions from storing their prompts for ever.

*Fairness.* Weak fairness of each turn's own steps, each task's steps and each
resumption: tokio polls every future that is woken, and a request the backend was
given is answered. Nothing forces a trigger, an abandoned turn or a crash.
Because the triggers are bounded, liveness reads "after a finite burst every turn
and every task ends". `Compaction` has weak
fairness of the turn's steps and of the worker's; `ChatSocket` of each page's
connection, of the world's task and of those who wait for a place in its queue
(tokio's channel serves them in their order), but not of players, who may stop
typing or leave at any moment. That a permanent stream of player requests starves deferred
work is the intent of `design.md` and not claimed otherwise.

## Proofs

`SchedulerProofs` proves, for every set of agents and tasks, every cap and every
bound, all the safety properties the runs check; `SchedulerRefinementProofs`
proves `Spec => ImplementsPolicy`. The only assumption is `SchedulerAssumption`:
the sets are finite, `NoAgent` is not an agent, `Cap` is a positive natural number
(which `InferenceScheduler::new` ensures).

The inductive invariant `Inv` is the conjunction of

* `TypeOK`;
* `CountersExact`, needed even for types: `running - 1` is a natural number
  because whoever gives back a slot is counted (`HoldersCounted`);
* `running <= Cap`, from which `AdmissionBound` follows;
* `TaskShape`: free slots have no owner, owners are distinct and are exactly the
  agents in `deferredAgents`. Without it a second task could retire the job
  another one holds;
* `Clear`: no job while the agent's turn is between the decision to request and
  its reply. It extends `NoInferenceWhilePending` to the place `capacity`, where
  the turn makes its own recovery job, because only there is it known that the
  job it is about to create does not exist;
* `HeldJobStaysStored`, which needs both: a turn never overwrites a held job
  (`Clear`) and a task never deletes another's (`TaskShape`);
* `NoLostWakeUp`: whoever sleeps and has not been woken has something to wait for,
  namely a full house, a foreground request or its agent's task. With the
  counters exact, whatever is waited for is held by somebody (`SomebodyGoesOn`): a full house is
  full of running requests, a waiting foreground request is awake or the house is
  full, and a task that a turn awaits exists (`TaskShape`). Fairness is not needed
  for that; that everybody who can go on does is left to run `liveness`.

`TypeStep`, `CountersStep`, `ShapeStep`, `ClearStep`, `HeldStep` and `WakeStep` prove one
conjunct each, with one step per action. Counting rests on `CountChange` (sets
that differ in one element) and, through `TurnMoves` and `TaskMoves`, on the
library's theorems on finite sets. The refinement proof maps each action to the
policy's step or to a stutter (`PolicyStep`).

`CompactionProofs` proves, for every limit and every set of row sizes, the
properties of run `passes`, under `CompactionAssumption`: `limits.validate` makes
the tail, the input and the output positive and the threshold no larger than the
input. The inductive invariant adds to the two properties themselves

* `TypeOK`, and `Growing`: running totals grow, so a difference of two is a size;
* `Chained`: each summary begins where the one before it stopped and leaves a tail.
  From it the newest row is the one `latest_summary` selects (`LatestIsLast`), which
  is what makes the union of told rows a prefix;
* `RecipeFollows`: while a worker infers, its recipe still continues the newest
  stored summary. This is why rows written during the request do no harm;
* `WorkerBusy`, a worker works for a stored job and never retains less than the
  tail, and `Oversized`, a rejected request has a positive size, so that the job
  made of it is a job;
* `Concluded`: what a task has concluded from the history it read stays true of that
  history until it acts on it, since rows written meanwhile leave the tokens of older
  ones alone. `JobsWorkedOff` needs it at the retirement, when the history may be
  longer than what was read.

`WriteKeeps`, `TablesKept` and `StoreKeeps` say what writing a row, nothing, and
storing a summary do to the tables; `TurnKeeps` and `WorkKeeps` have one step per
action. `Effects` classifies every step as one of five changes of the tables, and
the action properties (`TailKept`, `JobsWorkedOff`) and the refinement
(`HistoryImplemented`) are read off it.

`MembershipProofs` proves `MembershipInv` for every set of worlds, finite set of users
and set of tokens and limits (`MembershipAssumption`). Beside the types and the
two invariants it says that who joined through a token is a member
(`JoinedAreMembers`), without which a newcomer could be counted twice, and that
a world without an owner has neither members nor tokens. It is stated about steps of `Membership`
alone, so that `PlayProofs` and `LibraryProofs` cite it.

`PlayProofs` proves all the properties of run `play`, for every set of users, rolls,
items and names, and all limits, under `PlayAssumption` (users, rolls and items are told
apart from the GM, from `"ready"` and from a talk; the items are finitely many;
limits are natural numbers). The inductive invariant adds to the types

* `Shape`: the call stack holds the acting player's agent, and the GM above it
  exactly while that agent waits. All else leans on it: it says who `Running` is at
  every place, and that nobody else is anywhere;
* `CallsLeft` and `Charged`: counts of calls stay natural numbers, and each
  inference is charged to chat and trigger;
* `Accounted`: every id given out is pending or in the log, once. `ResolvedOnce`
  alone is not inductive: an id in neither place could be resolved again;
* `HeardDecided`, and during a trigger `TurnInv`: what is before the GM was
  submitted by this trigger's player after it began (`BeforeGM`), and of the actions
  of this trigger only that one can be undecided, or decided and not yet told
  (`Settled`). This is why `LeftoversStay` and `AnsweredIsWhole` hold.

`ItemsMatchLog` has its own invariant over it, `ItemsInv`: an approved take adds one
element to the items of that name the player holds and one to the player's approved
takes of it; `TriggersEnd` compares
`Rank` before and after each step, with `Nearer` and `LessLeft` for the arithmetic.

`LibraryProofs` proves all the properties of run `worlds`, for any files, users, worlds
and tokens. It assumes that the lists of a file are sequences of names and of records of
names (`ScenarioAssumption`: what the parser returns) and that handles are written to a
base of two or more (`LibraryAssumption`). `LibraryInv` adds to `MembershipInv`

* `RowsOfFiles`: a world's rows are those of its file, which is valid.
  `InstallResolves` shows that validation is strong enough for every lookup of the
  installation, and `ExportsRestore` that the export of installed rows is the file,
  because names are told apart there: the two lemmas together are the round trip;
* `HeldAreRows` and `ExportsFollow`: only rows of existing worlds are held, and while an
  export is under way nothing of its world is held, or it is marked as torn;
  `ExportsValidate` shows that even a torn one is a valid file;
* `OneHandleEach`: there are as many handles as characters, and one of more digits only
  once all shorter ones are in use. `Draws` goes through a file's characters one at a
  time, so this is an induction over their number, and `Lower` (the least handle of each
  length) is defined by recursion. The library's induction theorems cannot be used here, so
  `LeastNumber` gets the induction from the well-foundedness of `<` by a least
  counterexample (`Steps`), and `Iterates` shows that such a recursion defines a function.

`RecordingProofs` proves all the properties of run `replay`, for any prompts, any number
of rows, summaries and records, and any answers of any length, under `AnswerAssumption`
(an answer consists of sequences of pieces, and its calls have different ids) and
`RecordingAssumption` (the tail and the bounds are natural numbers). The invariant is

* `StreamInv`: while a stream is open, what was collected followed by what is left
  is the answer, text by text and call by call (`Collected`). It needs
  no induction over the pieces: each chunk moves one piece across (`PieceJoins`), and at the
  end nothing is left (`Answered`);
* `SummariesGrow`, `SummariesRecorded` and `RecordsHold`: every summary covers more than the
  one before it and answers a recorded request that ends where it does; every recorded recipe
  has one of the few forms in `Recipe`, and gives the request that was sent.
  `RequestStays` is the reason why it always will: tables are only appended to, and
  a recipe refers to rows there are (`RecipeRefers`);
* `CallInv`: the same for the completion under way, at each step of its assembly. A
  compaction's split is still ahead of what is covered when its summary is stored, its
  job is still there (`JobOfCall`), and the context being measured begins with what that
  job has kept (`MeasureInv`). `MeasuredSays` reads `MeasuredAsSent` off it;
* `KeptInv`: the static part of a stored job is the beginning of a request that was sent.

`ChatSocketProofs` proves the safety properties of run `pages` and the types, for every set
of pages, every queue and buffer and every bound, under `ChatAssumption`. Three of
the invariants say what is on a page and are not inductive, because most steps
that could spoil them are taken while nothing is shown. `Inv` adds, for each page,

* `Snapshot`: until it has caught up, a page shows exactly the rows up to its cursor, so
  that what catching up appends begins where the snapshot ends;
* `Reaches`: from then on a narration is on the page, or is undelivered, or is among
  the broadcasts the connection has not received. It holds because the subscription
  precedes the catching up, and it is the reason why a reply that waits for
  all ready broadcasts comes below its narrations;
* `ReplyIsNew`: the reply on its way to a page is not on it yet. It depends on a page
  awaiting one event at most (`AwaitsOne`), which the world's part of the
  invariant keeps: queue and event hold a page once, and only while it waits;

and for the world `NarrationsAreSent`, `OutcomeIsReply`, and `OpeningIsFirst`, from which
`OpeningsSpeakFirst` follows. `NobodyForgotten` is inductive together with `AwaitsOne` and
`EntersHaveNoPage` (an opening answers to no page): the end of one event is then the
end of one page's wait, and of nobody else's. `TablesGrow` is all a page needs to know of another's step:
rows and broadcasts are appended, and no narration is dropped in between.

Left to TLC: the liveness properties (`TurnsSettle`, `TasksSettle`,
`CompactionsEnd`, `TurnsEnd`, `SubmittedIsAnswered`, `ViewersGetIn`), since the
prover handles neither fairness nor `ENABLED`, and the four counterexamples. Every
safety property of a passing run is a theorem. Of liveness, `NoCircularWait`, `NobodyForgotten`,
`JobsWorkedOff` and `TriggersEnd` are the parts that need no fairness.

## Not modelled, and the plan

Left out, because it is input and output or belongs to others: the login with Google
and its sessions, markup, styles and the terminal, parsing of TOML, Markdown and
JSON, the model and its library, loading it and the telemetry of the GPU. Smaller
parts of the core that no module has:

* the page that waits for the game to load asks once and is then reloaded; the state
  behind it is written once;
* `chat_notice` rows are written and read only by tests;
* renaming and listing users, worlds and agents: no property depends on them;
* the arithmetic of the cache size in `settings.rs`; of `limits.validate` the relations
  between limits are the assumptions of `Compaction`.

Three hazards have no property, because no source says what should happen: the
failure of an older attempt reported to a later turn (`inference.rs:166`), a retained
tail that begins with the result of a call that was summarized (`store.rs:2203`), and
a reply whose page was reloaded meanwhile (`web.rs:683`).

What could come next:

1. Several locations in `Play` and `ChatSocket`, once the code moves Adventurers.
2. The order of rows within a history in `Play`, to state as a run what
   `store.rs:1042-1045` asks.
