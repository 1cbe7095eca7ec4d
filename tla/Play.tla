-------------------------------- MODULE Play --------------------------------
(***************************************************************************)
(* One world being played: the world's task resolves one trigger after     *)
(* another (game.rs), each a turn of a player agent whose tools may call    *)
(* the location's GM for a nested turn (agent.rs, tools.rs), over the       *)
(* Adventurer sheets, items and pending actions of the store, while the     *)
(* owner lets members in and removes them (Membership) and the process may *)
(* stop.  All Adventurers stand at one location: every member starts where *)
(* the owner's is, and nothing moves them.                                 *)
(*                                                                         *)
(* The model's answers are free choices.  A tool call is chosen when it is *)
(* executed; a call the tool refuses (unknown name, unusable arguments)    *)
(* leaves a result and nothing else.                                       *)
(***************************************************************************)
EXTENDS Membership, Integers, Sequences

CONSTANTS
  Here,          \* the world whose task this is
  GM,            \* the agent of the location's GM
  Roll,          \* what an Adventurer rolls: hit protection, attributes
  Item,          \* the items of the world
  Alike,         \* those that share one name; the others' names are their own
  Talk,          \* what a look or say asks for
  Opening,       \* the narration that opens play for an Adventurer
  Nothing,       \* neither an action nor a narration
  MaxChat,       \* limits.max_inferences_per_chat
  MaxTotal,      \* limits.max_inferences_total
  MaxCalls,      \* bound: tool calls in one model message
  MaxActions     \* bound: actions submitted

(* A name is the set of the items that bear it. *)
Name == {{i} : i \in Item \ Alike} \cup {Alike}

ASSUME PlayAssumption ==
  /\ Here \in World
  /\ GM \notin User
  /\ "ready" \notin Roll
  /\ IsFiniteSet(Item) /\ Alike \subseteq Item /\ Talk \notin Name
  /\ Opening \notin Nat /\ Nothing \notin Nat /\ Opening # Nothing
  /\ {MaxChat, MaxTotal, MaxCalls, MaxActions} \subseteq Nat

VARIABLES        \* the store
  sheet,         \* what each Adventurer has settled: its rolls, and "ready"
  rolls,         \* recorded rolls of each
  itemAt,        \* item_location: the item is at the location
  holder,        \* item_character
  nextAction,    \* world.next_action_id
  pending,       \* pending_action
  log,           \* the action rows of resolved actions
  heard          \* the narrations in each player agent's history
VARIABLES        \* the trigger being resolved
  event,
  stack,         \* CallContext.agents
  at,            \* where the turn of each agent is
  kit,           \* the tools of each agent's turn
  asked,         \* chat_spent
  calls,         \* calls of the last message not yet answered
  spent,         \* Budget.total_spent
  inferred,      \* inferences run for the trigger
  presented,     \* the action before the GM, or the narration to be delivered
  audience       \* player agents the narration has yet to be stored for
VARIABLES
  began,         \* nextAction when the trigger began
  present        \* members with access ever since

storeVars == <<sheet, rolls, itemAt, holder, nextAction, pending, log, heard>>
turnVars  == <<at, kit, asked, calls>>
callVars  == <<event, stack, spent, inferred, presented, audience>>
pastVars  == <<began, present>>
playVars  == <<storeVars, turnVars, callVars, pastVars>>
vars      == <<memberVars, playVars>>

Agent     == User \cup {GM}
Sheet     == Roll \cup {"ready"}
Place     == {"off", "choose", "infer", "call", "open", "nested", "narrate", "deliver", "reply"}
Kit       == {"none", "creation", "action", "opening", "arbitration"}
Trigger   == [kind : {"none", "message", "enter"}, user : User \cup {Nobody}]
NoTrigger == [kind |-> "none", user |-> Nobody]
Request   == Name \cup {Talk}
Action    == [id : Nat, by : User, what : Request]
Resolved  == [id : Nat, by : User, what : Request, verdict : {"approved", "rejected"}]

IsActive(u)  == u \in active[Here]
Idle         == event.kind = "none"
Acting       == event.user
Running      == stack[Len(stack)]
Go(a, place) == at' = [at EXCEPT ![a] = place]

-----------------------------------------------------------------------------
PlayInit ==
  /\ sheet = [u \in User |-> {}] /\ rolls = [u \in User |-> [r \in Roll |-> 0]]
  /\ itemAt = [i \in Item |-> TRUE] /\ holder = [i \in Item |-> Nobody]
  /\ nextAction = 0 /\ pending = {} /\ log = <<>>
  /\ heard = [u \in User |-> {}]
  /\ event = NoTrigger /\ stack = <<>>
  /\ at = [a \in Agent |-> "off"] /\ kit = [a \in Agent |-> "none"]
  /\ asked = [a \in Agent |-> 0] /\ calls = [a \in Agent |-> 0]
  /\ spent = 0 /\ inferred = 0 /\ presented = Nothing /\ audience = {}
  /\ began = 0 /\ present = {}

(* The trigger is over, with a reply or an error: every guard on the call  *)
(* stack is dropped.                                                       *)
End ==
  /\ event' = NoTrigger /\ stack' = <<>>
  /\ at' = [a \in Agent |-> "off"] /\ kit' = [a \in Agent |-> "none"]
  /\ asked' = [a \in Agent |-> 0] /\ calls' = [a \in Agent |-> 0]
  /\ spent' = 0 /\ inferred' = 0 /\ presented' = Nothing /\ audience' = {}
  /\ began' = 0 /\ present' = {}
  /\ UNCHANGED storeVars

-----------------------------------------------------------------------------
(* resolve_player_message, resolve_enter *)

(* The socket that sends it was opened with a membership that may have     *)
(* been removed since.                                                     *)
Take(kind, u) ==
  /\ Idle
  /\ Member(Here, u)
  /\ event' = [kind |-> kind, user |-> u]
  /\ Go(u, "choose")
  /\ began' = nextAction
  /\ present' = active[Here]
  /\ UNCHANGED <<storeVars, stack, kit, asked, calls, spent, inferred, presented, audience>>

(* An opening finds nothing to do for an Adventurer that is ready, or one  *)
(* that has been spoken to.                                                *)
NothingToOpen ==
  /\ event.kind = "enter" /\ at[Acting] = "choose"
  /\ IsActive(Acting)
  /\ End

(* The sheet decides on the tools; complete_with_call_context begins. *)
Choose ==
  /\ ~Idle /\ at[Acting] = "choose"
  /\ IsActive(Acting)
  /\ event.kind = "enter" => "ready" \notin sheet[Acting]
  /\ kit' = [kit EXCEPT ![Acting] = IF "ready" \in sheet[Acting] THEN "action" ELSE "creation"]
  /\ Go(Acting, "infer")
  /\ stack' = <<Acting>>
  /\ UNCHANGED <<storeVars, asked, calls, event, spent, inferred, presented, audience, pastVars>>

TurnAwayRemoved ==
  /\ ~Idle /\ at[Acting] = "choose"
  /\ ~IsActive(Acting)
  /\ End

-----------------------------------------------------------------------------
(* complete_with_call_context, for the innermost turn *)

TurnAt(place) == stack # <<>> /\ at[Running] = place

WithinBudget(a) == asked[a] < MaxChat /\ spent < MaxTotal

SpendNothing(a) == UNCHANGED <<asked, spent>>          \* faulty: nothing is charged
Spend(a) ==
  /\ asked' = [asked EXCEPT ![a] = @ + 1]
  /\ spent' = spent + 1

(* The inference, and the row of a message with calls. *)
Infer ==
  /\ TurnAt("infer")
  /\ WithinBudget(Running)
  /\ Spend(Running)
  /\ inferred' = IF inferred > MaxTotal THEN inferred ELSE inferred + 1
  /\ \/ Go(Running, "reply") /\ UNCHANGED calls
     \/ \E n \in 1..MaxCalls :
          Go(Running, "call") /\ calls' = [calls EXCEPT ![Running] = n]
  /\ UNCHANGED <<storeVars, kit, event, stack, presented, audience, pastVars>>

RunOut ==
  /\ TurnAt("infer")
  /\ ~WithinBudget(Running)
  /\ End

(* The result of a call is stored and the next one is taken up. *)
NextCall(a) ==
  /\ calls' = [calls EXCEPT ![a] = @ - 1]
  /\ Go(a, IF calls[a] = 1 THEN "infer" ELSE "call")

RefuseCall ==
  /\ TurnAt("call")
  /\ NextCall(Running)
  /\ UNCHANGED <<storeVars, kit, asked, callVars, pastVars>>

(* A nested turn in the same context: its stack and its budget are shared. *)
BudgetAfresh == spent' = 0                             \* faulty: Budget::new for each agent
BudgetKept   == UNCHANGED spent

OnStack(a) == a \in {stack[k] : k \in DOMAIN stack}

Call(a, tools) ==
  IF OnStack(a)
  THEN End
  ELSE /\ stack' = Append(stack, a)
       /\ at' = [at EXCEPT ![Acting] = "nested", ![a] = "infer"]
       /\ kit' = [kit EXCEPT ![a] = tools]
       /\ asked' = [asked EXCEPT ![a] = 0]
       /\ BudgetKept
       /\ UNCHANGED <<storeVars, calls, event, inferred, presented, audience, pastVars>>

Pop(s) == SubSeq(s, 1, Len(s) - 1)

-----------------------------------------------------------------------------
(* The tools of a player agent. *)

PlayerCall(tools) == TurnAt("call") /\ Running # GM /\ kit[Running] = tools

RollAgain(r) ==                                        \* faulty: a repeated call rolls anew
  /\ PlayerCall("creation") /\ IsActive(Acting)
  /\ sheet' = [sheet EXCEPT ![Acting] = @ \cup {r}]
  /\ rolls' = [rolls EXCEPT ![Acting][r] = @ + 1]
  /\ NextCall(Acting)
  /\ UNCHANGED <<itemAt, holder, nextAction, pending, log, heard, kit, asked, callVars, pastVars>>

(* roll_hit_protection, roll_attributes: a repeated call answers from the sheet. *)
RollOnce(r) ==
  /\ PlayerCall("creation") /\ IsActive(Acting)
  /\ sheet' = [sheet EXCEPT ![Acting] = @ \cup {r}]
  /\ rolls' = IF r \in sheet[Acting] THEN rolls ELSE [rolls EXCEPT ![Acting][r] = @ + 1]
  /\ NextCall(Acting)
  /\ UNCHANGED <<itemAt, holder, nextAction, pending, log, heard, kit, asked, callVars, pastVars>>

(* ready_to_begin: committed before the GM is asked to open the scene. *)
ReadyToBegin ==
  /\ PlayerCall("creation") /\ IsActive(Acting) /\ Roll \subseteq sheet[Acting]
  /\ sheet' = [sheet EXCEPT ![Acting] = Sheet]
  /\ Go(Acting, "open")
  /\ presented' = Opening
  /\ UNCHANGED <<rolls, itemAt, holder, nextAction, pending, log, heard, kit, asked, calls,
                 event, stack, spent, inferred, audience, pastVars>>

SubmitAnyway(u) == TRUE                                \* faulty: the membership is not looked up again
MaySubmit(u)    == IsActive(u)

(* create_pending_action, for look, say and take. *)
Submit(what) ==
  /\ PlayerCall("action") /\ MaySubmit(Acting)
  /\ nextAction < MaxActions /\ nextAction' = nextAction + 1
  /\ pending' = pending \cup {[id |-> nextAction + 1, by |-> Acting, what |-> what]}
  /\ presented' = nextAction + 1
  /\ Go(Acting, "open")
  /\ UNCHANGED <<sheet, rolls, itemAt, holder, log, heard, kit, asked, calls, event, stack,
                 spent, inferred, audience, pastVars>>

(* A tool that fails is an error of the whole trigger: any tool of a       *)
(* removed member, and ready_to_begin before the rolls.                    *)
ToolFails ==
  /\ TurnAt("call") /\ Running # GM
  /\ \/ ~IsActive(Acting)
     \/ kit[Acting] = "creation" /\ ~(Roll \subseteq sheet[Acting])
  /\ End

(* opening_narration resolves the member's location again; arbitrate does not. *)
AskGM ==
  /\ TurnAt("open")
  /\ IF presented = Opening
     THEN IF IsActive(Acting) THEN Call(GM, "opening") ELSE End
     ELSE Call(GM, "arbitration")

-----------------------------------------------------------------------------
(* The tools of the GM, and its narration. *)

GMCall == TurnAt("call") /\ Running = GM /\ kit[GM] = "arbitration"

AnyPending  == pending                                 \* faulty: whichever action the GM names
Presented   == {p \in pending : p.id = presented}

(* execute_approved_action: exactly one item of that name is at the location. *)
ThereOnly(i, name) == {j \in name : itemAt[j]} = {i}

LeaveBehind(i) == UNCHANGED itemAt                     \* faulty: the item stays where it was, too
PickUp(i)      == itemAt' = [itemAt EXCEPT ![i] = FALSE]

KeepPending(p) == UNCHANGED pending                    \* faulty: the row is not retired
Retire(p)      == pending' = pending \ {p}

Record(p, verdict) ==
  /\ log' = Append(log, [id |-> p.id, by |-> p.by, what |-> p.what, verdict |-> verdict])
  /\ Retire(p)
  /\ NextCall(GM)
  /\ UNCHANGED <<sheet, rolls, nextAction, heard, kit, asked, callVars, pastVars>>

(* resolve_pending_action: moving the item, logging and retiring are one transaction. *)
Approve ==
  /\ GMCall
  /\ \E p \in Presented :
       /\ \/ p.what = Talk /\ UNCHANGED <<itemAt, holder>>
          \/ /\ p.what # Talk
             /\ \E i \in Item : ThereOnly(i, p.what)
                              /\ PickUp(i) /\ holder' = [holder EXCEPT ![i] = p.by]
       /\ Record(p, "approved")

Reject ==
  /\ GMCall
  /\ \E p \in Presented : Record(p, "rejected") /\ UNCHANGED <<itemAt, holder>>

(* It was resolved before, or the item is not uniquely there. *)
ResolvingFails ==
  /\ GMCall
  /\ \A p \in Presented : p.what # Talk /\ \A i \in Item : ~ThereOnly(i, p.what)
  /\ End

Decided == Presented = {}

(* The GM's text is its reply; arbitrate insists on a decision. *)
Narrate ==
  /\ TurnAt("reply") /\ Running = GM
  /\ IF Decided
     THEN /\ at' = [at EXCEPT ![GM] = "off", ![Acting] = "narrate"]
          /\ stack' = Pop(stack)
          /\ kit' = [kit EXCEPT ![GM] = "none"]
          /\ asked' = [asked EXCEPT ![GM] = 0]
          /\ UNCHANGED <<storeVars, calls, event, spent, inferred, presented, audience, pastVars>>
     ELSE End

OnlyTheActing == {Acting}                              \* faulty: told to the acting player alone
AtTheLocation == active[Here]

(* The tool's result is stored; then, before the next call of the same     *)
(* message, deliver_narration reads who is there.                          *)
StoreResult ==
  /\ TurnAt("narrate")
  /\ Go(Acting, "deliver")
  /\ audience' = AtTheLocation
  /\ UNCHANGED <<storeVars, kit, asked, calls, event, stack, spent, inferred, presented, pastVars>>

(* append_location_narration: one append after the other. *)
DeliverTo(u) ==
  /\ TurnAt("deliver")
  /\ u \in audience
  /\ \A v \in audience : agent[Here][u] <= agent[Here][v]
  /\ heard' = [heard EXCEPT ![u] = @ \cup {presented}]
  /\ audience' = audience \ {u}
  /\ UNCHANGED <<sheet, rolls, itemAt, holder, nextAction, pending, log, turnVars, event, stack,
                 spent, inferred, presented, pastVars>>

Delivered ==
  /\ TurnAt("deliver") /\ audience = {}
  /\ NextCall(Acting)
  /\ presented' = Nothing
  /\ UNCHANGED <<storeVars, kit, asked, event, stack, spent, inferred, audience, pastVars>>

(* The player agent's text ends the trigger. *)
Reply ==
  /\ TurnAt("reply") /\ Running # GM
  /\ End

(* A store call or the backend fails, or the process stops: the store is   *)
(* left as it is, and the next trigger finds it so.                        *)
Break == ~Idle /\ End

-----------------------------------------------------------------------------
TriggerStep ==
  \/ NothingToOpen \/ Choose \/ TurnAwayRemoved
  \/ Infer \/ RunOut \/ RefuseCall \/ Reply
  \/ \E r \in Roll : RollOnce(r)
  \/ ReadyToBegin \/ ToolFails \/ AskGM
  \/ \E what \in Request : Submit(what)
  \/ Approve \/ Reject \/ ResolvingFails \/ Narrate
  \/ StoreResult \/ Delivered
  \/ \E u \in User : DeliverTo(u)

PlayStep ==
  \/ \E u \in User : Take("message", u) \/ Take("enter", u)
  \/ TriggerStep \/ Break

(* Members come and go at any moment of a trigger.  To revoke a token only *)
(* keeps others from coming, which nobody has to here: it is left out.     *)
MembersChange ==
  /\ MembershipStep
  /\ \A t \in Invite : Live(t) => Live(t)'
  /\ present' = present \cap active'[Here]
  /\ UNCHANGED <<storeVars, turnVars, callVars, began>>

Init == MembershipInit /\ PlayInit

Next == MembersChange \/ (PlayStep /\ UNCHANGED memberVars)

Spec == Init /\ [][Next]_vars

-----------------------------------------------------------------------------
(* Every variable stays in the range the code gives it. *)
TypeOK ==
  /\ MembershipTypeOK
  /\ sheet \in [User -> SUBSET Sheet] /\ rolls \in [User -> [Roll -> Nat]]
  /\ itemAt \in [Item -> BOOLEAN] /\ holder \in [Item -> User \cup {Nobody}]
  /\ nextAction \in Nat /\ pending \subseteq Action /\ log \in Seq(Resolved)
  /\ heard \in [User -> SUBSET (Nat \cup {Opening})]
  /\ event \in Trigger /\ stack \in Seq(Agent)
  /\ at \in [Agent -> Place] /\ kit \in [Agent -> Kit]
  /\ asked \in [Agent -> Nat] /\ calls \in [Agent -> Nat]
  /\ spent \in Nat /\ inferred \in Nat
  /\ presented \in Nat \cup {Nothing, Opening}
  /\ audience \subseteq User
  /\ began \in Nat /\ present \subseteq User

(* However agents nest and fail: none is left on the call stack, so that   *)
(* whenever the GM is to be asked it is not refused as recursive; and none *)
(* is asked more often than a chat allows, nor all the agents of a trigger *)
(* together more often than a trigger allows.                              *)
GMIsFree    == at[GM] = "off" => ~OnStack(GM)
BudgetHolds == inferred <= MaxTotal /\ \A a \in Agent : asked[a] <= MaxChat

NestedTurnsEnd == GMIsFree /\ BudgetHolds

(* An item is at the location or in one Adventurer's hands, and everybody  *)
(* holds as many items of a name as takes of theirs were approved: no      *)
(* crash, failed trigger or repeated approval loses or doubles one.        *)
ItemsFollowLog ==
  /\ \A i \in Item : itemAt[i] <=> holder[i] = Nobody
  /\ \A name \in Name, u \in User :
       Cardinality({i \in name : holder[i] = u}) =
       Cardinality({k \in DOMAIN log :
         log[k].by = u /\ log[k].what = name /\ log[k].verdict = "approved"})

Verdicts == {log[k].id : k \in DOMAIN log}

(* An action is pending or resolved, never both, and resolved once, and    *)
(* only what is resolved is narrated to anybody: ids are not reused and no *)
(* story is told that the GM has not decided, whatever failed triggers     *)
(* have left behind.                                                       *)
ResolvedOnce ==
  /\ \A j, k \in DOMAIN log : log[j].id = log[k].id => j = k
  /\ \A p \in pending : p.id <= nextAction /\ p.id \notin Verdicts
  /\ \A id \in Verdicts : id <= nextAction
  /\ \A u \in User : heard[u] \ {Opening} \subseteq Verdicts

(* What an Adventurer rolled is never rolled again, and nobody begins play *)
(* without having rolled everything.                                       *)
RolledOnce ==
  \A u \in User :
    /\ \A r \in Roll : rolls[u][r] = IF r \in sheet[u] THEN 1 ELSE 0
    /\ "ready" \in sheet[u] => Roll \subseteq sheet[u]

(* Before a player agent answers, each action of its turn was decided and  *)
(* its narration is in the history of everybody who had access throughout. *)
AnsweredIsWhole ==
  TurnAt("reply") /\ Running # GM =>
    /\ \A p \in pending : p.id <= began
    /\ \A id \in Verdicts : id > began => \A u \in present : id \in heard[u]

(* The GM resolves nothing but what this trigger's player has just         *)
(* submitted: what an earlier trigger left pending stays pending.          *)
LeftoversStay ==
  [][log' # log =>
       LET new == log'[Len(log')] IN new.by = Acting /\ new.id > began /\ new.id = presented]_vars

(* Whoever is removed while a trigger runs, or connected before, neither   *)
(* rolls nor submits an action.                                            *)
RemovedDoNothing ==
  [][\A u \in User \ active[Here] :
       sheet'[u] = sheet[u] /\ {p \in pending' : p.by = u} \subseteq pending]_vars

(* What is left of a trigger: inferences, then calls, then the places of a *)
(* call, then the histories a narration has yet to reach.                  *)
PlaceRank(place) ==
  CASE place = "call"    -> Cardinality(User) + 4
    [] place = "open"    -> Cardinality(User) + 3
    [] place = "nested"  -> Cardinality(User) + 2
    [] place = "narrate" -> Cardinality(User) + 1
    [] place = "choose"  -> 1
    [] OTHER             -> 0
CallRank == Cardinality(User) + 5
TurnRank == (MaxCalls + 1) * CallRank

Rank ==
  TurnRank * (MaxTotal - spent) + CallRank * (calls[Acting] + calls[GM])
    + PlaceRank(at[Acting]) + PlaceRank(at[GM]) + Cardinality(audience)

(* Every step of a trigger brings its end nearer, however the model calls  *)
(* tools and whatever members do meanwhile: a loop of model and tools ends *)
(* by the limits at the latest.                                            *)
TriggersWindDown ==
  [][~Idle /\ ~Idle' => Rank' < Rank \/ UNCHANGED <<storeVars, turnVars, callVars>>]_vars
=============================================================================
