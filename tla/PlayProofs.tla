----------------------------- MODULE PlayProofs -----------------------------
(***************************************************************************)
(* Theorems about Play, for any number of users, worlds, rolls, items and  *)
(* any limits.                                                             *)
(***************************************************************************)
EXTENDS Play, MembershipProofs, SequenceTheorems

Own    == {"infer", "call", "open", "narrate", "deliver", "reply"}
Nested == {"infer", "call", "reply"}
InCall == {"call", "open", "nested", "narrate", "deliver"}

(* The call stack holds the acting player's agent, and the GM above it     *)
(* exactly while that agent waits for it.                                  *)
Shape ==
  \/ /\ Idle /\ stack = <<>> /\ at = [a \in Agent |-> "off"]
  \/ /\ ~Idle /\ Acting \in User /\ at[GM] = "off"
     /\ stack = <<>> /\ at[Acting] = "choose"
  \/ /\ ~Idle /\ Acting \in User /\ at[GM] = "off"
     /\ stack = <<Acting>> /\ at[Acting] \in Own
  \/ /\ ~Idle /\ Acting \in User /\ at[GM] \in Nested
     /\ stack = <<Acting, GM>> /\ at[Acting] = "nested"

(* Whoever is in a call has one left to answer. *)
CallsLeft == \A a \in Agent : at[a] \in InCall => calls[a] >= 1

(* Every inference is charged. *)
Charged ==
  /\ inferred = spent /\ spent <= MaxTotal
  /\ \A a \in Agent : asked[a] <= MaxChat

(* Every id given out is pending or in the log, once. *)
Accounted ==
  /\ \A p, q \in pending : p.id = q.id => p = q
  /\ \A p \in pending : p.id \in 1..nextAction /\ p.id \notin Verdicts
  /\ \A id \in 1..nextAction : id \in Verdicts \/ \E p \in pending : p.id = id
  /\ Verdicts \subseteq 1..nextAction
  /\ \A j, k \in DOMAIN log : log[j].id = log[k].id => j = k

(* What is before the GM was submitted by this trigger's player, and what  *)
(* is told of it was decided.                                              *)
BeforeGM ==
  /\ at[Acting] \in {"open", "nested"} =>
       \/ presented = Opening
       \/ /\ presented \in 1..nextAction /\ presented > began
          /\ \A p \in pending : p.id = presented => p.by = Acting
  /\ at[Acting] \in {"narrate", "deliver"} => presented = Opening \/ presented \in Verdicts

(* Of this trigger's actions only the one before the GM may be pending, or *)
(* decided and not yet told to everybody who has been there throughout.    *)
Settled ==
  /\ \A p \in pending : p.id > began => at[Acting] \in {"open", "nested"} /\ p.id = presented
  /\ \A id \in Verdicts : id > began =>
       \/ at[Acting] \in {"nested", "narrate"} /\ id = presented
       \/ \A u \in present :
            id \in heard[u] \/ (at[Acting] = "deliver" /\ id = presented /\ u \in audience)

HeardDecided == \A u \in User : heard[u] \ {Opening} \subseteq Verdicts

TurnInv == began <= nextAction /\ present \subseteq active[Here] /\ BeforeGM /\ Settled

Inv ==
  /\ MembershipInv
  /\ TypeOK
  /\ Shape
  /\ CallsLeft
  /\ Charged
  /\ Accounted
  /\ HeardDecided
  /\ ~Idle => TurnInv

-----------------------------------------------------------------------------
(* The call stack. *)

LEMMA GMIsNoUser == GM \notin User /\ \A u \in User : u # GM
BY PlayAssumption

(* Who runs, and where. *)
LEMMA TurnFacts ==
  ASSUME Shape, NEW place, TurnAt(place)
  PROVE  /\ ~Idle /\ Acting \in User /\ Acting # GM
         /\ \/ /\ stack = <<Acting>> /\ Running = Acting
               /\ at[Acting] = place /\ place \in Own /\ at[GM] = "off"
            \/ /\ stack = <<Acting, GM>> /\ Running = GM
               /\ at[GM] = place /\ place \in Nested /\ at[Acting] = "nested"
<1>1. stack # <<>> /\ at[Running] = place
  BY DEF TurnAt
<1>2. CASE stack = <<Acting>>
  <2>1. Running = Acting
    BY <1>2 DEF Running
  <2> QED BY <1>1, <1>2, <2>1, GMIsNoUser DEF Shape
<1>3. CASE stack = <<Acting, GM>>
  <2>1. Running = GM
    BY <1>3 DEF Running
  <2> QED BY <1>1, <1>3, <2>1, GMIsNoUser DEF Shape
<1> QED BY <1>1, <1>2, <1>3 DEF Shape

(* The steps of a trigger that only the acting player's agent takes. *)
LEMMA ActingTurn ==
  ASSUME Shape, NEW place \in {"open", "narrate", "deliver"}, TurnAt(place)
  PROVE  /\ ~Idle /\ Acting \in User /\ Acting # GM
         /\ stack = <<Acting>> /\ Running = Acting /\ at[Acting] = place /\ at[GM] = "off"
BY TurnFacts DEF Nested

(* After End nothing is left of the trigger. *)
LEMMA EndShape == ASSUME End PROVE Shape'
BY DEF End, Shape, Idle, NoTrigger

LEMMA GMNotOnStack ==
  ASSUME Shape, stack = <<Acting>>, ~Idle
  PROVE  ~OnStack(GM)
BY GMIsNoUser DEF OnStack, Shape

(* Pushing and popping one agent. *)
LEMMA PushPop ==
  ASSUME NEW a, NEW b
  PROVE  Append(<<a>>, b) = <<a, b>> /\ Pop(<<a, b>>) = <<a>>
<1> DEFINE S == {a, b}
<1>s. /\ <<a>> \in Seq(S) /\ Len(<<a>>) = 1 /\ <<a>>[1] = a
      /\ <<a, b>> \in Seq(S) /\ Len(<<a, b>>) = 2 /\ <<a, b>>[1] = a /\ <<a, b>>[2] = b
      /\ b \in S
  OBVIOUS
<1> HIDE DEF S
<1>1. Append(<<a>>, b) = <<a, b>>
  <2>1. /\ Append(<<a>>, b) \in Seq(S) /\ Len(Append(<<a>>, b)) = 2
        /\ Append(<<a>>, b)[1] = a /\ Append(<<a>>, b)[2] = b
    BY <1>s, AppendProperties
  <2> DEFINE x == Append(<<a>>, b)
             y == <<a, b>>
  <2>2. x \in Seq(S) /\ y \in Seq(S) /\ Len(x) = Len(y) /\ \A i \in 1..Len(x) : x[i] = y[i]
    BY <1>s, <2>1
  <2> HIDE DEF x, y
  <2>3. x = y
    BY <2>2, SeqEqual
  <2> QED BY <2>3 DEF x, y
<1>2. Pop(<<a, b>>) = <<a>>
  <2>1. /\ Pop(<<a, b>>) \in Seq(S) /\ Len(Pop(<<a, b>>)) = 1 /\ Pop(<<a, b>>)[1] = a
    BY <1>s, SubSeqProperties DEF Pop
  <2> QED BY <1>s, <2>1, SeqEqual
<1> QED BY <1>1, <1>2

(* What AskGM does when it is not the end of the trigger. *)
LEMMA AskFacts ==
  ASSUME Shape, AskGM
  PROVE  \/ End
         \/ \E tools \in {"opening", "arbitration"} :
              /\ ~Idle /\ Acting \in User /\ stack = <<Acting>> /\ at[Acting] = "open"
              /\ stack' = <<Acting, GM>>
              /\ at' = [at EXCEPT ![Acting] = "nested", ![GM] = "infer"]
              /\ kit' = [kit EXCEPT ![GM] = tools]
              /\ asked' = [asked EXCEPT ![GM] = 0]
              /\ UNCHANGED <<storeVars, calls, event, spent, inferred, presented, audience, pastVars>>
<1>1. /\ ~Idle /\ Acting \in User /\ stack = <<Acting>> /\ at[Acting] = "open"
  BY ActingTurn DEF AskGM
<1>2. ~OnStack(GM) /\ Append(stack, GM) = <<Acting, GM>>
  BY <1>1, GMNotOnStack, PushPop
<1>3. ASSUME NEW tools \in {"opening", "arbitration"}, Call(GM, tools)
      PROVE  /\ stack' = <<Acting, GM>>
             /\ at' = [at EXCEPT ![Acting] = "nested", ![GM] = "infer"]
             /\ kit' = [kit EXCEPT ![GM] = tools]
             /\ asked' = [asked EXCEPT ![GM] = 0]
             /\ UNCHANGED <<storeVars, calls, event, spent, inferred, presented, audience, pastVars>>
  BY <1>2, <1>3 DEF Call, BudgetKept
<1>4. End \/ Call(GM, "opening") \/ Call(GM, "arbitration")
  BY DEF AskGM
<1> QED BY <1>1, <1>3, <1>4

(* What Narrate does when it is not the end of the trigger. *)
LEMMA NarrateFacts ==
  ASSUME Shape, Narrate
  PROVE  \/ End
         \/ /\ ~Idle /\ Acting \in User /\ Acting # GM
            /\ stack = <<Acting, GM>> /\ at[Acting] = "nested"
            /\ Decided /\ stack' = <<Acting>>
            /\ at' = [at EXCEPT ![GM] = "off", ![Acting] = "narrate"]
            /\ kit' = [kit EXCEPT ![GM] = "none"]
            /\ asked' = [asked EXCEPT ![GM] = 0]
            /\ UNCHANGED <<storeVars, calls, event, spent, inferred, presented, audience, pastVars>>
<1>1. ~Idle /\ Acting \in User /\ Acting # GM /\ stack = <<Acting, GM>> /\ at[Acting] = "nested"
  BY TurnFacts DEF Narrate
<1>2. Pop(stack) = <<Acting>>
  BY <1>1, PushPop
<1> QED BY <1>1, <1>2 DEF Narrate

(* The steps that end a trigger. *)
LEMMA Endings ==
  ASSUME NothingToOpen \/ TurnAwayRemoved \/ RunOut \/ Reply \/ ToolFails \/ ResolvingFails \/ Break
  PROVE  End
BY DEF NothingToOpen, TurnAwayRemoved, RunOut, Reply, ToolFails, ResolvingFails, Break

(* An answered call: its turn goes on with the next, or with the model. *)
LEMMA NextCallFacts ==
  ASSUME TypeOK, CallsLeft, NEW a \in Agent, at[a] \in InCall, NextCall(a)
  PROVE  /\ at'[a] \in {"infer", "call"}
         /\ calls' \in [Agent -> Nat] /\ calls'[a] = calls[a] - 1
         /\ at'[a] = "call" => calls'[a] >= 1
         /\ \A b \in Agent : b # a => calls'[b] = calls[b] /\ at'[b] = at[b]
         /\ at' \in [Agent -> Place]
<1>1. calls[a] \in Nat /\ calls[a] >= 1 /\ at \in [Agent -> Place] /\ calls \in [Agent -> Nat]
  BY DEF TypeOK, CallsLeft
<1>2. /\ calls' = [calls EXCEPT ![a] = calls[a] - 1]
      /\ \/ calls[a] = 1 /\ at' = [at EXCEPT ![a] = "infer"]
         \/ calls[a] # 1 /\ at' = [at EXCEPT ![a] = "call"]
  BY DEF NextCall, Go
<1>3. calls[a] - 1 \in Nat
  BY <1>1
<1> QED BY <1>1, <1>2, <1>3 DEF Place

-----------------------------------------------------------------------------
(* Types. *)

LEMMA AgentFacts == GM \in Agent /\ User \subseteq Agent
BY DEF Agent

LEMMA EndTypes ==
  ASSUME TypeOK, MembershipTypeOK', End
  PROVE  TypeOK'
<1>1. stack' \in Seq(Agent)
  BY EmptySeq DEF End
<1>2. event' \in Trigger
  BY DEF End, NoTrigger, Trigger
<1>3. /\ at' \in [Agent -> Place] /\ kit' \in [Agent -> Kit]
      /\ asked' \in [Agent -> Nat] /\ calls' \in [Agent -> Nat]
      /\ presented' \in Nat \cup {Nothing, Opening}
      /\ audience' \subseteq User /\ present' \subseteq User
      /\ spent' \in Nat /\ inferred' \in Nat /\ began' \in Nat
  BY DEF End, Place, Kit
<1> QED BY <1>1, <1>2, <1>3 DEF TypeOK, End, storeVars

(* The decided action is logged and its row retired. *)
LEMMA RecordTypes ==
  ASSUME TypeOK, MembershipTypeOK', Shape, CallsLeft, GMCall,
         NEW p \in Presented, NEW verdict \in {"approved", "rejected"}, Record(p, verdict),
         itemAt' \in [Item -> BOOLEAN], holder' \in [Item -> User \cup {Nobody}]
  PROVE  TypeOK'
<1>1. stack = <<Acting, GM>> /\ at[GM] = "call"
  BY TurnFacts DEF GMCall, Own
<1>2. p \in Action
  BY DEF TypeOK, Presented
<1>3. [id |-> p.id, by |-> p.by, what |-> p.what, verdict |-> verdict] \in Resolved
  BY <1>2 DEF Action, Resolved
<1>4. log' \in Seq(Resolved)
  BY <1>3, AppendProperties DEF Record, TypeOK
<1>5. NextCall(GM) /\ GM \in Agent /\ at[GM] \in InCall
  BY <1>1, AgentFacts DEF Record, InCall
<1>6. calls' \in [Agent -> Nat] /\ at' \in [Agent -> Place]
  BY <1>5, NextCallFacts
<1>7. pending' \subseteq Action
  BY DEF Record, Retire, TypeOK
<1> QED BY <1>4, <1>6, <1>7 DEF TypeOK, Record, callVars, pastVars

(* The steps of the innermost turn that all agents take. *)
LEMMA TurnTypes ==
  ASSUME TypeOK, MembershipTypeOK', Shape, CallsLeft, Infer \/ RefuseCall
  PROVE  TypeOK'
<1>1. Running \in Agent
  BY TurnFacts, AgentFacts DEF Infer, RefuseCall
<1>2. CASE Infer
  <2>1. asked' \in [Agent -> Nat] /\ spent' \in Nat /\ inferred' \in Nat
    BY <1>1, <1>2 DEF TypeOK, Infer, Spend
  <2>2. at' \in [Agent -> Place] /\ calls' \in [Agent -> Nat]
    <3>1. CASE Go(Running, "reply") /\ UNCHANGED calls
      BY <1>1, <3>1 DEF TypeOK, Go, Place
    <3>2. ASSUME NEW n \in 1..MaxCalls, Go(Running, "call"), calls' = [calls EXCEPT ![Running] = n]
          PROVE  at' \in [Agent -> Place] /\ calls' \in [Agent -> Nat]
      BY <1>1, <3>2, PlayAssumption DEF TypeOK, Go, Place
    <3> QED BY <1>2, <3>1, <3>2 DEF Infer
  <2> QED BY <1>2, <2>1, <2>2 DEF Infer, TypeOK, storeVars, pastVars
<1>3. CASE RefuseCall
  <2>1. at[Running] \in InCall
    BY <1>3 DEF RefuseCall, TurnAt, InCall
  <2>2. at' \in [Agent -> Place] /\ calls' \in [Agent -> Nat]
    BY <1>1, <1>3, <2>1, NextCallFacts DEF RefuseCall
  <2> QED BY <1>3, <2>2 DEF RefuseCall, TypeOK, storeVars, callVars, pastVars
<1> QED BY <1>2, <1>3

(* The acting player's agent calls a tool. *)
LEMMA PlayerFacts ==
  ASSUME Shape, NEW tools, PlayerCall(tools)
  PROVE  /\ ~Idle /\ Acting \in User /\ Acting \in Agent /\ Acting # GM
         /\ stack = <<Acting>> /\ Running = Acting /\ at[Acting] = "call" /\ at[GM] = "off"
BY TurnFacts, AgentFacts DEF PlayerCall

LEMMA ToolTypes ==
  ASSUME TypeOK, MembershipTypeOK', Shape, CallsLeft,
         (\E r \in Roll : RollOnce(r)) \/ ReadyToBegin \/ (\E what \in Request : Submit(what))
  PROVE  TypeOK'
<1>1. CASE \E r \in Roll : RollOnce(r)
  <2>1. PICK r \in Roll : RollOnce(r)
    BY <1>1
  <2>2. Acting \in User /\ Acting \in Agent /\ at[Acting] \in InCall
    BY <2>1, PlayerFacts DEF RollOnce, InCall
  <2>3. at' \in [Agent -> Place] /\ calls' \in [Agent -> Nat]
    BY <2>1, <2>2, NextCallFacts DEF RollOnce
  <2>4. sheet' \in [User -> SUBSET Sheet]
    BY <2>1, <2>2 DEF RollOnce, TypeOK, Sheet
  <2>5. rolls' \in [User -> [Roll -> Nat]]
    BY <2>1, <2>2 DEF RollOnce, TypeOK
  <2> QED BY <2>1, <2>3, <2>4, <2>5 DEF RollOnce, TypeOK, callVars, pastVars
<1>2. CASE ReadyToBegin
  <2>1. Acting \in User /\ Acting \in Agent
    BY <1>2, PlayerFacts DEF ReadyToBegin
  <2>2. sheet' \in [User -> SUBSET Sheet] /\ at' \in [Agent -> Place]
    BY <1>2, <2>1 DEF ReadyToBegin, TypeOK, Go, Place
  <2> QED BY <1>2, <2>2 DEF ReadyToBegin, TypeOK, pastVars
<1>3. CASE \E what \in Request : Submit(what)
  <2>1. PICK what \in Request : Submit(what)
    BY <1>3
  <2>2. Acting \in User /\ Acting \in Agent
    BY <2>1, PlayerFacts DEF Submit
  <2>3. at' \in [Agent -> Place] /\ nextAction' \in Nat /\ presented' \in Nat
    BY <2>1, <2>2 DEF Submit, TypeOK, Go, Place
  <2>4. pending' \subseteq Action
    BY <2>1, <2>2 DEF Submit, TypeOK, Action
  <2> QED BY <2>1, <2>3, <2>4 DEF Submit, TypeOK, pastVars
<1> QED BY <1>1, <1>2, <1>3

LEMMA GMTypes ==
  ASSUME TypeOK, MembershipTypeOK', Shape, CallsLeft, AskGM \/ Narrate \/ Approve \/ Reject
  PROVE  TypeOK'
<1>1. CASE AskGM
  <2>1. CASE ~End
    <3>1. PICK tools \in {"opening", "arbitration"} :
            /\ Acting \in User
            /\ stack' = <<Acting, GM>>
            /\ at' = [at EXCEPT ![Acting] = "nested", ![GM] = "infer"]
            /\ kit' = [kit EXCEPT ![GM] = tools]
            /\ asked' = [asked EXCEPT ![GM] = 0]
            /\ UNCHANGED <<storeVars, calls, event, spent, inferred, presented, audience, pastVars>>
      BY <1>1, <2>1, AskFacts
    <3>2. stack' \in Seq(Agent)
      BY <3>1, AgentFacts
    <3>3. /\ at' \in [Agent -> Place] /\ kit' \in [Agent -> Kit] /\ asked' \in [Agent -> Nat]
      BY <3>1 DEF TypeOK, Place, Kit
    <3> QED BY <3>1, <3>2, <3>3 DEF TypeOK, storeVars, pastVars
  <2> QED BY <2>1, EndTypes
<1>2. CASE Narrate
  <2>1. CASE ~End
    <3>1. /\ Acting \in User /\ stack' = <<Acting>>
          /\ at' = [at EXCEPT ![GM] = "off", ![Acting] = "narrate"]
          /\ kit' = [kit EXCEPT ![GM] = "none"]
          /\ asked' = [asked EXCEPT ![GM] = 0]
          /\ UNCHANGED <<storeVars, calls, event, spent, inferred, presented, audience, pastVars>>
      BY <1>2, <2>1, NarrateFacts
    <3>2. stack' \in Seq(Agent)
      BY <3>1, AgentFacts
    <3>3. /\ at' \in [Agent -> Place] /\ kit' \in [Agent -> Kit] /\ asked' \in [Agent -> Nat]
      BY <3>1 DEF TypeOK, Place, Kit
    <3> QED BY <3>1, <3>2, <3>3 DEF TypeOK, storeVars, pastVars
  <2> QED BY <2>1, EndTypes
<1>3. CASE Approve
  <2>1. PICK p \in Presented :
          /\ \/ UNCHANGED <<itemAt, holder>>
             \/ \E i \in Item : PickUp(i) /\ holder' = [holder EXCEPT ![i] = p.by]
          /\ Record(p, "approved")
    BY <1>3 DEF Approve
  <2>2. p.by \in User
    BY DEF Presented, TypeOK, Action
  <2>3. itemAt' \in [Item -> BOOLEAN] /\ holder' \in [Item -> User \cup {Nobody}]
    BY <2>1, <2>2 DEF TypeOK, PickUp
  <2>4. GMCall
    BY <1>3 DEF Approve
  <2> QED BY <2>1, <2>3, <2>4, RecordTypes
<1>4. CASE Reject
  <2>1. PICK p \in Presented : Record(p, "rejected") /\ UNCHANGED <<itemAt, holder>>
    BY <1>4 DEF Reject
  <2>2. GMCall /\ itemAt' \in [Item -> BOOLEAN] /\ holder' \in [Item -> User \cup {Nobody}]
    BY <1>4, <2>1 DEF Reject, TypeOK
  <2> QED BY <2>1, <2>2, RecordTypes
<1> QED BY <1>1, <1>2, <1>3, <1>4

LEMMA VerdictsAreIds ==
  ASSUME TypeOK
  PROVE  /\ Len(log) \in Nat /\ DOMAIN log = 1..Len(log)
         /\ \A k \in DOMAIN log : log[k] \in Resolved
         /\ Verdicts \subseteq Nat
<1>1. log \in Seq(Resolved)
  BY DEF TypeOK
<1>2. Len(log) \in Nat /\ DOMAIN log = 1..Len(log) /\ \A k \in DOMAIN log : log[k] \in Resolved
  BY <1>1
<1> QED BY <1>2 DEF Verdicts, Resolved

LEMMA DeliveryTypes ==
  ASSUME TypeOK, MembershipTypeOK, MembershipTypeOK', Shape, CallsLeft, ~Idle => BeforeGM,
         StoreResult \/ Delivered \/ (\E u \in User : DeliverTo(u))
  PROVE  TypeOK'
<1>1. CASE StoreResult
  <2>1. Acting \in Agent
    BY <1>1, ActingTurn, AgentFacts DEF StoreResult
  <2>2. at' \in [Agent -> Place] /\ audience' \subseteq User
    BY <1>1, <2>1, PlayAssumption DEF StoreResult, TypeOK, MembershipTypeOK, Go, Place, AtTheLocation
  <2> QED BY <1>1, <2>2 DEF StoreResult, TypeOK, storeVars, pastVars
<1>2. CASE Delivered
  <2>1. Acting \in Agent /\ at[Acting] \in InCall
    BY <1>2, ActingTurn, AgentFacts DEF Delivered, InCall
  <2>2. at' \in [Agent -> Place] /\ calls' \in [Agent -> Nat]
    BY <1>2, <2>1, NextCallFacts DEF Delivered
  <2> QED BY <1>2, <2>2 DEF Delivered, TypeOK, storeVars, pastVars
<1>3. CASE \E u \in User : DeliverTo(u)
  <2>1. PICK u \in User : DeliverTo(u)
    BY <1>3
  <2>2. ~Idle /\ at[Acting] = "deliver" /\ Acting \in User
    BY <2>1, ActingTurn DEF DeliverTo
  <2>v. presented \in Nat \cup {Opening}
    BY <2>2, VerdictsAreIds DEF BeforeGM
  <2>3. heard' \in [User -> SUBSET (Nat \cup {Opening})]
    BY <2>1, <2>v DEF DeliverTo, TypeOK
  <2> QED BY <2>1, <2>3 DEF DeliverTo, TypeOK, turnVars, pastVars
<1> QED BY <1>1, <1>2, <1>3

(* Every step of the trigger. *)
Steps ==
  \/ End
  \/ \E kind \in {"message", "enter"}, u \in User : Take(kind, u)
  \/ Choose \/ Infer \/ RefuseCall
  \/ (\E r \in Roll : RollOnce(r)) \/ ReadyToBegin \/ (\E what \in Request : Submit(what))
  \/ AskGM \/ Approve \/ Reject \/ Narrate
  \/ StoreResult \/ Delivered \/ (\E u \in User : DeliverTo(u))

LEMMA StepCases ==
  ASSUME [Next]_vars
  PROVE  \/ UNCHANGED vars
         \/ MembersChange
         \/ Steps /\ UNCHANGED memberVars
<1>1. CASE PlayStep /\ UNCHANGED memberVars
  <2>1. CASE \E u \in User : Take("message", u) \/ Take("enter", u)
    BY <1>1, <2>1 DEF Steps
  <2>2. CASE TriggerStep
    BY <1>1, <2>2, Endings DEF TriggerStep, Steps
  <2>3. CASE Break
    BY <1>1, <2>3, Endings DEF Steps
  <2> QED BY <1>1, <2>1, <2>2, <2>3 DEF PlayStep
<1> QED BY <1>1 DEF Next

LEMMA TypesKept ==
  ASSUME Inv, MembershipInv', [Next]_vars
  PROVE  TypeOK'
<1> USE DEF Inv, MembershipInv, TurnInv
<1>1. CASE UNCHANGED vars
  BY <1>1 DEF vars, playVars, storeVars, turnVars, callVars, pastVars, TypeOK
<1>2. CASE MembersChange
  BY <1>2 DEF MembersChange, TypeOK, storeVars, turnVars, callVars
<1>3. CASE \E kind \in {"message", "enter"}, u \in User : Take(kind, u)
  <2>1. PICK kind \in {"message", "enter"}, u \in User : Take(kind, u)
    BY <1>3
  <2>2. event' \in Trigger /\ began' \in Nat /\ present' \subseteq User
    BY <2>1, PlayAssumption DEF Take, Trigger, TypeOK, MembershipTypeOK
  <2>3. at' \in [Agent -> Place]
    BY <2>1, AgentFacts DEF Take, TypeOK, Go, Place
  <2> QED BY <2>1, <2>2, <2>3 DEF Take, TypeOK, storeVars
<1>4. CASE Choose
  <2>1. Acting \in User /\ Acting \in Agent
    BY <1>4, AgentFacts DEF Choose, Shape
  <2>2. at' \in [Agent -> Place] /\ kit' \in [Agent -> Kit]
    BY <1>4, <2>1 DEF Choose, TypeOK, Go, Place, Kit
  <2>3. stack' \in Seq(Agent)
    BY <1>4, <2>1 DEF Choose
  <2> QED BY <1>4, <2>2, <2>3 DEF Choose, TypeOK, storeVars, pastVars
<1>5. CASE End
  BY <1>5, EndTypes
<1> QED BY StepCases, <1>1, <1>2, <1>3, <1>4, <1>5, TurnTypes, ToolTypes, GMTypes, DeliveryTypes
     DEF Steps

-----------------------------------------------------------------------------
(* The call stack and the calls of each turn. *)

(* The innermost turn moves on, within the places of a running turn. *)
LEMMA MovesOn ==
  ASSUME TypeOK, Shape, stack # <<>>, NEW place \in Own, place \in Nested \/ Running # GM,
         Go(Running, place), UNCHANGED <<event, stack>>
  PROVE  Shape'
<1>1. Idle' = Idle /\ Acting' = Acting
  BY DEF Idle, Acting
<1> USE DEF Go
<1>2. CASE stack = <<Acting>>
  <2>1. Running = Acting /\ Acting \in Agent /\ Acting # GM
    BY <1>2, GMIsNoUser, AgentFacts DEF Running, Shape
  <2>2. at'[Acting] = place /\ at'[GM] = at[GM]
    BY <2>1, AgentFacts DEF TypeOK
  <2>3. ~Idle /\ Acting \in User /\ at[GM] = "off"
    BY <1>2 DEF Shape
  <2> QED BY <1>1, <1>2, <2>2, <2>3 DEF Shape, Own, Nested
<1>3. CASE stack = <<Acting, GM>>
  <2>1. Running = GM /\ Acting \in Agent /\ Acting # GM
    BY <1>3, GMIsNoUser, AgentFacts DEF Running, Shape
  <2>2. at'[GM] = place /\ at'[Acting] = at[Acting]
    BY <2>1, AgentFacts DEF TypeOK
  <2>3. ~Idle /\ Acting \in User /\ at[Acting] = "nested"
    BY <1>3 DEF Shape
  <2> QED BY <1>1, <1>3, <2>2, <2>3 DEF Shape
<1> QED BY <1>2, <1>3 DEF Shape

LEMMA NextCallShape ==
  ASSUME TypeOK, Shape, NEW place, TurnAt(place), NextCall(Running), UNCHANGED <<event, stack>>
  PROVE  Shape'
<1>1. Go(Running, "infer") \/ Go(Running, "call")
  BY DEF NextCall
<1> QED BY <1>1, MovesOn DEF TurnAt, Own, Nested

LEMMA GMRuns ==
  ASSUME Shape, GMCall
  PROVE  /\ TurnAt("call") /\ Running = GM /\ ~Idle /\ Acting \in User /\ Acting # GM
         /\ stack = <<Acting, GM>> /\ at[Acting] = "nested" /\ at[GM] = "call"
BY TurnFacts DEF GMCall

LEMMA ShapeKept ==
  ASSUME Inv, [Next]_vars
  PROVE  Shape'
<1> USE DEF Inv
<1>1. CASE UNCHANGED vars
  BY <1>1 DEF vars, playVars, turnVars, callVars, Shape, Idle, Acting
<1>2. CASE MembersChange
  BY <1>2 DEF MembersChange, turnVars, callVars, Shape, Idle, Acting
<1>3. CASE \E kind \in {"message", "enter"}, u \in User : Take(kind, u)
  <2>1. PICK kind \in {"message", "enter"}, u \in User : Take(kind, u)
    BY <1>3
  <2>2. stack = <<>> /\ at = [a \in Agent |-> "off"] /\ stack' = stack
    BY <2>1 DEF Take, Shape
  <2>3. ~Idle' /\ Acting' = u
    BY <2>1 DEF Take, Idle, Acting
  <2>4. at'[u] = "choose" /\ at'[GM] = "off"
    BY <2>1, <2>2, AgentFacts, GMIsNoUser DEF Take, Go
  <2> QED BY <2>2, <2>3, <2>4 DEF Shape
<1>4. CASE Choose
  <2>1. Acting \in User /\ Acting \in Agent /\ Acting # GM /\ at[GM] = "off" /\ ~Idle
    BY <1>4, AgentFacts, GMIsNoUser DEF Choose, Shape
  <2>2. at'[Acting] = "infer" /\ at'[GM] = "off" /\ stack' = <<Acting>> /\ event' = event
    BY <1>4, <2>1, AgentFacts DEF Choose, Go, TypeOK
  <2> QED BY <2>1, <2>2 DEF Shape, Idle, Acting, Own
<1>5. CASE End
  BY <1>5, EndShape
<1>6. CASE Infer
  BY <1>6, MovesOn DEF Infer, TurnAt, Own, Nested
<1>7. CASE RefuseCall
  BY <1>7, NextCallShape DEF RefuseCall, callVars
<1>8. CASE \E r \in Roll : RollOnce(r)
  <2>1. TurnAt("call") /\ NextCall(Running) /\ UNCHANGED <<event, stack>>
    BY <1>8, PlayerFacts DEF RollOnce, PlayerCall, callVars
  <2> QED BY <2>1, NextCallShape
<1>9. CASE ReadyToBegin \/ (\E what \in Request : Submit(what))
  <2>1. /\ stack # <<>> /\ Running # GM /\ Go(Running, "open") /\ UNCHANGED <<event, stack>>
    BY <1>9, PlayerFacts DEF ReadyToBegin, Submit, PlayerCall, TurnAt
  <2> QED BY <2>1, MovesOn DEF Own
<1>10. CASE AskGM
  <2>1. CASE ~End
    <3>1. /\ ~Idle /\ Acting \in User
          /\ stack' = <<Acting, GM>>
          /\ at' = [at EXCEPT ![Acting] = "nested", ![GM] = "infer"]
          /\ event' = event
      BY <1>10, <2>1, AskFacts
    <3>2. at'[Acting] = "nested" /\ at'[GM] = "infer"
      BY <3>1, AgentFacts, GMIsNoUser DEF TypeOK
    <3> QED BY <3>1, <3>2 DEF Shape, Idle, Acting, Nested
  <2> QED BY <2>1, EndShape
<1>11. CASE Approve \/ Reject
  <2>1. TurnAt("call") /\ NextCall(Running) /\ UNCHANGED <<event, stack>>
    BY <1>11, GMRuns DEF Approve, Reject, Record, callVars
  <2> QED BY <2>1, NextCallShape
<1>12. CASE Narrate
  <2>1. CASE ~End
    <3>1. /\ ~Idle /\ Acting \in User
          /\ stack' = <<Acting>>
          /\ at' = [at EXCEPT ![GM] = "off", ![Acting] = "narrate"]
          /\ event' = event
      BY <1>12, <2>1, NarrateFacts
    <3>2. at'[Acting] = "narrate" /\ at'[GM] = "off"
      BY <3>1, AgentFacts, GMIsNoUser DEF TypeOK
    <3> QED BY <3>1, <3>2 DEF Shape, Idle, Acting, Own
  <2> QED BY <2>1, EndShape
<1>13. CASE StoreResult
  <2>1. stack # <<>> /\ Running # GM /\ Go(Running, "deliver") /\ UNCHANGED <<event, stack>>
    BY <1>13, ActingTurn DEF StoreResult
  <2> QED BY <2>1, MovesOn DEF Own
<1>14. CASE Delivered
  <2>1. TurnAt("deliver") /\ NextCall(Running) /\ UNCHANGED <<event, stack>>
    BY <1>14, ActingTurn DEF Delivered
  <2> QED BY <2>1, NextCallShape
<1>15. CASE \E u \in User : DeliverTo(u)
  BY <1>15 DEF DeliverTo, turnVars, Shape, Idle, Acting
<1> QED BY StepCases, <1>1, <1>2, <1>3, <1>4, <1>5, <1>6, <1>7, <1>8, <1>9, <1>10, <1>11, <1>12,
        <1>13, <1>14, <1>15 DEF Steps

LEMMA NextCallLeft ==
  ASSUME TypeOK, CallsLeft, Shape, NEW place \in InCall, TurnAt(place), NextCall(Running)
  PROVE  CallsLeft'
<1>1. Running \in Agent /\ at[Running] \in InCall
  BY TurnFacts, AgentFacts DEF TurnAt
<1> QED BY <1>1, NextCallFacts DEF CallsLeft, InCall

(* A turn that stays in its call keeps what is left. *)
LEMMA PlaceLeft ==
  ASSUME TypeOK, CallsLeft, NEW a \in Agent, NEW place \in Place, Go(a, place), UNCHANGED calls,
         place \in InCall => at[a] \in InCall
  PROVE  CallsLeft'
BY DEF TypeOK, CallsLeft, Go

LEMMA CallsLeftKept ==
  ASSUME Inv, [Next]_vars
  PROVE  CallsLeft'
<1> USE DEF Inv
<1>1. CASE UNCHANGED vars
  BY <1>1 DEF vars, playVars, turnVars, CallsLeft
<1>2. CASE MembersChange
  BY <1>2 DEF MembersChange, turnVars, CallsLeft
<1>3. CASE \E kind \in {"message", "enter"}, u \in User : Take(kind, u)
  BY <1>3, AgentFacts DEF Take, Go, TypeOK, CallsLeft, InCall
<1>4. CASE Choose
  BY <1>4, PlaceLeft, AgentFacts DEF Choose, Shape, InCall, Place
<1>5. CASE End
  BY <1>5 DEF End, CallsLeft, InCall
<1>6. CASE Infer
  <2>1. Running \in Agent
    BY <1>6, TurnFacts, AgentFacts DEF Infer
  <2>2. CASE Go(Running, "reply") /\ UNCHANGED calls
    BY <2>1, <2>2, PlaceLeft DEF InCall, Place
  <2>3. CASE \E n \in 1..MaxCalls : Go(Running, "call") /\ calls' = [calls EXCEPT ![Running] = n]
    BY <2>1, <2>3, PlayAssumption DEF Go, TypeOK, CallsLeft
  <2> QED BY <1>6, <2>2, <2>3 DEF Infer
<1>7. CASE RefuseCall
  BY <1>7, NextCallLeft DEF RefuseCall, InCall
<1>8. CASE \E r \in Roll : RollOnce(r)
  BY <1>8, PlayerFacts, NextCallLeft DEF RollOnce, PlayerCall, InCall
<1>9. CASE ReadyToBegin \/ (\E what \in Request : Submit(what))
  <2>1. Acting \in Agent /\ at[Acting] = "call" /\ Go(Acting, "open") /\ UNCHANGED calls
    BY <1>9, PlayerFacts DEF ReadyToBegin, Submit
  <2> QED BY <2>1, PlaceLeft DEF InCall, Place
<1>10. CASE AskGM
  <2>1. CASE ~End
    <3>1. /\ Acting \in User /\ at[Acting] = "open"
          /\ at' = [at EXCEPT ![Acting] = "nested", ![GM] = "infer"] /\ UNCHANGED calls
      BY <1>10, <2>1, AskFacts
    <3> QED BY <3>1, AgentFacts DEF TypeOK, CallsLeft, InCall
  <2> QED BY <2>1, <1>5
<1>11. CASE Approve \/ Reject
  BY <1>11, GMRuns, NextCallLeft DEF Approve, Reject, Record, InCall
<1>12. CASE Narrate
  <2>1. CASE ~End
    <3>1. /\ Acting \in User /\ at[Acting] = "nested"
          /\ at' = [at EXCEPT ![GM] = "off", ![Acting] = "narrate"] /\ UNCHANGED calls
      BY <1>12, <2>1, NarrateFacts
    <3> QED BY <3>1, AgentFacts DEF TypeOK, CallsLeft, InCall
  <2> QED BY <2>1, <1>5
<1>13. CASE StoreResult
  BY <1>13, ActingTurn, AgentFacts, PlaceLeft DEF StoreResult, InCall, Place
<1>14. CASE Delivered
  BY <1>14, ActingTurn, NextCallLeft DEF Delivered, InCall
<1>15. CASE \E u \in User : DeliverTo(u)
  BY <1>15 DEF DeliverTo, turnVars, CallsLeft
<1> QED BY StepCases, <1>1, <1>2, <1>3, <1>4, <1>5, <1>6, <1>7, <1>8, <1>9, <1>10, <1>11, <1>12,
        <1>13, <1>14, <1>15 DEF Steps

-----------------------------------------------------------------------------
(* The budgets: only Infer charges, and only AskGM, Narrate and the end of *)
(* the trigger free what an agent was asked.                               *)

LEMMA ChargedKept ==
  ASSUME Inv, [Next]_vars
  PROVE  Charged'
<1> USE DEF Inv
<1>t. /\ asked \in [Agent -> Nat] /\ spent \in Nat /\ inferred \in Nat
      /\ MaxChat \in Nat /\ MaxTotal \in Nat
  BY PlayAssumption DEF TypeOK
<1>1. CASE UNCHANGED <<asked, spent, inferred>>
  BY <1>1 DEF Charged
<1>2. CASE End
  BY <1>2, <1>t DEF End, Charged
<1>3. CASE Infer
  <2>1. Running \in Agent
    BY <1>3, TurnFacts, AgentFacts DEF Infer
  <2>2. asked' = [asked EXCEPT ![Running] = @ + 1] /\ asked[Running] < MaxChat
    BY <1>3 DEF Infer, WithinBudget, Spend
  <2>3. spent < MaxTotal /\ spent' = spent + 1 /\ inferred' = inferred + 1
    BY <1>3, <1>t DEF Infer, WithinBudget, Spend, Charged
  <2>4. \A a \in Agent : asked'[a] <= MaxChat
    BY <2>1, <2>2, <1>t DEF Charged
  <2> QED BY <2>3, <2>4, <1>t DEF Charged
<1>4. CASE asked' = [asked EXCEPT ![GM] = 0] /\ UNCHANGED <<spent, inferred>>
  BY <1>4, <1>t DEF Charged
<1>5. CASE AskGM
  BY <1>5, <1>2, <1>4, AskFacts
<1>6. CASE Narrate
  BY <1>6, <1>2, <1>4, NarrateFacts
<1>7. CASE Steps
  BY <1>1, <1>2, <1>3, <1>5, <1>6, <1>7 DEF Steps, Take, Choose, RefuseCall, RollOnce,
     ReadyToBegin, Submit, Approve, Reject, Record, StoreResult, Delivered, DeliverTo, callVars,
     turnVars
<1>8. CASE UNCHANGED vars \/ MembersChange
  BY <1>1, <1>8 DEF vars, playVars, MembersChange, callVars, turnVars
<1> QED BY StepCases, <1>7, <1>8

-----------------------------------------------------------------------------
(* The actions and their verdicts. *)

Decision(p, verdict) ==
  /\ p \in Presented
  /\ log' = Append(log, [id |-> p.id, by |-> p.by, what |-> p.what, verdict |-> verdict])
  /\ pending' = pending \ {p}
  /\ UNCHANGED nextAction

(* Only submitting and deciding touch the actions. *)
LEMMA ActionSteps ==
  ASSUME [Next]_vars
  PROVE  \/ UNCHANGED <<nextAction, pending, log>>
         \/ \E what \in Request : Submit(what)
         \/ (Approve \/ Reject) /\ \E p \in Presented, verdict \in {"approved", "rejected"} :
              Decision(p, verdict)
<1>1. CASE UNCHANGED vars \/ MembersChange
  BY <1>1 DEF vars, playVars, MembersChange, storeVars
<1>2. CASE Approve
  BY <1>2 DEF Approve, Record, Retire, Decision
<1>3. CASE Reject
  BY <1>3 DEF Reject, Record, Retire, Decision
<1>4. CASE Steps
  BY <1>2, <1>3, <1>4 DEF Steps, End, Take, Choose, Infer, RefuseCall, RollOnce, ReadyToBegin,
     AskGM, Call, Narrate, StoreResult, Delivered, DeliverTo, storeVars
<1> QED BY StepCases, <1>1, <1>4

LEMMA DecisionFacts ==
  ASSUME TypeOK, NEW p \in Presented, NEW verdict \in {"approved", "rejected"},
         Decision(p, verdict)
  PROVE  /\ p \in pending /\ p.id = presented /\ p \in Action
         /\ Len(log) \in Nat /\ DOMAIN log = 1..Len(log) /\ DOMAIN log' = 1..(Len(log) + 1)
         /\ \A k \in DOMAIN log : log'[k] = log[k]
         /\ log'[Len(log) + 1] =
              [id |-> p.id, by |-> p.by, what |-> p.what, verdict |-> verdict]
         /\ log'[Len(log) + 1].id = p.id /\ log'[Len(log) + 1].by = p.by
         /\ Verdicts' = Verdicts \cup {p.id}
<1> DEFINE new == [id |-> p.id, by |-> p.by, what |-> p.what, verdict |-> verdict]
<1>1. p \in pending /\ p.id = presented /\ p \in Action
  BY DEF Presented, TypeOK
<1>2. new \in Resolved /\ log \in Seq(Resolved)
  BY <1>1 DEF Action, Resolved, TypeOK
<1>3. log' = Append(log, new)
  BY DEF Decision
<1>4. new.id = p.id /\ new.by = p.by
  OBVIOUS
<1> HIDE DEF new
<1>5. /\ log' \in Seq(Resolved) /\ Len(log') = Len(log) + 1
      /\ \A k \in 1..Len(log) : log'[k] = log[k]
      /\ log'[Len(log) + 1] = new
  BY <1>2, <1>3, AppendProperties
<1>6. Len(log) \in Nat /\ DOMAIN log = 1..Len(log) /\ DOMAIN log' = 1..(Len(log) + 1)
  BY <1>2, <1>5
<1>7. Verdicts' = Verdicts \cup {p.id}
  BY <1>4, <1>5, <1>6 DEF Verdicts
<1>8. log'[Len(log) + 1].id = p.id /\ log'[Len(log) + 1].by = p.by
  BY <1>4, <1>5
<1> QED BY <1>1, <1>5, <1>6, <1>7, <1>8 DEF new

LEMMA AccountedKept ==
  ASSUME Inv, [Next]_vars
  PROVE  Accounted'
<1> USE DEF Inv
<1>t. nextAction \in Nat /\ pending \subseteq Action /\ Verdicts \subseteq Nat
  BY VerdictsAreIds DEF TypeOK
<1>1. CASE UNCHANGED <<nextAction, pending, log>>
  BY <1>1 DEF Accounted, Verdicts
<1>2. CASE \E what \in Request : Submit(what)
  <2>1. PICK what \in Request : Submit(what)
    BY <1>2
  <2>2. /\ nextAction' = nextAction + 1
        /\ pending' = pending \cup {[id |-> nextAction + 1, by |-> Acting, what |-> what]}
        /\ log' = log
    BY <2>1 DEF Submit
  <2>3. Verdicts' = Verdicts
    BY <2>2 DEF Verdicts
  <2>4. /\ \A q \in pending : q.id # nextAction + 1 /\ q.id \in 1..nextAction
        /\ nextAction + 1 \notin Verdicts
    BY <1>t DEF Accounted
  <2> DEFINE new == [id |-> nextAction + 1, by |-> Acting, what |-> what]
  <2>5. new.id = nextAction + 1 /\ pending' = pending \cup {new} /\ new \in pending'
    BY <2>2
  <2> HIDE DEF new
  <2>6. \A q, r \in pending' : q.id = r.id => q = r
    BY <2>4, <2>5 DEF Accounted
  <2>7. \A q \in pending' : q.id \in 1..nextAction' /\ q.id \notin Verdicts'
    BY <1>t, <2>2, <2>3, <2>4, <2>5 DEF Accounted
  <2>8. \A id \in 1..nextAction' : id \in Verdicts' \/ \E q \in pending' : q.id = id
    <3> SUFFICES ASSUME NEW id \in 1..nextAction', id \notin Verdicts
                 PROVE  \E q \in pending' : q.id = id
      BY <2>3
    <3>1. id = nextAction + 1 \/ id \in 1..nextAction
      BY <1>t, <2>2
    <3> QED BY <3>1, <2>5 DEF Accounted
  <2>9. Verdicts' \subseteq 1..nextAction'
    BY <1>t, <2>2, <2>3 DEF Accounted
  <2>10. \A j, k \in DOMAIN log' : log'[j].id = log'[k].id => j = k
    BY <2>2 DEF Accounted
  <2> QED BY <2>6, <2>7, <2>8, <2>9, <2>10 DEF Accounted
<1>3. CASE \E p \in Presented, verdict \in {"approved", "rejected"} : Decision(p, verdict)
  <2>1. PICK p \in Presented, verdict \in {"approved", "rejected"} : Decision(p, verdict)
    BY <1>3
  <2>2. /\ p \in pending
        /\ Len(log) \in Nat /\ DOMAIN log = 1..Len(log) /\ DOMAIN log' = 1..(Len(log) + 1)
        /\ \A k \in DOMAIN log : log'[k] = log[k]
        /\ log'[Len(log) + 1].id = p.id
        /\ Verdicts' = Verdicts \cup {p.id}
    <3> HIDE DEF Inv
    <3>1. TypeOK
      BY DEF Inv
    <3> QED BY <2>1, <3>1, DecisionFacts
  <2>3. pending' = pending \ {p} /\ nextAction' = nextAction
    BY <2>1 DEF Decision
  <2>4. \A k \in DOMAIN log : log[k].id # p.id
    BY <2>2 DEF Accounted, Verdicts
  <2>5. \A j, k \in DOMAIN log' : log'[j].id = log'[k].id => j = k
    BY <2>2, <2>4 DEF Accounted
  <2>6. /\ \A q, r \in pending' : q.id = r.id => q = r
        /\ \A q \in pending' : q.id \in 1..nextAction' /\ q.id \notin Verdicts'
        /\ Verdicts' \subseteq 1..nextAction'
    BY <2>2, <2>3 DEF Accounted
  <2>7. \A id \in 1..nextAction' : id \in Verdicts' \/ \E q \in pending' : q.id = id
    BY <2>2, <2>3 DEF Accounted
  <2> QED BY <2>5, <2>6, <2>7 DEF Accounted
<1> QED BY ActionSteps, <1>1, <1>2, <1>3

-----------------------------------------------------------------------------
(* What is told, and to whom. *)

LEMMA VerdictsStay ==
  ASSUME Inv, [Next]_vars
  PROVE  Verdicts \subseteq Verdicts'
<1>1. TypeOK
  BY DEF Inv
<1>2. CASE log' = log
  BY <1>2 DEF Verdicts
<1>3. ASSUME NEW p \in Presented, NEW verdict \in {"approved", "rejected"}, Decision(p, verdict)
      PROVE  Verdicts \subseteq Verdicts'
  BY <1>1, <1>3, DecisionFacts
<1> QED BY <1>2, <1>3, ActionSteps DEF Submit

LEMMA HeardKept ==
  ASSUME Inv, [Next]_vars
  PROVE  HeardDecided'
<1>1. heard \in [User -> SUBSET (Nat \cup {Opening})] /\ HeardDecided
  BY DEF Inv, TypeOK
<1>2. CASE heard' = heard
  BY <1>1, <1>2, VerdictsStay DEF HeardDecided
<1>3. CASE \E u \in User : DeliverTo(u)
  <2>1. PICK u \in User : DeliverTo(u)
    BY <1>3
  <2>2. presented = Opening \/ presented \in Verdicts
    BY <2>1, ActingTurn DEF DeliverTo, Inv, TurnInv, BeforeGM
  <2>3. heard' = [heard EXCEPT ![u] = @ \cup {presented}]
    BY <2>1 DEF DeliverTo
  <2>4. \A v \in User : heard'[v] \subseteq heard[v] \cup {presented}
    BY <1>1, <2>3
  <2> QED BY <1>1, <2>2, <2>4, VerdictsStay DEF HeardDecided
<1>4. CASE Steps
  BY <1>2, <1>3, <1>4 DEF Steps, End, Take, Choose, Infer, RefuseCall, RollOnce, ReadyToBegin,
     Submit, AskGM, Call, Approve, Reject, Record, Narrate, StoreResult, Delivered, storeVars
<1>5. CASE UNCHANGED vars \/ MembersChange
  BY <1>2, <1>5 DEF vars, playVars, MembersChange, storeVars
<1> QED BY StepCases, <1>4, <1>5

Resting == {"choose", "infer", "call", "reply"}

(* The acting player's turn rests, before and after, or waits as it did. *)
LEMMA RestKeeps ==
  ASSUME TurnInv, UNCHANGED <<event, nextAction, pending, log, heard, presented, audience>>,
         UNCHANGED <<began, present, active>>,
         at'[Acting] = at[Acting] \/ (at[Acting] \in Resting /\ at'[Acting] \in Resting)
  PROVE  TurnInv'
<1>1. Verdicts' = Verdicts /\ Acting' = Acting
  BY DEF Verdicts, Acting
<1>2. CASE at'[Acting] = at[Acting]
  BY <1>1, <1>2 DEF TurnInv, BeforeGM, Settled
<1>3. CASE at[Acting] \in Resting /\ at'[Acting] \in Resting
  BY <1>1, <1>3 DEF TurnInv, BeforeGM, Settled, Resting
<1> QED BY <1>2, <1>3

(* At rest nothing of this trigger is pending or untold. *)
LEMMA AtRest ==
  ASSUME TurnInv, at[Acting] \in Resting
  PROVE  /\ \A p \in pending : ~(p.id > began)
         /\ \A id \in Verdicts : id > began => \A u \in present : id \in heard[u]
BY DEF TurnInv, Settled, Resting

LEMMA TakeTurn ==
  ASSUME Inv, NEW kind \in {"message", "enter"}, NEW u \in User, Take(kind, u),
         UNCHANGED memberVars
  PROVE  TurnInv'
<1>1. Acting' = u /\ at'[u] = "choose" /\ began' = nextAction /\ present' = active[Here]
  BY AgentFacts DEF Inv, TypeOK, Take, Acting, Go
<1>2. Verdicts' = Verdicts /\ pending' = pending /\ active' = active
  BY DEF Take, storeVars, Verdicts, memberVars
<1>5. nextAction' = nextAction /\ nextAction <= nextAction
  BY DEF Take, storeVars, Inv, TypeOK
<1>3. nextAction \in Nat
  BY DEF Inv, TypeOK
<1>4. /\ \A p \in pending : ~(p.id > nextAction)
      /\ \A id \in Verdicts : ~(id > nextAction)
  BY <1>3 DEF Inv, Accounted
<1> QED BY <1>1, <1>2, <1>4, <1>5 DEF TurnInv, BeforeGM, Settled

(* What is submitted or to be opened comes before the GM. *)
LEMMA SubmitTurn ==
  ASSUME Inv, TurnInv, ReadyToBegin \/ (\E what \in Request : Submit(what)), UNCHANGED memberVars
  PROVE  TurnInv'
<1>1. /\ Acting \in Agent /\ at[Acting] = "call" /\ event' = event /\ Go(Acting, "open")
      /\ UNCHANGED <<log, heard, began, present, audience, active>>
  BY PlayerFacts DEF Inv, ReadyToBegin, Submit, pastVars, memberVars
<1>2. Acting' = Acting /\ at'[Acting] = "open" /\ Verdicts' = Verdicts
  BY <1>1 DEF Inv, TypeOK, Acting, Go, Verdicts
<1>3. /\ \A p \in pending : ~(p.id > began)
      /\ \A id \in Verdicts : id > began => \A u \in present : id \in heard[u]
  BY <1>1, AtRest DEF Resting
<1>4. CASE ReadyToBegin
  <2>1. presented' = Opening /\ pending' = pending
    BY <1>4 DEF ReadyToBegin
  <2>2. nextAction' = nextAction
    BY <1>4 DEF ReadyToBegin
  <2> QED BY <1>1, <1>2, <1>3, <2>1, <2>2 DEF TurnInv, BeforeGM, Settled
<1>5. CASE \E what \in Request : Submit(what)
  <2>1. PICK what \in Request : Submit(what)
    BY <1>5
  <2> DEFINE new == [id |-> nextAction + 1, by |-> Acting, what |-> what]
  <2>2. /\ new.id = nextAction + 1 /\ new.by = Acting /\ pending' = pending \cup {new}
        /\ presented' = nextAction + 1 /\ nextAction' = nextAction + 1
    BY <2>1 DEF Submit
  <2> HIDE DEF new
  <2>3. nextAction \in Nat /\ began \in Nat /\ \A p \in pending : p.id \in 1..nextAction
    BY DEF Inv, TypeOK, Accounted
  <2>4. began <= nextAction
    BY DEF TurnInv
  <2>5. BeforeGM'
    BY <1>1, <1>2, <2>2, <2>3, <2>4 DEF BeforeGM
  <2>6. Settled'
    BY <1>1, <1>2, <1>3, <2>2 DEF Settled
  <2>7. began' <= nextAction'
    BY <1>1, <2>2, <2>3, <2>4
  <2> QED BY <1>1, <2>5, <2>6, <2>7 DEF TurnInv
<1> QED BY <1>4, <1>5

(* The decided action is the one before the GM. *)
LEMMA DecideTurn ==
  ASSUME Inv, TurnInv, Approve \/ Reject, UNCHANGED memberVars,
         NEW p \in Presented, NEW verdict \in {"approved", "rejected"}, Decision(p, verdict)
  PROVE  TurnInv'
<1>0. TypeOK /\ Shape /\ GMCall
  BY DEF Inv, Approve, Reject
<1>1. /\ event' = event /\ at[Acting] = "nested" /\ Acting \in User /\ Acting # GM
      /\ UNCHANGED <<heard, began, present, audience, presented, active>> /\ NextCall(GM)
  BY <1>0, GMRuns DEF Approve, Reject, Record, callVars, pastVars, memberVars
<1>2. Acting' = Acting /\ at'[Acting] = "nested"
  BY <1>0, <1>1, AgentFacts DEF TypeOK, Acting, NextCall, Go
<1>3. /\ p.id = presented /\ Verdicts' = Verdicts \cup {p.id}
      /\ pending' = pending \ {p} /\ nextAction' = nextAction
  BY <1>0, DecisionFacts DEF Decision
<1>4. BeforeGM'
  BY <1>1, <1>2, <1>3 DEF TurnInv, BeforeGM
<1>5. Settled'
  BY <1>1, <1>2, <1>3 DEF TurnInv, Settled
<1> QED BY <1>1, <1>3, <1>4, <1>5 DEF TurnInv

(* The steps within a resting turn, and those of the GM. *)
LEMMA RestTurn ==
  ASSUME Inv, TurnInv, Choose \/ Infer \/ RefuseCall \/ (\E r \in Roll : RollOnce(r)),
         UNCHANGED memberVars
  PROVE  TurnInv'
<1>1. /\ UNCHANGED <<event, nextAction, pending, log, heard, presented, audience>>
      /\ UNCHANGED <<began, present, active>>
  BY DEF Choose, Infer, RefuseCall, RollOnce, storeVars, callVars, pastVars, memberVars
<1>2. at \in [Agent -> Place] /\ Shape /\ TypeOK /\ CallsLeft
  BY DEF Inv, TypeOK
<1>3. CASE Choose
  <2>1. Acting \in User /\ at[Acting] = "choose" /\ Go(Acting, "infer")
    BY <1>2, <1>3 DEF Choose, Shape
  <2>2. at'[Acting] = "infer"
    BY <1>2, <2>1, AgentFacts DEF Go
  <2> QED BY <1>1, <2>1, <2>2, RestKeeps DEF Resting
<1>4. CASE Infer
  <2>1. Go(Running, "reply") \/ Go(Running, "call")
    BY <1>4 DEF Infer
  <2>2. TurnAt("infer") /\ Acting \in User
    BY <1>2, <1>4, TurnFacts DEF Infer
  <2>3. at'[Acting] = at[Acting] \/ (at[Acting] \in Resting /\ at'[Acting] \in Resting)
    BY <1>2, <2>1, <2>2, TurnFacts, AgentFacts DEF Go, Resting
  <2> QED BY <1>1, <2>3, RestKeeps
<1>5. CASE RefuseCall \/ (\E r \in Roll : RollOnce(r))
  <2>1. TurnAt("call") /\ NextCall(Running)
    BY <1>2, <1>5, PlayerFacts DEF RefuseCall, RollOnce, PlayerCall
  <2>2. Go(Running, "infer") \/ Go(Running, "call")
    BY <2>1 DEF NextCall
  <2>3. at'[Acting] = at[Acting] \/ (at[Acting] \in Resting /\ at'[Acting] \in Resting)
    BY <1>2, <2>1, <2>2, TurnFacts, AgentFacts DEF Go, Resting
  <2> QED BY <1>1, <2>3, RestKeeps
<1> QED BY <1>3, <1>4, <1>5

(* The GM is asked, and has decided when it narrates. *)
LEMMA GMTurn ==
  ASSUME Inv, TurnInv, AskGM \/ Narrate, ~End, UNCHANGED memberVars
  PROVE  TurnInv'
<1>1. at \in [Agent -> Place] /\ Shape
  BY DEF Inv, TypeOK
<1>2. CASE AskGM
  <2>1. /\ Acting \in User /\ at[Acting] = "open"
        /\ at' = [at EXCEPT ![Acting] = "nested", ![GM] = "infer"]
        /\ UNCHANGED <<storeVars, event, presented, audience, pastVars>>
    BY <1>1, <1>2, AskFacts
  <2>2. at'[Acting] = "nested" /\ Acting' = Acting /\ Verdicts' = Verdicts
    BY <1>1, <2>1, AgentFacts, GMIsNoUser DEF Acting, Verdicts, storeVars
  <2>3. /\ UNCHANGED <<nextAction, pending, heard, presented, began, present, active>>
    BY <2>1 DEF storeVars, pastVars, memberVars
  <2> QED BY <2>1, <2>2, <2>3 DEF TurnInv, BeforeGM, Settled
<1>3. CASE Narrate
  <2>1. /\ Acting \in User /\ at[Acting] = "nested" /\ Decided
        /\ at' = [at EXCEPT ![GM] = "off", ![Acting] = "narrate"]
        /\ UNCHANGED <<storeVars, event, presented, audience, pastVars>>
    BY <1>1, <1>3, NarrateFacts
  <2>2. at'[Acting] = "narrate" /\ Acting' = Acting /\ Verdicts' = Verdicts
    BY <1>1, <2>1, AgentFacts, GMIsNoUser DEF Acting, Verdicts, storeVars
  <2>3. /\ UNCHANGED <<nextAction, pending, heard, presented, began, present, active>>
    BY <2>1 DEF storeVars, pastVars, memberVars
  <2>4. \A p \in pending : p.id # presented
    BY <2>1 DEF Decided, Presented
  <2>5. presented = Opening \/ presented \in Verdicts
    BY <2>1, <2>4 DEF Inv, Accounted, TurnInv, BeforeGM
  <2>6. BeforeGM'
    BY <2>2, <2>3, <2>5 DEF BeforeGM
  <2>7. Settled'
    BY <2>1, <2>2, <2>3, <2>4 DEF TurnInv, Settled
  <2> QED BY <2>3, <2>6, <2>7 DEF TurnInv
<1> QED BY <1>2, <1>3

(* The narration goes to all who are there, one after the other. *)
LEMMA DeliveryTurn ==
  ASSUME Inv, TurnInv, StoreResult \/ Delivered \/ (\E u \in User : DeliverTo(u)),
         UNCHANGED memberVars
  PROVE  TurnInv'
<1>1. at \in [Agent -> Place] /\ Shape /\ TypeOK /\ CallsLeft
  BY DEF Inv, TypeOK
<1>2. CASE StoreResult
  <2>1. /\ Acting \in User /\ at[Acting] = "narrate" /\ Go(Acting, "deliver")
        /\ audience' = active[Here]
        /\ UNCHANGED <<nextAction, pending, log, heard, event, presented, began, present, active>>
    BY <1>1, <1>2, ActingTurn DEF StoreResult, AtTheLocation, storeVars, pastVars, memberVars
  <2>2. at'[Acting] = "deliver" /\ Acting' = Acting /\ Verdicts' = Verdicts
    BY <1>1, <2>1, AgentFacts DEF Go, Acting, Verdicts
  <2> QED BY <2>1, <2>2 DEF TurnInv, BeforeGM, Settled
<1>3. CASE \E u \in User : DeliverTo(u)
  <2>1. PICK u \in User : DeliverTo(u)
    BY <1>3
  <2>2. /\ at[Acting] = "deliver" /\ audience' = audience \ {u}
        /\ heard' = [heard EXCEPT ![u] = @ \cup {presented}]
        /\ UNCHANGED <<at, nextAction, pending, log, event, presented, began, present, active>>
    BY <1>1, <2>1, ActingTurn DEF DeliverTo, turnVars, pastVars, memberVars
  <2>3. /\ heard'[u] = heard[u] \cup {presented}
        /\ \A v \in User : v # u => heard'[v] = heard[v]
        /\ present \subseteq User
    BY <1>1, <2>2 DEF TypeOK
  <2>4. Acting' = Acting /\ Verdicts' = Verdicts
    BY <2>2 DEF Acting, Verdicts
  <2>5. BeforeGM'
    BY <2>2, <2>4 DEF TurnInv, BeforeGM
  <2>6. Settled'
    BY <2>2, <2>3, <2>4 DEF TurnInv, Settled
  <2> QED BY <2>2, <2>5, <2>6 DEF TurnInv
<1>4. CASE Delivered
  <2>1. /\ Acting \in User /\ at[Acting] = "deliver" /\ audience = {} /\ NextCall(Acting)
        /\ UNCHANGED <<nextAction, pending, log, heard, event, began, present, active>>
    BY <1>1, <1>4, ActingTurn DEF Delivered, storeVars, pastVars, memberVars
  <2>2. at'[Acting] \in {"infer", "call"} /\ Acting' = Acting /\ Verdicts' = Verdicts
    BY <1>1, <2>1, AgentFacts DEF NextCall, Go, Acting, Verdicts
  <2>3. /\ \A p \in pending : ~(p.id > began)
        /\ \A id \in Verdicts : id > began => \A u \in present : id \in heard[u]
    BY <2>1 DEF TurnInv, Settled
  <2> QED BY <2>1, <2>2, <2>3 DEF TurnInv, BeforeGM, Settled
<1> QED BY <1>2, <1>3, <1>4

LEMMA TurnKept ==
  ASSUME Inv, [Next]_vars, ~Idle'
  PROVE  TurnInv'
<1>1. CASE UNCHANGED vars
  <2>1. Idle' = Idle /\ Acting' = Acting /\ Verdicts' = Verdicts
    BY <1>1 DEF vars, playVars, storeVars, callVars, Idle, Acting, Verdicts
  <2>2. TurnInv
    BY <2>1 DEF Inv
  <2> QED BY <1>1, <2>1, <2>2 DEF vars, playVars, storeVars, turnVars, callVars, pastVars,
       memberVars, TurnInv, BeforeGM, Settled
<1>2. CASE MembersChange
  <2>1. /\ UNCHANGED <<nextAction, pending, log, heard, event, at, presented, audience, began>>
        /\ present' = present \cap active'[Here]
    BY <1>2 DEF MembersChange, storeVars, turnVars, callVars
  <2>2. Idle' = Idle /\ Acting' = Acting /\ Verdicts' = Verdicts
    BY <2>1 DEF Idle, Acting, Verdicts
  <2>3. TurnInv
    BY <2>2 DEF Inv
  <2> QED BY <2>1, <2>2, <2>3 DEF TurnInv, BeforeGM, Settled
<1>3. CASE Steps /\ UNCHANGED memberVars
  <2>1. CASE End
    BY <2>1 DEF End, Idle, NoTrigger
  <2>2. CASE \E kind \in {"message", "enter"}, u \in User : Take(kind, u)
    BY <1>3, <2>2, TakeTurn
  <2>3. CASE (Approve \/ Reject) /\ ~End
    <3>1. PICK p \in Presented, verdict \in {"approved", "rejected"} : Decision(p, verdict)
      BY <2>3 DEF Approve, Reject, Record, Retire, Decision
    <3>2. TurnInv
      BY <2>3, GMRuns DEF Inv, Approve, Reject
    <3> QED BY <1>3, <2>3, <3>1, <3>2, DecideTurn
  <2>4. CASE Choose \/ Infer \/ RefuseCall \/ (\E r \in Roll : RollOnce(r))
    <3>1. ~Idle
      BY <2>4, TurnFacts, PlayerFacts DEF Inv, Choose, Infer, RefuseCall, RollOnce
    <3> QED BY <1>3, <2>4, <3>1, RestTurn DEF Inv
  <2>5. CASE ReadyToBegin \/ (\E what \in Request : Submit(what))
    <3>1. ~Idle
      BY <2>5, PlayerFacts DEF Inv, ReadyToBegin, Submit
    <3> QED BY <1>3, <2>5, <3>1, SubmitTurn DEF Inv
  <2>6. CASE (AskGM \/ Narrate) /\ ~End
    <3>1. ~Idle
      BY <2>6, TurnFacts DEF Inv, AskGM, Narrate
    <3> QED BY <1>3, <2>6, <3>1, GMTurn DEF Inv
  <2>7. CASE StoreResult \/ Delivered \/ (\E u \in User : DeliverTo(u))
    <3>1. ~Idle
      BY <2>7, TurnFacts DEF Inv, StoreResult, Delivered, DeliverTo
    <3> QED BY <1>3, <2>7, <3>1, DeliveryTurn DEF Inv
  <2> QED BY <1>3, <2>1, <2>2, <2>3, <2>4, <2>5, <2>6, <2>7 DEF Steps
<1> QED BY StepCases, <1>1, <1>2, <1>3

-----------------------------------------------------------------------------
(* The invariant. *)

LEMMA PlayStarts == Init => Inv
<1> SUFFICES ASSUME Init PROVE Inv
  OBVIOUS
<1> USE DEF Init, PlayInit
<1>1. MembershipInv
  BY MembershipStarts
<1>2. log \in Seq(Resolved) /\ stack \in Seq(Agent) /\ DOMAIN log = {}
  BY EmptySeq
<1>3. TypeOK
  BY <1>1, <1>2, PlayAssumption DEF TypeOK, MembershipInv, NoTrigger, Trigger, Place, Kit
<1>4. Shape /\ CallsLeft /\ Charged
  BY PlayAssumption DEF Shape, Idle, NoTrigger, CallsLeft, InCall, Charged
<1>5. Accounted /\ HeardDecided
  BY <1>2 DEF Accounted, HeardDecided, Verdicts
<1>6. Idle
  BY DEF Idle, NoTrigger
<1> QED BY <1>1, <1>3, <1>4, <1>5, <1>6 DEF Inv

LEMMA MembersStep == [Next]_vars => [MembershipStep]_memberVars
BY DEF Next, MembersChange, vars

(* A turn that is being played changes nobody's membership: every chat,    *)
(* trigger and tool of Play leaves owners, seats and tokens to Membership. *)
THEOREM PlayImplementsMembership == Spec => MembershipSpec
<1>1. Init => MembershipInit
  BY DEF Init
<1> QED BY <1>1, MembersStep, PTL DEF Spec, MembershipSpec

LEMMA PlayKeeps ==
  ASSUME Inv, [Next]_vars
  PROVE  Inv'
<1>1. MembershipInv'
  BY MembersStep, MembershipInvariance DEF Inv
<1>2. TypeOK'
  BY <1>1, TypesKept
<1> QED BY <1>1, <1>2, ShapeKept, CallsLeftKept, ChargedKept, AccountedKept, HeardKept, TurnKept
     DEF Inv

(* Whatever the model calls, members do and fails, the invariant holds: it *)
(* is about every step of complete_with_call_context, of the tools and of  *)
(* the store's transactions behind them.                                   *)
THEOREM Invariance == Spec => []Inv
BY PlayStarts, PlayKeeps, PTL DEF Spec

(* No counter of Budget or of a turn's calls goes below zero, and every    *)
(* variable keeps its range.                                               *)
THEOREM TypeCorrect == Spec => []TypeOK
<1>1. Inv => TypeOK
  BY DEF Inv
<1> QED BY <1>1, Invariance, PTL

(* CallContext: whenever the GM is to be asked it is off the call stack,   *)
(* and neither a chat nor a trigger runs more inferences than its limit.   *)
THEOREM NestingIsBounded == Spec => []NestedTurnsEnd
<1>1. ASSUME Inv PROVE NestedTurnsEnd
  <2>1. GMIsFree
    <3> SUFFICES ASSUME at[GM] = "off" PROVE ~OnStack(GM)
      BY DEF GMIsFree
    <3>1. stack = <<>> \/ (stack = <<Acting>> /\ Acting # GM)
      BY <1>1, GMIsNoUser DEF Inv, Shape, Nested
    <3>2. CASE stack = <<>>
      BY <3>2 DEF OnStack
    <3>3. CASE stack = <<Acting>> /\ Acting # GM
      BY <3>3 DEF OnStack
    <3> QED BY <3>1, <3>2, <3>3
  <2>2. BudgetHolds
    BY <1>1 DEF Inv, Charged, BudgetHolds
  <2> QED BY <2>1, <2>2 DEF NestedTurnsEnd
<1> QED BY <1>1, Invariance, PTL

(* resolve_pending_action: every id is pending or resolved, once, and what *)
(* is in anybody's history was decided.                                    *)
THEOREM DecidedOnce == Spec => []ResolvedOnce
<1>1. ASSUME Inv PROVE ResolvedOnce
  <2>1. nextAction \in Nat
    BY <1>1 DEF Inv, TypeOK
  <2> QED BY <1>1, <2>1 DEF Inv, Accounted, HeardDecided, ResolvedOnce
<1> QED BY <1>1, Invariance, PTL

(* When a player agent answers, what its turn submitted is decided and in  *)
(* the history of everybody who had access throughout.                     *)
THEOREM AnswersAreWhole == Spec => []AnsweredIsWhole
<1>1. ASSUME Inv PROVE AnsweredIsWhole
  <2> SUFFICES ASSUME TurnAt("reply"), Running # GM
               PROVE  /\ \A p \in pending : p.id <= began
                      /\ \A id \in Verdicts : id > began => \A u \in present : id \in heard[u]
    BY DEF AnsweredIsWhole
  <2>1. ~Idle /\ at[Acting] = "reply"
    BY <1>1, TurnFacts DEF Inv
  <2>2. /\ \A p \in pending : ~(p.id > began)
        /\ \A id \in Verdicts : id > began => \A u \in present : id \in heard[u]
    BY <1>1, <2>1, AtRest DEF Inv, Resting
  <2>3. began \in Nat /\ nextAction \in Nat /\ \A p \in pending : p.id \in 1..nextAction
    BY <1>1 DEF Inv, TypeOK, Accounted
  <2> QED BY <2>2, <2>3
<1> QED BY <1>1, Invariance, PTL

(* resolve_pending_action decides nothing that an earlier trigger left.    *)
THEOREM LeftoversKept == Spec => LeftoversStay
<1>1. ASSUME Inv, [Next]_vars
      PROVE  [log' # log =>
                LET new == log'[Len(log')]
                IN new.by = Acting /\ new.id > began /\ new.id = presented]_vars
  <2> SUFFICES ASSUME log' # log
               PROVE  /\ log'[Len(log')].by = Acting
                      /\ log'[Len(log')].id > began /\ log'[Len(log')].id = presented
    OBVIOUS
  <2>0. TypeOK /\ Shape
    BY <1>1 DEF Inv
  <2>1. PICK p \in Presented, verdict \in {"approved", "rejected"} :
          (Approve \/ Reject) /\ Decision(p, verdict)
    BY <1>1, ActionSteps DEF Submit
  <2>2. /\ p \in pending /\ p.id = presented /\ p \in Action
        /\ Len(log') = Len(log) + 1
        /\ log'[Len(log) + 1].id = p.id /\ log'[Len(log) + 1].by = p.by
    <3>1. DOMAIN log' = 1..(Len(log) + 1) /\ Len(log) \in Nat
      BY <2>0, <2>1, DecisionFacts
    <3>2. log' \in Seq(Resolved)
      BY <1>1, PlayKeeps DEF Inv, TypeOK
    <3>3. Len(log') = Len(log) + 1
      BY <3>1, <3>2
    <3>4. /\ p \in pending /\ p.id = presented /\ p \in Action
          /\ log'[Len(log) + 1].id = p.id /\ log'[Len(log) + 1].by = p.by
      BY <2>0, <2>1, DecisionFacts
    <3> QED BY <3>3, <3>4
  <2>3. ~Idle /\ at[Acting] = "nested"
    BY <2>0, <2>1, GMRuns DEF Approve, Reject
  <2>4. presented # Opening
    BY <2>2, PlayAssumption DEF Action
  <2> QED BY <1>1, <2>2, <2>3, <2>4 DEF Inv, TurnInv, BeforeGM
<1> QED BY <1>1, Invariance, PTL DEF Spec, LeftoversStay

(* Every tool of a player looks the membership up again: the removed       *)
(* neither roll nor submit.                                                *)
THEOREM RemovedStayIdle == Spec => RemovedDoNothing
<1>1. ASSUME Inv, [Next]_vars
      PROVE  [\A u \in User \ active[Here] :
                sheet'[u] = sheet[u] /\ {p \in pending' : p.by = u} \subseteq pending]_vars
  <2> SUFFICES ASSUME NEW u \in User \ active[Here]
               PROVE  sheet'[u] = sheet[u] /\ {p \in pending' : p.by = u} \subseteq pending
    OBVIOUS
  <2>0. sheet \in [User -> SUBSET Sheet]
    BY <1>1 DEF Inv, TypeOK
  <2>1. CASE UNCHANGED sheet /\ pending' \subseteq pending
    BY <2>1
  <2>2. CASE (\E r \in Roll : RollOnce(r)) \/ ReadyToBegin
    BY <2>0, <2>2 DEF RollOnce, ReadyToBegin, IsActive
  <2>3. CASE \E what \in Request : Submit(what)
    <3>1. PICK what \in Request : Submit(what)
      BY <2>3
    <3> DEFINE new == [id |-> nextAction + 1, by |-> Acting, what |-> what]
    <3>2. Acting \in active[Here] /\ pending' = pending \cup {new} /\ new.by = Acting /\ sheet' = sheet
      BY <3>1 DEF Submit, MaySubmit, IsActive
    <3> HIDE DEF new
    <3> QED BY <3>2
  <2>4. CASE Steps
    BY <2>1, <2>2, <2>3, <2>4 DEF Steps, End, Take, Choose, Infer, RefuseCall, AskGM, Call,
       Approve, Reject, Record, Retire, Narrate, StoreResult, Delivered, DeliverTo, storeVars
  <2>5. CASE UNCHANGED vars \/ MembersChange
    BY <2>1, <2>5 DEF vars, playVars, MembersChange, storeVars
  <2> QED BY <1>1, StepCases, <2>4, <2>5
<1> QED BY <1>1, Invariance, PTL DEF Spec, RemovedDoNothing

(* roll_hit_protection and roll_attributes answer a repeated call from the *)
(* sheet, and ready_to_begin insists on both.                              *)
THEOREM NoSecondRoll == Spec => []RolledOnce
<1>1. Init => RolledOnce
  BY DEF Init, PlayInit, RolledOnce
<1>2. ASSUME Inv, RolledOnce, [Next]_vars
      PROVE  RolledOnce'
  <2>0. sheet \in [User -> SUBSET Sheet] /\ rolls \in [User -> [Roll -> Nat]]
    BY <1>2 DEF Inv, TypeOK
  <2>1. CASE UNCHANGED <<sheet, rolls>>
    BY <1>2, <2>1 DEF RolledOnce
  <2>2. CASE \E r \in Roll : RollOnce(r)
    <3>1. PICK r \in Roll : RollOnce(r)
      BY <2>2
    <3>2. Acting \in User /\ r # "ready"
      BY <1>2, <3>1, PlayerFacts, PlayAssumption DEF RollOnce, Inv
    <3>3. /\ sheet'[Acting] = sheet[Acting] \cup {r}
          /\ \A u \in User : u # Acting => sheet'[u] = sheet[u] /\ rolls'[u] = rolls[u]
          /\ \A s \in Roll : s # r => rolls'[Acting][s] = rolls[Acting][s]
          /\ rolls'[Acting][r] =
               IF r \in sheet[Acting] THEN rolls[Acting][r] ELSE rolls[Acting][r] + 1
      BY <2>0, <3>1, <3>2 DEF RollOnce
    <3>4. \A s \in Roll : rolls'[Acting][s] = IF s \in sheet'[Acting] THEN 1 ELSE 0
      BY <1>2, <3>2, <3>3 DEF RolledOnce
    <3>5. "ready" \in sheet'[Acting] => Roll \subseteq sheet'[Acting]
      BY <1>2, <3>2, <3>3 DEF RolledOnce
    <3> QED BY <1>2, <3>3, <3>4, <3>5 DEF RolledOnce
  <2>3. CASE ReadyToBegin
    <3>1. Acting \in User /\ Roll \subseteq sheet[Acting] /\ rolls' = rolls
      BY <1>2, <2>3, PlayerFacts DEF ReadyToBegin, Inv
    <3>2. sheet'[Acting] = Sheet /\ \A u \in User : u # Acting => sheet'[u] = sheet[u]
      BY <2>0, <2>3, <3>1 DEF ReadyToBegin
    <3> QED BY <1>2, <3>1, <3>2 DEF RolledOnce, Sheet
  <2>4. CASE Steps
    BY <2>1, <2>2, <2>3, <2>4 DEF Steps, End, Take, Choose, Infer, RefuseCall, Submit, AskGM, Call,
       Approve, Reject, Record, Narrate, StoreResult, Delivered, DeliverTo, storeVars
  <2>5. CASE UNCHANGED vars \/ MembersChange
    BY <2>1, <2>5 DEF vars, playVars, MembersChange, storeVars
  <2> QED BY <1>2, StepCases, <2>4, <2>5
<1> QED BY <1>1, <1>2, Invariance, PTL DEF Spec

-----------------------------------------------------------------------------
(* Items. *)

HeldOf(name, u)  == {i \in name : holder[i] = u}
TakesOf(name, u) ==
  {k \in DOMAIN log : log[k].by = u /\ log[k].what = name /\ log[k].verdict = "approved"}

(* Names partition the items. *)
LEMMA NameFacts ==
  ASSUME NEW name \in Name
  PROVE  /\ name \subseteq Item /\ IsFiniteSet(name) /\ name # Talk
         /\ \A other \in Name : \A i \in name : i \in other => other = name
<1>1. name \subseteq Item /\ name # Talk
  BY PlayAssumption DEF Name
<1>2. IsFiniteSet(name)
  BY <1>1, PlayAssumption, FS_Subset
<1>3. \A other \in Name : \A i \in name : i \in other => other = name
  BY DEF Name
<1> QED BY <1>1, <1>2, <1>3

LEMMA TakesAreFinite ==
  ASSUME TypeOK, NEW name, NEW u
  PROVE  IsFiniteSet(TakesOf(name, u))
<1>1. Len(log) \in Nat /\ DOMAIN log = 1..Len(log)
  BY VerdictsAreIds
<1>2. IsFiniteSet(DOMAIN log)
  BY <1>1, FS_Interval
<1>3. TakesOf(name, u) \in SUBSET DOMAIN log
  BY DEF TakesOf
<1> QED BY <1>2, <1>3, FS_Subset

(* A decision adds its row to the takes it is one of, and to no others. *)
LEMMA TakesAfter ==
  ASSUME TypeOK, NEW p \in Presented, NEW verdict \in {"approved", "rejected"},
         Decision(p, verdict), NEW name, NEW u
  PROVE  /\ TakesOf(name, u)' =
              IF p.by = u /\ p.what = name /\ verdict = "approved"
              THEN TakesOf(name, u) \cup {Len(log) + 1} ELSE TakesOf(name, u)
         /\ Len(log) + 1 \notin TakesOf(name, u)
<1> DEFINE new == [id |-> p.id, by |-> p.by, what |-> p.what, verdict |-> verdict]
<1>1. /\ Len(log) \in Nat /\ DOMAIN log = 1..Len(log) /\ DOMAIN log' = 1..(Len(log) + 1)
      /\ \A k \in DOMAIN log : log'[k] = log[k]
      /\ log'[Len(log) + 1] = new
  BY DecisionFacts
<1>2. new.by = p.by /\ new.what = p.what /\ new.verdict = verdict
  OBVIOUS
<1> HIDE DEF new
<1>3. Len(log) + 1 \notin DOMAIN log /\ DOMAIN log' = DOMAIN log \cup {Len(log) + 1}
  BY <1>1
<1> QED BY <1>1, <1>2, <1>3 DEF TakesOf

ItemsInv ==
  /\ \A i \in Item : itemAt[i] <=> holder[i] = Nobody
  /\ \A name \in Name, u \in User :
       Cardinality(HeldOf(name, u)) = Cardinality(TakesOf(name, u))

(* execute_approved_action: the one item of the name changes hands. *)
LEMMA TakenItem ==
  ASSUME TypeOK, ItemsInv, NEW p \in Presented, Decision(p, "approved"),
         p.what # Talk, NEW i \in Item, ThereOnly(i, p.what), PickUp(i),
         holder' = [holder EXCEPT ![i] = p.by]
  PROVE  ItemsInv'
<1>t. itemAt \in [Item -> BOOLEAN] /\ holder \in [Item -> User \cup {Nobody}]
  BY DEF TypeOK
<1>p. p.by \in User /\ p.what \in Name /\ p.by # Nobody
  BY MembershipAssumption DEF TypeOK, Presented, Action, Request
<1>i. i \in p.what /\ itemAt[i] /\ holder[i] = Nobody
  BY DEF ThereOnly, ItemsInv
<1>h. /\ holder'[i] = p.by /\ \A j \in Item : j # i => holder'[j] = holder[j]
      /\ itemAt'[i] = FALSE /\ \A j \in Item : j # i => itemAt'[j] = itemAt[j]
  BY <1>t DEF PickUp
<1>1. \A j \in Item : itemAt'[j] <=> holder'[j] = Nobody
  BY <1>h, <1>p DEF ItemsInv
<1>2. ASSUME NEW name \in Name, NEW u \in User
      PROVE  Cardinality(HeldOf(name, u)') = Cardinality(TakesOf(name, u)')
  <2>1. /\ name \subseteq Item /\ IsFiniteSet(name) /\ (i \in name => name = p.what)
        /\ u # Nobody
    BY <1>i, <1>p, NameFacts, MembershipAssumption
  <2>2. Cardinality(HeldOf(name, u)) = Cardinality(TakesOf(name, u))
    BY DEF ItemsInv
  <2>3. CASE name = p.what /\ u = p.by
    <3>1. HeldOf(name, u)' = HeldOf(name, u) \cup {i} /\ i \notin HeldOf(name, u)
      BY <1>h, <1>i, <2>1, <2>3 DEF HeldOf
    <3>2. IsFiniteSet(HeldOf(name, u)) /\ IsFiniteSet(TakesOf(name, u))
      BY <2>1, FS_Subset, TakesAreFinite DEF HeldOf
    <3>3. /\ TakesOf(name, u)' = TakesOf(name, u) \cup {Len(log) + 1}
          /\ Len(log) + 1 \notin TakesOf(name, u)
      BY <2>3, TakesAfter
    <3>4. Cardinality(HeldOf(name, u) \cup {i}) = Cardinality(HeldOf(name, u)) + 1
      BY <3>1, <3>2, FS_AddElement
    <3>5. Cardinality(TakesOf(name, u) \cup {Len(log) + 1}) = Cardinality(TakesOf(name, u)) + 1
      BY <3>2, <3>3, FS_AddElement
    <3> QED BY <2>2, <3>1, <3>3, <3>4, <3>5
  <2>4. CASE ~(name = p.what /\ u = p.by)
    <3>1. HeldOf(name, u)' = HeldOf(name, u)
      BY <1>h, <1>i, <2>1, <2>4 DEF HeldOf
    <3>2. TakesOf(name, u)' = TakesOf(name, u)
      BY <2>4, TakesAfter
    <3> QED BY <2>2, <3>1, <3>2
  <2> QED BY <2>3, <2>4
<1> QED BY <1>1, <1>2 DEF ItemsInv

(* What moves no item is no take. *)
LEMMA NothingTaken ==
  ASSUME TypeOK, ItemsInv, NEW p \in Presented, NEW verdict \in {"approved", "rejected"},
         Decision(p, verdict), p.what = Talk \/ verdict = "rejected", UNCHANGED <<itemAt, holder>>
  PROVE  ItemsInv'
<1>1. ASSUME NEW name \in Name, NEW u \in User
      PROVE  HeldOf(name, u)' = HeldOf(name, u) /\ TakesOf(name, u)' = TakesOf(name, u)
  <2>1. HeldOf(name, u)' = HeldOf(name, u)
    BY DEF HeldOf
  <2>2. name # Talk
    BY NameFacts
  <2> QED BY <2>1, <2>2, TakesAfter
<1> QED BY <1>1 DEF ItemsInv

(* execute_approved_action and the log row of resolve_pending_action are   *)
(* one transaction: an item is at the location or held, and everybody      *)
(* holds what was approved for them.                                       *)
THEOREM ItemsMatchLog == Spec => []ItemsFollowLog
<1>1. Init => ItemsInv
  <2> SUFFICES ASSUME Init PROVE ItemsInv
    OBVIOUS
  <2>1. \A name \in Name : name \subseteq Item
    BY NameFacts
  <2>2. \A name \in Name, u \in User : HeldOf(name, u) = {}
    BY <2>1, MembershipAssumption DEF Init, PlayInit, HeldOf
  <2>3. DOMAIN log = {}
    BY EmptySeq DEF Init, PlayInit
  <2>4. \A name \in Name, u \in User : TakesOf(name, u) = {}
    BY <2>3 DEF TakesOf
  <2> QED BY <2>2, <2>4 DEF Init, PlayInit, ItemsInv
<1>2. ASSUME Inv, ItemsInv, [Next]_vars
      PROVE  ItemsInv'
  <2>0. TypeOK
    BY <1>2 DEF Inv
  <2>1. CASE UNCHANGED <<log, itemAt, holder>>
    BY <1>2, <2>1 DEF ItemsInv, HeldOf, TakesOf
  <2>2. CASE Approve
    <3>1. PICK p \in Presented :
            /\ \/ p.what = Talk /\ UNCHANGED <<itemAt, holder>>
               \/ /\ p.what # Talk
                  /\ \E i \in Item : ThereOnly(i, p.what)
                                   /\ PickUp(i) /\ holder' = [holder EXCEPT ![i] = p.by]
            /\ Decision(p, "approved")
      BY <2>2 DEF Approve, Record, Retire, Decision
    <3> QED BY <1>2, <2>0, <3>1, TakenItem, NothingTaken
  <2>3. CASE Reject
    <3>1. PICK p \in Presented : Decision(p, "rejected") /\ UNCHANGED <<itemAt, holder>>
      BY <2>3 DEF Reject, Record, Retire, Decision
    <3> QED BY <1>2, <2>0, <3>1, NothingTaken
  <2>4. CASE Steps
    BY <2>1, <2>2, <2>3, <2>4 DEF Steps, End, Take, Choose, Infer, RefuseCall, RollOnce,
       ReadyToBegin, Submit, AskGM, Call, Narrate, StoreResult, Delivered, DeliverTo, storeVars
  <2>5. CASE UNCHANGED vars \/ MembersChange
    BY <2>1, <2>5 DEF vars, playVars, MembersChange, storeVars
  <2> QED BY <1>2, StepCases, <2>4, <2>5
<1>3. ItemsInv => ItemsFollowLog
  BY DEF ItemsInv, HeldOf, TakesOf, ItemsFollowLog
<1> QED BY <1>1, <1>2, <1>3, Invariance, PTL DEF Spec

-----------------------------------------------------------------------------
(* The rank. *)

LEMMA Products ==
  ASSUME NEW a \in Nat, NEW b \in Int, NEW c \in Int
  PROVE  /\ a * b \in Int
         /\ a * (b - 1) = a * b - a
         /\ a * (b + c) = a * b + a * c
         /\ (b + 1) * a = a * b + a
         /\ b <= c => a * b <= a * c
OBVIOUS

Users      == Cardinality(User)
CallsOf    == calls[Acting] + calls[GM]
PlacesOf   == PlaceRank(at[Acting]) + PlaceRank(at[GM])
AudienceOf == Cardinality(audience)

LEMMA UsersFacts ==
  /\ Users \in Nat
  /\ \A S \in SUBSET User : IsFiniteSet(S) /\ Cardinality(S) \in Nat /\ Cardinality(S) <= Users
BY MembershipAssumption, FS_CardinalityType, FS_Subset DEF Users

LEMMA PlaceRanks ==
  /\ PlaceRank("call") = Users + 4 /\ PlaceRank("open") = Users + 3
  /\ PlaceRank("nested") = Users + 2 /\ PlaceRank("narrate") = Users + 1
  /\ PlaceRank("choose") = 1 /\ PlaceRank("infer") = 0 /\ PlaceRank("reply") = 0
  /\ PlaceRank("deliver") = 0 /\ PlaceRank("off") = 0
BY DEF PlaceRank, Users

LEMMA PlaceRankTypes == \A place \in Place : PlaceRank(place) \in Nat
BY PlaceRanks, UsersFacts DEF Place

(* A step that charges nothing and leaves less of calls, places and audience. *)
LEMMA LessLeft ==
  ASSUME NEW C \in Int, NEW D \in Int, NEW P \in Int, NEW Q \in Int, NEW A \in Int, NEW B \in Int,
         NEW T \in Int,
         \/ D = C /\ Q + B < P + A
         \/ D = C - 1 /\ Q + B < P + A + Users + 5
  PROVE  T + (Users + 5) * D + Q + B < T + (Users + 5) * C + P + A
<1> DEFINE K == Users + 5
<1>1. K \in Nat /\ K = Users + 5 /\ Users \in Nat
  BY UsersFacts
<1> HIDE DEF K
<1>2. K * C \in Int /\ K * (C - 1) = K * C - K
  BY <1>1, Products
<1>3. CASE D = C /\ Q + B < P + A
  BY <1>2, <1>3 DEF K
<1>4. CASE D = C - 1 /\ Q + B < P + A + Users + 5
  <2>1. T + K * D + Q + B < T + K * C + P + A
    BY <1>1, <1>2, <1>4
  <2> QED BY <2>1 DEF K
<1> QED BY <1>3, <1>4

(* An inference and the calls it asks for. *)
LEMMA ChargeLess ==
  ASSUME NEW C \in Int, NEW D \in Int, NEW P \in Int, NEW Q \in Int, NEW A \in Int,
         NEW s \in Int,
         D <= C + MaxCalls, Q <= P + Users + 4
  PROVE  (MaxCalls + 1) * (Users + 5) * (MaxTotal - (s + 1)) + (Users + 5) * D + Q + A
         < (MaxCalls + 1) * (Users + 5) * (MaxTotal - s) + (Users + 5) * C + P + A
<1> DEFINE K == Users + 5
           T == (MaxCalls + 1) * K
           S == MaxTotal - s
<1>1. K \in Nat /\ MaxCalls \in Nat /\ S \in Int /\ K = Users + 5 /\ Users \in Nat
  BY UsersFacts, PlayAssumption
<1>2. MaxTotal - (s + 1) = S - 1
  BY PlayAssumption
<1> HIDE DEF K, S
<1>3. K * MaxCalls \in Int /\ T = K * MaxCalls + K /\ T \in Nat
  <2>1. K * MaxCalls \in Int /\ T = K * MaxCalls + K
    BY <1>1, Products
  <2>2. K * 0 <= K * MaxCalls /\ K * 0 = 0
    BY <1>1, Products
  <2> QED BY <1>1, <2>1, <2>2
<1> HIDE DEF T
<1>4. T * S \in Int /\ T * (S - 1) = T * S - T
  BY <1>1, <1>3, Products
<1>5. /\ K * C \in Int /\ K * D \in Int /\ K * (C + MaxCalls) = K * C + K * MaxCalls
      /\ K * D <= K * (C + MaxCalls)
  BY <1>1, Products
<1>6. T * (S - 1) + K * D + Q + A < T * S + K * C + P + A
  BY <1>1, <1>3, <1>4, <1>5
<1> QED BY <1>2, <1>6 DEF K, T, S

RankAs(C, P, A, n) ==
  (MaxCalls + 1) * (Users + 5) * (MaxTotal - n) + (Users + 5) * C + P + A

LEMMA RankLess ==
  ASSUME NEW C \in Int, NEW D \in Int, NEW P \in Int, NEW Q \in Int, NEW A \in Int, NEW B \in Int,
         NEW n \in Int,
         \/ D = C /\ Q + B < P + A
         \/ D = C - 1 /\ Q + B < P + A + Users + 5
  PROVE  RankAs(D, Q, B, n) < RankAs(C, P, A, n)
<1> DEFINE T == (MaxCalls + 1) * (Users + 5) * (MaxTotal - n)
<1>1. T \in Int
  <2> DEFINE X == (MaxCalls + 1) * (Users + 5)
  <2>1. X \in Int
    BY UsersFacts, PlayAssumption
  <2> HIDE DEF X
  <2>2. X * (MaxTotal - n) \in Int
    BY <2>1, PlayAssumption
  <2> QED BY <2>2 DEF X
<1> HIDE DEF T
<1>2. T + (Users + 5) * D + Q + B < T + (Users + 5) * C + P + A
  BY <1>1, LessLeft
<1> QED BY <1>2 DEF RankAs, T

LEMMA RankIs ==
  ASSUME TypeOK, Acting \in User
  PROVE  /\ CallsOf \in Nat /\ PlacesOf \in Nat /\ AudienceOf \in Nat /\ AudienceOf <= Users
         /\ Rank = RankAs(CallsOf, PlacesOf, AudienceOf, spent)
<1> DEFINE K == Users + 5
           T == (MaxCalls + 1) * K
<1>1. /\ calls[Acting] \in Nat /\ calls[GM] \in Nat
      /\ PlaceRank(at[Acting]) \in Nat /\ PlaceRank(at[GM]) \in Nat
  BY AgentFacts, PlaceRankTypes DEF TypeOK
<1>2. AudienceOf \in Nat /\ AudienceOf <= Users
  BY UsersFacts DEF TypeOK, AudienceOf
<1>3. K \in Nat /\ MaxCalls \in Nat /\ MaxTotal \in Nat /\ spent \in Nat
  BY UsersFacts, PlayAssumption DEF TypeOK
<1>4. T \in Int /\ K * CallsOf \in Int
  BY <1>1, <1>3, Products DEF CallsOf
<1>5. T * (MaxTotal - spent) \in Int
  <2> HIDE DEF T
  <2> QED BY <1>3, <1>4
<1>6. Rank = T * (MaxTotal - spent) + K * CallsOf + PlaceRank(at[Acting]) + PlaceRank(at[GM])
             + AudienceOf
  BY DEF Rank, TurnRank, CallRank, Users, CallsOf, AudienceOf
<1> HIDE DEF K, T
<1>7. Rank = T * (MaxTotal - spent) + K * CallsOf + PlacesOf + AudienceOf
  BY <1>1, <1>2, <1>4, <1>5, <1>6 DEF PlacesOf
<1> QED BY <1>1, <1>2, <1>7 DEF CallsOf, PlacesOf, K, T, RankAs

(* A step of the trigger that is no inference brings the end nearer when   *)
(* it leaves less to do.                                                   *)
LEMMA Nearer ==
  ASSUME TypeOK, TypeOK', Acting \in User, event' = event, spent' = spent,
         \/ CallsOf' = CallsOf /\ PlacesOf' + AudienceOf' < PlacesOf + AudienceOf
         \/ CallsOf' = CallsOf - 1 /\ PlacesOf' + AudienceOf' < PlacesOf + AudienceOf + Users + 5
  PROVE  Rank' < Rank
<1>1. /\ CallsOf \in Nat /\ PlacesOf \in Nat /\ AudienceOf \in Nat
      /\ Rank = RankAs(CallsOf, PlacesOf, AudienceOf, spent)
  BY RankIs
<1>2. Acting' = Acting
  BY DEF Acting
<1>3. (TypeOK /\ Acting \in User =>
         /\ CallsOf \in Nat /\ PlacesOf \in Nat /\ AudienceOf \in Nat
         /\ Rank = RankAs(CallsOf, PlacesOf, AudienceOf, spent))'
  BY RankIs, PTL
<1>4. /\ CallsOf' \in Nat /\ PlacesOf' \in Nat /\ AudienceOf' \in Nat
      /\ Rank' = RankAs(CallsOf', PlacesOf', AudienceOf', spent)
  BY <1>2, <1>3 DEF RankAs
<1>5. spent \in Int /\ Users \in Int
  BY UsersFacts DEF TypeOK
<1>6. \A C, D, P, Q, A, B \in Nat :
        \/ D = C /\ Q + B < P + A
        \/ D = C - 1 /\ Q + B < P + A + Users + 5
        => RankAs(D, Q, B, spent) < RankAs(C, P, A, spent)
  <2> SUFFICES ASSUME NEW C \in Nat, NEW D \in Nat, NEW P \in Nat, NEW Q \in Nat,
                      NEW A \in Nat, NEW B \in Nat,
                      \/ D = C /\ Q + B < P + A
                      \/ D = C - 1 /\ Q + B < P + A + Users + 5
               PROVE  RankAs(D, Q, B, spent) < RankAs(C, P, A, spent)
    OBVIOUS
  <2> DEFINE n == spent
  <2>1. n \in Int /\ C \in Int /\ D \in Int /\ P \in Int /\ Q \in Int /\ A \in Int /\ B \in Int
    BY <1>5
  <2> HIDE DEF n
  <2>2. RankAs(D, Q, B, n) < RankAs(C, P, A, n)
    BY <2>1, RankLess
  <2> QED BY <2>2 DEF n
<1>7. RankAs(CallsOf', PlacesOf', AudienceOf', spent) < RankAs(CallsOf, PlacesOf, AudienceOf, spent)
  BY <1>1, <1>4, <1>6
<1> QED BY <1>1, <1>4, <1>7

(* An inference does so whatever it asks for. *)
LEMMA NearerByOne ==
  ASSUME TypeOK, TypeOK', Acting \in User, event' = event, spent' = spent + 1,
         audience' = audience,
         CallsOf' <= CallsOf + MaxCalls, PlacesOf' <= PlacesOf + Users + 4
  PROVE  Rank' < Rank
<1>1. /\ CallsOf \in Nat /\ PlacesOf \in Nat /\ AudienceOf \in Nat
      /\ Rank = RankAs(CallsOf, PlacesOf, AudienceOf, spent)
  BY RankIs
<1>2. Acting' = Acting /\ AudienceOf' = AudienceOf
  BY DEF Acting, AudienceOf
<1>3. (TypeOK /\ Acting \in User =>
         /\ CallsOf \in Nat /\ PlacesOf \in Nat /\ AudienceOf \in Nat
         /\ Rank = RankAs(CallsOf, PlacesOf, AudienceOf, spent))'
  BY RankIs, PTL
<1>4. /\ CallsOf' \in Nat /\ PlacesOf' \in Nat
      /\ Rank' = RankAs(CallsOf', PlacesOf', AudienceOf, spent + 1)
  BY <1>2, <1>3 DEF RankAs
<1>5. spent \in Int /\ Users \in Int
  BY UsersFacts DEF TypeOK
<1>6. ASSUME NEW C \in Nat, NEW D \in Nat, NEW P \in Nat, NEW Q \in Nat, NEW A \in Nat,
             D <= C + MaxCalls, Q <= P + Users + 4
      PROVE  RankAs(D, Q, A, spent + 1) < RankAs(C, P, A, spent)
  BY <1>5, <1>6, ChargeLess DEF RankAs
<1>7. RankAs(CallsOf', PlacesOf', AudienceOf, spent + 1)
      < RankAs(CallsOf, PlacesOf, AudienceOf, spent)
  BY <1>1, <1>4, <1>6
<1> QED BY <1>1, <1>4, <1>7

LEMMA RankTypes ==
  ASSUME TypeOK, Acting \in User
  PROVE  /\ Users \in Nat /\ AudienceOf \in Nat
         /\ calls[Acting] \in Nat /\ calls[GM] \in Nat
         /\ PlaceRank(at[Acting]) \in Nat /\ PlaceRank(at[GM]) \in Nat
BY UsersFacts, RankIs, AgentFacts, PlaceRankTypes DEF TypeOK

(* An answered call is one call less. *)
LEMMA AnsweredNearer ==
  ASSUME TypeOK, TypeOK', CallsLeft, Acting \in User, NEW a \in {Acting, GM}, at[a] \in InCall,
         NextCall(a), UNCHANGED <<event, spent, audience>>
  PROVE  Rank' < Rank
<1>1. /\ at'[a] \in {"infer", "call"} /\ calls'[a] = calls[a] - 1
      /\ \A b \in Agent : b # a => calls'[b] = calls[b] /\ at'[b] = at[b]
  BY NextCallFacts, AgentFacts
<1>2. Acting' = Acting /\ AudienceOf' = AudienceOf /\ Acting # GM
  BY GMIsNoUser DEF Acting, AudienceOf
<1>3. PlaceRank(at'[a]) \in Nat /\ PlaceRank(at'[a]) <= Users + 4
  BY <1>1, PlaceRanks, UsersFacts
<1>4. CallsOf' = CallsOf - 1
  BY <1>1, <1>2, AgentFacts, RankTypes DEF CallsOf
<1>5. PlacesOf' + AudienceOf' < PlacesOf + AudienceOf + Users + 5
  <2>1. PlacesOf' = PlaceRank(at'[Acting]) + PlaceRank(at'[GM])
    BY <1>2 DEF PlacesOf
  <2>2. CASE a = Acting
    BY <1>1, <1>2, <1>3, <2>1, <2>2, AgentFacts, RankTypes DEF PlacesOf
  <2>3. CASE a = GM
    BY <1>1, <1>2, <1>3, <2>1, <2>3, AgentFacts, RankTypes DEF PlacesOf
  <2> QED BY <2>2, <2>3
<1> QED BY <1>4, <1>5, Nearer

(* So is what a call passes through. *)
LEMMA PlaceNearer ==
  ASSUME TypeOK, TypeOK', Acting \in User, UNCHANGED <<event, spent, calls>>,
         PlaceRank(at'[GM]) = PlaceRank(at[GM]),
         AudienceOf' + PlaceRank(at'[Acting]) < AudienceOf + PlaceRank(at[Acting])
  PROVE  Rank' < Rank
<1>1. Acting' = Acting /\ CallsOf' = CallsOf
  BY DEF Acting, CallsOf
<1>2. PlacesOf' = PlaceRank(at'[Acting]) + PlaceRank(at[GM])
  BY <1>1 DEF PlacesOf
<1>3. AudienceOf' \in Nat /\ PlaceRank(at'[Acting]) \in Nat
  <2>1. AudienceOf' \in Nat
    BY UsersFacts DEF AudienceOf, TypeOK
  <2>2. at'[Acting] \in Place
    BY AgentFacts DEF TypeOK
  <2> QED BY <2>1, <2>2, PlaceRankTypes
<1>4. PlacesOf' + AudienceOf' < PlacesOf + AudienceOf
  BY <1>2, <1>3, RankTypes DEF PlacesOf
<1> QED BY <1>1, <1>4, Nearer

LEMMA GoNearer ==
  ASSUME TypeOK, TypeOK', Acting \in User, NEW place \in Place, Go(Acting, place),
         UNCHANGED <<event, spent, calls, audience>>, PlaceRank(place) < PlaceRank(at[Acting])
  PROVE  Rank' < Rank
<1>1. at'[Acting] = place /\ at'[GM] = at[GM] /\ AudienceOf' = AudienceOf
  BY AgentFacts, GMIsNoUser DEF Go, TypeOK, AudienceOf
<1>2. AudienceOf' + PlaceRank(at'[Acting]) < AudienceOf + PlaceRank(at[Acting])
  BY <1>1, RankTypes, PlaceRankTypes
<1> QED BY <1>1, <1>2, PlaceNearer

LEMMA InferNearer ==
  ASSUME TypeOK, TypeOK', Shape, Infer
  PROVE  Rank' < Rank
<1>1. /\ TurnAt("infer") /\ event' = event /\ audience' = audience /\ spent' = spent + 1
  BY DEF Infer, Spend
<1>2. Acting \in User /\ Acting # GM /\ Running \in {Acting, GM} /\ at[Running] = "infer"
  BY <1>1, TurnFacts
<1>3. /\ MaxCalls \in Nat /\ Acting' = Acting
      /\ calls[Acting] \in Nat /\ calls[GM] \in Nat
  BY <1>1, <1>2, RankTypes, PlayAssumption DEF Acting
<1>4. /\ at'[Running] \in {"reply", "call"}
      /\ \A b \in Agent : b # Running => at'[b] = at[b] /\ calls'[b] = calls[b]
      /\ calls'[Running] <= calls[Running] + MaxCalls
  <2>1. Running \in Agent
    BY <1>2, AgentFacts
  <2>2. CASE Go(Running, "reply") /\ UNCHANGED calls
    BY <1>2, <1>3, <2>1, <2>2 DEF Go, TypeOK
  <2>3. CASE \E n \in 1..MaxCalls : Go(Running, "call") /\ calls' = [calls EXCEPT ![Running] = n]
    BY <1>2, <1>3, <2>1, <2>3 DEF Go, TypeOK
  <2> QED BY <2>2, <2>3 DEF Infer
<1>5. PlaceRank(at[Running]) = 0 /\ PlaceRank(at'[Running]) \in 0..(Users + 4) /\ Users \in Nat
  BY <1>2, <1>4, PlaceRanks, UsersFacts
<1>6. CallsOf' <= CallsOf + MaxCalls
  <2>1. calls'[Acting] \in Nat /\ calls'[GM] \in Nat
    BY <1>2, AgentFacts DEF TypeOK
  <2>2. CASE Running = Acting
    BY <1>2, <1>3, <1>4, <2>1, <2>2, AgentFacts DEF CallsOf
  <2>3. CASE Running = GM
    BY <1>2, <1>3, <1>4, <2>1, <2>3, AgentFacts DEF CallsOf
  <2> QED BY <1>2, <2>2, <2>3
<1>7. PlacesOf' <= PlacesOf + Users + 4
  <2>1. PlacesOf' = PlaceRank(at'[Acting]) + PlaceRank(at'[GM])
    BY <1>3 DEF PlacesOf
  <2>2. CASE Running = Acting
    BY <1>2, <1>4, <1>5, <2>1, <2>2, AgentFacts, RankTypes DEF PlacesOf
  <2>3. CASE Running = GM
    BY <1>2, <1>4, <1>5, <2>1, <2>3, AgentFacts, RankTypes DEF PlacesOf
  <2> QED BY <1>2, <2>2, <2>3
<1> QED BY <1>1, <1>2, <1>6, <1>7, NearerByOne

(* Budget and the calls of each message bound every trigger: whatever the  *)
(* model calls, each step of complete_with_call_context and of its tools   *)
(* brings the end nearer.                                                  *)
THEOREM TriggersEnd == Spec => TriggersWindDown
<1>1. ASSUME Inv, Inv', [Next]_vars
      PROVE  [~Idle /\ ~Idle' =>
                Rank' < Rank \/ UNCHANGED <<storeVars, turnVars, callVars>>]_vars
  <2> SUFFICES ASSUME ~Idle, ~Idle'
               PROVE  Rank' < Rank \/ UNCHANGED <<storeVars, turnVars, callVars>>
    OBVIOUS
  <2>0. TypeOK /\ TypeOK' /\ Shape /\ CallsLeft /\ Acting \in User
    BY <1>1 DEF Inv, Shape
  <2>1. CASE UNCHANGED vars \/ MembersChange
    BY <2>1 DEF vars, playVars, MembersChange
  <2>2. CASE End
    BY <2>2 DEF End, Idle, NoTrigger
  <2>3. CASE \E kind \in {"message", "enter"}, u \in User : Take(kind, u)
    BY <2>3 DEF Take
  <2>4. CASE Choose
    BY <2>0, <2>4, GoNearer, PlaceRanks DEF Choose, Place
  <2>5. CASE Infer
    BY <2>0, <2>5, InferNearer
  <2>6. CASE RefuseCall
    <3>1. Running \in {Acting, GM} /\ at[Running] \in InCall
      BY <2>0, <2>6, TurnFacts DEF RefuseCall, TurnAt, InCall
    <3> QED BY <2>0, <2>6, <3>1, AnsweredNearer DEF RefuseCall, callVars
  <2>7. CASE \E r \in Roll : RollOnce(r)
    <3>1. at[Acting] = "call"
      BY <2>0, <2>7, PlayerFacts DEF RollOnce
    <3> QED BY <2>0, <2>7, <3>1, AnsweredNearer DEF RollOnce, callVars, InCall
  <2>8. CASE ReadyToBegin \/ (\E what \in Request : Submit(what))
    <3>1. /\ at[Acting] = "call" /\ Go(Acting, "open")
          /\ UNCHANGED <<event, spent, calls, audience>>
      BY <2>0, <2>8, PlayerFacts DEF ReadyToBegin, Submit
    <3>2. PlaceRank("open") < PlaceRank("call")
      BY PlaceRanks, UsersFacts
    <3> QED BY <2>0, <3>1, <3>2, GoNearer DEF Place
  <2>9. CASE AskGM /\ ~End
    <3>1. /\ at[Acting] = "open" /\ stack = <<Acting>>
          /\ at' = [at EXCEPT ![Acting] = "nested", ![GM] = "infer"]
          /\ UNCHANGED <<event, spent, calls, audience>>
      BY <2>0, <2>9, AskFacts
    <3>2. at'[Acting] = "nested" /\ at'[GM] = "infer" /\ at[GM] = "off"
      BY <2>0, <2>9, <3>1, AgentFacts, GMIsNoUser, ActingTurn DEF TypeOK, AskGM
    <3>3. AudienceOf' = AudienceOf
      BY <3>1 DEF AudienceOf
    <3> QED BY <2>0, <3>1, <3>2, <3>3, PlaceNearer, PlaceRanks, RankTypes
  <2>10. CASE Approve \/ Reject
    <3>1. at[GM] = "call"
      BY <2>0, <2>10, GMRuns DEF Approve, Reject
    <3>2. NextCall(GM) /\ UNCHANGED <<event, spent, audience>>
      BY <2>10 DEF Approve, Reject, Record, callVars
    <3> QED BY <2>0, <3>1, <3>2, AnsweredNearer DEF InCall
  <2>11. CASE Narrate /\ ~End
    <3>1. /\ at[Acting] = "nested"
          /\ at' = [at EXCEPT ![GM] = "off", ![Acting] = "narrate"]
          /\ UNCHANGED <<event, spent, calls, audience>>
      BY <2>0, <2>11, NarrateFacts
    <3>2. at'[Acting] = "narrate" /\ at'[GM] = "off" /\ at[GM] = "reply"
      BY <2>0, <2>11, <3>1, AgentFacts, GMIsNoUser, TurnFacts DEF TypeOK, Narrate
    <3>3. AudienceOf' = AudienceOf
      BY <3>1 DEF AudienceOf
    <3> QED BY <2>0, <3>1, <3>2, <3>3, PlaceNearer, PlaceRanks, RankTypes
  <2>12. CASE StoreResult
    <3>1. /\ at[Acting] = "narrate" /\ Go(Acting, "deliver")
          /\ UNCHANGED <<event, spent, calls>>
      BY <2>0, <2>12, ActingTurn DEF StoreResult
    <3>2. at'[Acting] = "deliver" /\ at'[GM] = at[GM]
      BY <2>0, <3>1, AgentFacts, GMIsNoUser DEF Go, TypeOK
    <3>3. AudienceOf' \in Nat /\ AudienceOf' <= Users
      BY <2>0, UsersFacts DEF AudienceOf, TypeOK
    <3>4. AudienceOf' + PlaceRank(at'[Acting]) < AudienceOf + PlaceRank(at[Acting])
      BY <2>0, <3>1, <3>2, <3>3, PlaceRanks, RankTypes
    <3> QED BY <2>0, <3>1, <3>2, <3>4, PlaceNearer
  <2>13. CASE Delivered
    <3>1. at[Acting] = "deliver"
      BY <2>0, <2>13, ActingTurn DEF Delivered
    <3> QED BY <2>0, <2>13, <3>1, AnsweredNearer DEF Delivered, InCall
  <2>14. CASE \E u \in User : DeliverTo(u)
    <3>1. PICK u \in User : DeliverTo(u)
      BY <2>14
    <3>2. /\ u \in audience /\ audience' = audience \ {u}
          /\ UNCHANGED <<event, spent, calls, at>>
      BY <3>1 DEF DeliverTo, turnVars
    <3>3. IsFiniteSet(audience)
      BY <2>0, UsersFacts DEF TypeOK
    <3>4. AudienceOf' = AudienceOf - 1
      BY <3>2, <3>3, FS_RemoveElement DEF AudienceOf
    <3>5. AudienceOf' + PlaceRank(at'[Acting]) < AudienceOf + PlaceRank(at[Acting])
      BY <2>0, <3>2, <3>4, RankTypes
    <3> QED BY <2>0, <3>2, <3>5, PlaceNearer
  <2>15. CASE Steps
    BY <2>2, <2>3, <2>4, <2>5, <2>6, <2>7, <2>8, <2>9, <2>10, <2>11, <2>12, <2>13, <2>14, <2>15
       DEF Steps
  <2> QED BY <1>1, <2>1, <2>15, StepCases
<1> QED BY <1>1, Invariance, PTL DEF Spec, TriggersWindDown
=============================================================================
