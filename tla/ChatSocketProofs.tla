-------------------------- MODULE ChatSocketProofs --------------------------
(***************************************************************************)
(* Theorems about ChatSocket, for any pages, capacities and bounds.        *)
(***************************************************************************)
EXTENDS ChatSocket, SequenceTheorems, TLAPS

Narrations == Entries("narration")

(* Places at which a page shows no more than the snapshot it was made of. *)
Before == {"closed", "rendered", "connected", "joining", "opening", "catchup"}

(* Only narrations are broadcast. *)
NarrationsAreSent ==
  /\ \A k \in DOMAIN sent : rows[sent[k]] = "narration"
  /\ step = "stored" => rows # <<>> /\ rows[Len(rows)] = "narration"

OutcomeIsReply == outcome > 0 => step = "answer" /\ rows[outcome] = "reply"

(* An opening under way has not spoken yet. *)
OpeningIsFirst == event.kind = "enter" /\ step \in {"turn", "stored"} => ~Spoken

(* A page waits for one event at most. *)
AwaitsOne ==
  /\ step = "idle" => event = Idle
  /\ event.page # Nobody => place[event.page] = "waiting"
  /\ \A i \in DOMAIN queue : queue[i].page # Nobody =>
       /\ place[queue[i].page] = "waiting"
       /\ queue[i].page # event.page
       /\ \A j \in DOMAIN queue : queue[j].page = queue[i].page => i = j

(* A page starts with its snapshot. *)
Snapshot(p) ==
  place[p] \in Before => shown[p] = [i \in 1..cursor[p] |-> i]

Fresh(p) == place[p] = "closed" => cursor[p] = 0 /\ lagged[p] = FALSE /\ answer[p] = 0

(* Once it has caught up, a narration is on it, or failed, or will come by *)
(* a broadcast it has not received.                                        *)
Reaches(p) ==
  place[p] \in Before \/ lagged[p] \/
    \A n \in Narrations :
      \/ n \in ShownOn(p) \cup Undelivered
      \/ \E k \in DOMAIN sent : k > next[p] /\ sent[k] = n

(* The reply it will be given is not on it. *)
ReplyIsNew(p) ==
  /\ answer[p] # 0 => place[p] = "flushing" /\ rows[answer[p]] = "reply" /\ answer[p] \notin ShownOn(p)
  /\ event.page = p /\ outcome > 0 => outcome \notin ShownOn(p)

OnceOn(p) ==
  \A j, k \in DOMAIN shown[p] :
    j < k /\ shown[p][j] = shown[p][k] /\ shown[p][j] # 0 => rows[shown[p][j]] = "narration"

InOrder(p) ==
  \A k \in DOMAIN shown[p] :
    LET r == shown[p][k] IN
      r # 0 /\ rows[r] = "reply" /\ ~lagged[p] =>
        \A n \in Entries("narration") \ lost :
          n < r => \E j \in 1..(k - 1) : shown[p][j] = n

PageInv(p) ==
  Snapshot(p) /\ Fresh(p) /\ Reaches(p) /\ ReplyIsNew(p) /\ OnceOn(p) /\ InOrder(p)

(* The event of an opening answers to no page. *)
EntersHaveNoPage == \A e \in Outstanding : e.kind = "enter" => e.page = Nobody

WorldInv ==
  /\ NarrationsAreSent /\ OutcomeIsReply /\ OpeningIsFirst
  /\ AwaitsOne /\ EntersHaveNoPage /\ NobodyForgotten

Inv == TypeOK /\ WorldInv /\ \A p \in Page : PageInv(p)

-----------------------------------------------------------------------------
(* The tables. *)

WorldTypes ==
  /\ rows \in Seq(EntryKind) /\ ready \in BOOLEAN
  /\ queue \in Seq(Event) /\ Len(queue) <= QueueCap
  /\ event \in Event
  /\ step \in {"idle", "turn", "stored", "answer"}
  /\ outcome \in {Failed, 0} \cup DOMAIN rows
  /\ opening \in {"none", "queueing", "queued", "opened", "failed"}
  /\ strays \in Nat
  /\ lost \subseteq DOMAIN rows
  /\ sent \in Seq(DOMAIN rows)

PageTypes ==
  /\ place \in [Page -> Place]
  /\ shown \in [Page -> Seq({0} \cup DOMAIN rows)]
  /\ cursor \in [Page -> 0..Len(rows)]
  /\ next \in [Page -> 0..Len(sent)]
  /\ lagged \in [Page -> BOOLEAN]
  /\ canAct \in [Page -> BOOLEAN]
  /\ inbox \in [Page -> BOOLEAN]
  /\ answer \in [Page -> {0} \cup DOMAIN rows]

BoundTypes ==
  /\ loads \in 0..MaxLoads /\ submits \in 0..MaxMessages
  /\ others \in 0..MaxOthers /\ restarts \in 0..MaxRestarts

LEMMA TypeParts == TypeOK <=> WorldTypes /\ PageTypes /\ BoundTypes
BY DEF TypeOK, WorldTypes, PageTypes, BoundTypes

LEMMA TableFacts ==
  ASSUME TypeOK
  PROVE  /\ Len(rows) \in Nat /\ DOMAIN rows = 1..Len(rows)
         /\ Len(sent) \in Nat /\ DOMAIN sent = 1..Len(sent)
         /\ \A k \in DOMAIN sent : sent[k] \in DOMAIN rows
         /\ Len(queue) \in Nat /\ DOMAIN queue = 1..Len(queue)
         /\ \A i \in DOMAIN queue : queue[i] \in Event
<1>1. rows \in Seq(EntryKind) /\ sent \in Seq(DOMAIN rows) /\ queue \in Seq(Event)
  BY DEF TypeOK
<1>2. Len(rows) \in Nat /\ DOMAIN rows = 1..Len(rows)
  BY <1>1
<1>3. Len(sent) \in Nat /\ DOMAIN sent = 1..Len(sent) /\ \A k \in DOMAIN sent : sent[k] \in DOMAIN rows
  BY <1>1
<1>4. /\ Len(queue) \in Nat /\ DOMAIN queue = 1..Len(queue)
      /\ \A i \in DOMAIN queue : queue[i] \in Event
  BY <1>1
<1> QED BY <1>2, <1>3, <1>4

LEMMA PageFacts ==
  ASSUME TypeOK, NEW p \in Page
  PROVE  /\ shown[p] \in Seq({0} \cup DOMAIN rows)
         /\ Len(shown[p]) \in Nat /\ DOMAIN shown[p] = 1..Len(shown[p])
         /\ \A k \in DOMAIN shown[p] : shown[p][k] \in {0} \cup DOMAIN rows
         /\ ShownOn(p) \subseteq DOMAIN rows
         /\ cursor[p] \in 0..Len(rows) /\ next[p] \in 0..Len(sent)
         /\ answer[p] \in {0} \cup DOMAIN rows
         /\ place[p] \in Place
<1>1. shown[p] \in Seq({0} \cup DOMAIN rows)
  BY DEF TypeOK
<1>2. /\ Len(shown[p]) \in Nat /\ DOMAIN shown[p] = 1..Len(shown[p])
      /\ \A k \in DOMAIN shown[p] : shown[p][k] \in {0} \cup DOMAIN rows
  BY <1>1
<1>3. ShownOn(p) \subseteq DOMAIN rows
  BY <1>2 DEF ShownOn
<1>4. cursor[p] \in 0..Len(rows) /\ next[p] \in 0..Len(sent) /\ answer[p] \in {0} \cup DOMAIN rows
      /\ place[p] \in Place
  BY DEF TypeOK
<1> QED BY <1>1, <1>2, <1>3, <1>4

(* Rows are only appended. *)
Grown == rows' = rows \/ \E kind \in EntryKind : rows' = Append(rows, kind)

LEMMA RowsGrow ==
  ASSUME TypeOK, Grown
  PROVE  /\ rows' \in Seq(EntryKind)
         /\ Len(rows') \in Nat /\ DOMAIN rows' = 1..Len(rows')
         /\ Len(rows) <= Len(rows')
         /\ DOMAIN rows \subseteq DOMAIN rows'
         /\ \A i \in DOMAIN rows : rows'[i] = rows[i]
         /\ \A i \in DOMAIN rows' \ DOMAIN rows : i = Len(rows) + 1 /\ i = Len(rows')
<1>1. rows \in Seq(EntryKind)
  BY DEF TypeOK
<1>2. CASE rows' = rows
  BY <1>1, <1>2
<1>3. ASSUME NEW kind \in EntryKind, rows' = Append(rows, kind)
      PROVE  /\ rows' \in Seq(EntryKind)
             /\ Len(rows') = Len(rows) + 1
             /\ \A i \in 1..Len(rows) : rows'[i] = rows[i]
  BY <1>1, <1>3, AppendProperties
<1>4. ASSUME NEW kind \in EntryKind, rows' = Append(rows, kind)
      PROVE  /\ rows' \in Seq(EntryKind)
             /\ Len(rows') \in Nat /\ DOMAIN rows' = 1..Len(rows')
             /\ Len(rows) <= Len(rows')
             /\ DOMAIN rows \subseteq DOMAIN rows'
             /\ \A i \in DOMAIN rows : rows'[i] = rows[i]
             /\ \A i \in DOMAIN rows' \ DOMAIN rows : i = Len(rows) + 1 /\ i = Len(rows')
  BY <1>1, <1>3, <1>4
<1> QED BY <1>2, <1>4 DEF Grown

(* What is typed over the rows stays so. *)
LEMMA TypesGrow ==
  ASSUME TypeOK, Grown
  PROVE  /\ outcome \in {Failed, 0} \cup DOMAIN rows' /\ lost \subseteq DOMAIN rows'
         /\ sent \in Seq(DOMAIN rows')
         /\ shown \in [Page -> Seq({0} \cup DOMAIN rows')]
         /\ cursor \in [Page -> 0..Len(rows')]
         /\ answer \in [Page -> {0} \cup DOMAIN rows']
<1>1. DOMAIN rows \subseteq DOMAIN rows' /\ Len(rows) \in Nat /\ Len(rows') \in Nat /\ Len(rows) <= Len(rows')
  BY RowsGrow, TableFacts
<1>2. Seq(DOMAIN rows) \subseteq Seq(DOMAIN rows')
  BY <1>1, SeqMonotonic
<1>3. Seq({0} \cup DOMAIN rows) \subseteq Seq({0} \cup DOMAIN rows')
  BY <1>1, SeqMonotonic
<1>4. 0..Len(rows) \subseteq 0..Len(rows')
  BY <1>1
<1>5. outcome \in {Failed, 0} \cup DOMAIN rows' /\ lost \subseteq DOMAIN rows' /\ sent \in Seq(DOMAIN rows')
  BY <1>1, <1>2 DEF TypeOK
<1>6. shown \in [Page -> Seq({0} \cup DOMAIN rows')]
  BY <1>3 DEF TypeOK
<1>7. cursor \in [Page -> 0..Len(rows')]
  BY <1>4 DEF TypeOK
<1>8. answer \in [Page -> {0} \cup DOMAIN rows']
  BY <1>1 DEF TypeOK
<1> QED BY <1>5, <1>6, <1>7, <1>8

(* What is shown next is typed like what is shown. *)
LEMMA AfterFacts ==
  ASSUME TypeOK, NEW c \in 0..Len(rows)
  PROVE  /\ After(c) \in Seq({0} \cup DOMAIN rows)
         /\ Len(After(c)) = Len(rows) - c
         /\ \A i \in 1..(Len(rows) - c) : After(c)[i] = c + i
<1>1. Len(rows) \in Nat /\ DOMAIN rows = 1..Len(rows)
  BY TableFacts
<1>2. Len(rows) - c \in Nat /\ \A i \in 1..(Len(rows) - c) : c + i \in {0} \cup DOMAIN rows
  BY <1>1
<1> QED BY <1>1, <1>2, IsASeq DEF After

LEMMA ShowFacts ==
  ASSUME TypeOK, NEW p \in Page, NEW more \in Seq({0} \cup DOMAIN rows), Show(p, more)
  PROVE  /\ shown' \in [Page -> Seq({0} \cup DOMAIN rows)]
         /\ shown'[p] = shown[p] \o more
         /\ \A q \in Page : q # p => shown'[q] = shown[q]
<1>1. shown[p] \o more \in Seq({0} \cup DOMAIN rows)
  BY PageFacts, ConcatProperties
<1>2. shown' = [shown EXCEPT ![p] = shown[p] \o more]
  BY DEF Show
<1> QED BY <1>1, <1>2 DEF TypeOK

LEMMA OneRow ==
  ASSUME NEW S, NEW i \in S
  PROVE  <<i>> \in Seq(S) /\ Len(<<i>>) = 1 /\ <<i>>[1] = i
OBVIOUS

LEMMA NextForgotten ==
  ASSUME TypeOK, NEW gone \in SUBSET Page, ForgetPages(gone), sent' = sent
  PROVE  next' \in [Page -> 0..Len(sent')]
<1>1. Len(sent) \in Nat /\ next \in [Page -> 0..Len(sent)]
  BY TableFacts DEF TypeOK
<1> QED BY <1>1 DEF ForgetPages

LEMMA Forgotten ==
  ASSUME TypeOK, Grown, NEW gone \in SUBSET Page, ForgetPages(gone), next' \in [Page -> 0..Len(sent')]
  PROVE  PageTypes'
<1>1. <<>> \in Seq({0} \cup DOMAIN rows') /\ 0 \in 0..Len(rows')
  BY RowsGrow, EmptySeq
<1>2. /\ shown \in [Page -> Seq({0} \cup DOMAIN rows')]
      /\ cursor \in [Page -> 0..Len(rows')] /\ answer \in [Page -> {0} \cup DOMAIN rows']
  BY TypesGrow
<1>3. shown' \in [Page -> Seq({0} \cup DOMAIN rows')]
  BY <1>1, <1>2 DEF ForgetPages
<1>4. cursor' \in [Page -> 0..Len(rows')] /\ answer' \in [Page -> {0} \cup DOMAIN rows']
  BY <1>1, <1>2 DEF ForgetPages
<1>5. place' \in [Page -> Place] /\ lagged' \in [Page -> BOOLEAN] /\ canAct' \in [Page -> BOOLEAN]
      /\ inbox' \in [Page -> BOOLEAN]
  BY DEF ForgetPages, TypeOK, Place
<1> QED BY <1>3, <1>4, <1>5 DEF PageTypes

(* Steps of a page that leave the world alone. *)
LEMMA ShowTypes ==
  ASSUME TypeOK, NEW p \in Page, UNCHANGED <<rows, ready, sent, worldVars>>,
         Render(p) \/ CatchUp(p) \/ Submit(p) \/ Forward(p) \/ ShowReply(p)
  PROVE  PageTypes'
<1>1. /\ Len(rows) \in Nat /\ DOMAIN rows = 1..Len(rows) /\ Len(sent) \in Nat /\ DOMAIN sent = 1..Len(sent)
      /\ \A k \in DOMAIN sent : sent[k] \in DOMAIN rows
  BY TableFacts
<1>2. cursor[p] \in 0..Len(rows) /\ next[p] \in 0..Len(sent) /\ answer[p] \in {0} \cup DOMAIN rows
  BY PageFacts
<1>3. CASE Render(p)
  <2>1. 0 \in 0..Len(rows) /\ Len(rows) \in 0..Len(rows)
    BY <1>1
  <2>2. After(0) \in Seq({0} \cup DOMAIN rows)
    BY <2>1, AfterFacts
  <2>3. shown' \in [Page -> Seq({0} \cup DOMAIN rows)]
    BY <1>3, <2>2, ShowFacts DEF Render
  <2>4. cursor' \in [Page -> 0..Len(rows)]
    BY <1>3, <2>1 DEF Render, TypeOK
  <2>5. place' \in [Page -> Place]
    BY <1>3 DEF Render, Go, TypeOK, Place
  <2> QED BY <1>3, <2>3, <2>4, <2>5 DEF Render, PageTypes, TypeOK
<1>4. CASE CatchUp(p)
  <2>1. After(cursor[p]) \in Seq({0} \cup DOMAIN rows)
    BY <1>2, AfterFacts
  <2>2. shown' \in [Page -> Seq({0} \cup DOMAIN rows)]
    BY <1>4, <2>1, ShowFacts DEF CatchUp
  <2> QED BY <1>1, <1>4, <2>2 DEF CatchUp, Go, PageTypes, TypeOK, Place
<1>5. CASE Submit(p)
  <2>1. <<0>> \in Seq({0} \cup DOMAIN rows)
    BY OneRow
  <2>2. shown' \in [Page -> Seq({0} \cup DOMAIN rows)]
    BY <1>5, <2>1, ShowFacts DEF Submit
  <2> QED BY <1>1, <1>5, <2>2 DEF Submit, PageTypes, TypeOK
<1>6. CASE Forward(p)
  <2>1. CASE Len(sent) - next[p] > Buffer
    <3>1. Len(sent) - Buffer \in 0..Len(sent)
      BY <1>1, <1>2, <2>1, ChatAssumption
    <3> QED BY <1>1, <1>6, <2>1, <3>1 DEF Forward, PageTypes, TypeOK
  <2>2. CASE ~(Len(sent) - next[p] > Buffer)
    <3>1. next[p] + 1 \in DOMAIN sent /\ next[p] + 1 \in 0..Len(sent)
      BY <1>1, <1>2, <1>6 DEF Forward
    <3>2. <<sent[next[p] + 1]>> \in Seq({0} \cup DOMAIN rows)
      BY <1>1, <3>1, OneRow
    <3>3. shown' \in [Page -> Seq({0} \cup DOMAIN rows)]
      BY <1>6, <2>2, <3>2, ShowFacts DEF Forward
    <3> QED BY <1>1, <1>6, <2>2, <3>1, <3>3 DEF Forward, PageTypes, TypeOK
  <2> QED BY <2>1, <2>2
<1>7. CASE ShowReply(p)
  <2>1. CASE answer[p] = 0
    BY <1>1, <1>7, <2>1 DEF ShowReply, Go, PageTypes, TypeOK, Place
  <2>2. CASE answer[p] # 0
    <3>1. <<answer[p]>> \in Seq({0} \cup DOMAIN rows)
      BY <1>2, OneRow
    <3>2. shown' \in [Page -> Seq({0} \cup DOMAIN rows)]
      BY <1>7, <2>2, <3>1, ShowFacts DEF ShowReply
    <3> QED BY <1>1, <1>7, <3>2 DEF ShowReply, Go, PageTypes, TypeOK, Place
  <2> QED BY <2>1, <2>2
<1> QED BY <1>3, <1>4, <1>5, <1>6, <1>7

(* Steps of a page that show nothing. *)
LEMMA QuietTypes ==
  ASSUME TypeOK, NEW p \in Page,
         Subscribe(p) \/ LookForOpening(p) \/ JoinOpening(p) \/ Enable(p) \/ Receive(p)
           \/ QueueMessage(p) \/ Close(p)
  PROVE  PageTypes'
<1> USE DEF Go, PageTypes, TypeOK, Place
<1>1. Len(sent) \in 0..Len(sent)
  BY TableFacts
<1>2. CASE Subscribe(p)
  BY <1>1, <1>2 DEF Subscribe
<1>3. CASE LookForOpening(p)
  BY <1>3 DEF LookForOpening
<1>4. CASE JoinOpening(p)
  <2>1. CASE ForgetPages({p})
    <3>1. Grown /\ next' \in [Page -> 0..Len(sent')]
      BY <1>4, <2>1, NextForgotten DEF JoinOpening, Grown
    <3> HIDE DEF PageTypes, TypeOK
    <3>2. {p} \in SUBSET Page
      OBVIOUS
    <3> QED BY <2>1, <3>1, <3>2, Forgotten
  <2>2. CASE ~ForgetPages({p})
    BY <1>4, <2>2 DEF JoinOpening
  <2> QED BY <2>1, <2>2
<1>5. CASE Enable(p)
  BY <1>5 DEF Enable
<1>6. CASE Receive(p)
  BY <1>6 DEF Receive
<1>7. CASE QueueMessage(p)
  BY <1>7 DEF QueueMessage
<1>8. CASE Close(p)
  <2>1. Grown /\ ForgetPages({p}) /\ next' \in [Page -> 0..Len(sent')]
    BY <1>8, NextForgotten DEF Close, Grown
  <2> HIDE DEF PageTypes, TypeOK
  <2>2. {p} \in SUBSET Page
    OBVIOUS
  <2> QED BY <2>1, <2>2, Forgotten
<1> QED BY <1>2, <1>3, <1>4, <1>5, <1>6, <1>7, <1>8

LEMMA EventFacts ==
  /\ Idle \in Event /\ Enter \in Event /\ OtherPlayer \in Event
  /\ \A p \in Page \cup {Nobody} : MessageOf(p) \in Event
  /\ \A e \in Event, p \in Page : WithoutPage(e, p) \in Event
  /\ \A e \in Event, p \in Page :
       WithoutPage(e, p).kind = e.kind /\ WithoutPage(e, p).page \in {e.page, Nobody} \ {p}
BY ChatAssumption DEF Idle, Enter, OtherPlayer, MessageOf, Event, WithoutPage

LEMMA QueueTypes ==
  ASSUME TypeOK, Len(queue) < QueueCap, NEW e \in Event, queue' = Append(queue, e)
  PROVE  queue' \in Seq(Event) /\ Len(queue') <= QueueCap
BY ChatAssumption, AppendProperties DEF TypeOK

(* What pages do to the world. *)
LEMMA PageStepWorld ==
  ASSUME TypeOK, NEW p \in Page, PageStep(p) \/ Render(p) \/ Submit(p) \/ Close(p)
  PROVE  WorldTypes' /\ rows' = rows /\ sent' = sent
<1> USE DEF WorldTypes, TypeOK, worldVars
<1>1. CASE QueueMessage(p)
  BY <1>1, EventFacts, QueueTypes DEF QueueMessage
<1>2. CASE JoinOpening(p)
  BY <1>2 DEF JoinOpening
<1>3. CASE Close(p)
  <2>1. /\ Len(queue) \in Nat /\ DOMAIN queue = 1..Len(queue)
        /\ \A i \in DOMAIN queue : WithoutPage(queue[i], p) \in Event
    BY TableFacts, EventFacts
  <2>2. queue' \in Seq(Event) /\ Len(queue') = Len(queue)
    BY <1>3, <2>1, IsASeq DEF Close
  <2>3. event' \in Event /\ strays' \in Nat
    BY <1>3, EventFacts DEF Close
  <2> QED BY <1>3, <2>2, <2>3 DEF Close
<1>4. CASE Render(p)
  BY <1>4 DEF Render
<1>5. CASE Submit(p)
  BY <1>5 DEF Submit
<1>6. CASE Subscribe(p) \/ LookForOpening(p) \/ CatchUp(p) \/ Enable(p) \/ Receive(p)
             \/ Forward(p) \/ ShowReply(p)
  BY <1>6 DEF Subscribe, LookForOpening, CatchUp, Enable, Receive, Forward, ShowReply
<1> QED BY <1>1, <1>2, <1>3, <1>4, <1>5, <1>6 DEF PageStep

LEMMA StoreFacts ==
  ASSUME TypeOK, NEW kind \in EntryKind, Store(kind)
  PROVE  /\ Grown /\ rows' \in Seq(EntryKind) /\ Len(rows') = Len(rows) + 1
         /\ Len(rows') \in DOMAIN rows' /\ rows'[Len(rows')] = kind
         /\ Len(rows') \notin DOMAIN rows
<1>1. rows \in Seq(EntryKind) /\ rows' = Append(rows, kind)
  BY DEF TypeOK, Store
<1> QED BY <1>1, AppendProperties DEF Grown

(* What the world does to its own variables. *)
LEMMA WorldStepWorld ==
  ASSUME TypeOK, WorldInv, WorldStep
  PROVE  WorldTypes' /\ Grown
<1> USE DEF WorldTypes, TypeOK
<1>0. /\ "user" \in EntryKind /\ "narration" \in EntryKind /\ "reply" \in EntryKind
      /\ rows' = rows => Grown
  BY DEF EntryKind, Grown
<1>1. CASE TakeEvent
  <2>1. event' \in Event /\ queue' \in Seq(Event) /\ Len(queue') <= QueueCap
    <3>1. queue \in Seq(Event) /\ queue # <<>> /\ Len(queue) <= QueueCap
      BY <1>1 DEF TakeEvent
    <3>2. /\ Head(queue) \in Event /\ Tail(queue) \in Seq(Event)
          /\ Len(queue) \in Nat /\ Len(Tail(queue)) = Len(queue) - 1
      BY <3>1, HeadTailProperties
    <3>3. QueueCap \in Nat
      BY ChatAssumption
    <3>4. event' = Head(queue) /\ queue' = Tail(queue)
      BY <1>1 DEF TakeEvent
    <3> QED BY <3>1, <3>2, <3>3, <3>4
  <2>2. CASE Store("user")
    <3>1. Grown /\ rows' \in Seq(EntryKind)
      BY <1>0, <2>2, StoreFacts
    <3>2. /\ outcome \in {Failed, 0} \cup DOMAIN rows' /\ lost \subseteq DOMAIN rows'
          /\ sent \in Seq(DOMAIN rows')
      BY <3>1, TypesGrow
    <3> QED BY <1>1, <2>1, <3>1, <3>2 DEF TakeEvent
  <2>3. CASE rows' = rows
    BY <1>0, <1>1, <2>1, <2>3 DEF TakeEvent
  <2> QED BY <1>1, <2>2, <2>3 DEF TakeEvent
<1>2. CASE StoreNarration
  <2>1. Grown /\ rows' \in Seq(EntryKind)
    BY <1>0, <1>2, StoreFacts DEF StoreNarration
  <2>2. /\ outcome \in {Failed, 0} \cup DOMAIN rows' /\ lost \subseteq DOMAIN rows'
        /\ sent \in Seq(DOMAIN rows')
    BY <2>1, TypesGrow
  <2> QED BY <1>2, <2>1, <2>2 DEF StoreNarration
<1>3. CASE StoreReply
  <2>1. Grown /\ rows' \in Seq(EntryKind) /\ Len(rows') \in DOMAIN rows'
    BY <1>0, <1>3, StoreFacts DEF StoreReply
  <2>2. lost \subseteq DOMAIN rows' /\ sent \in Seq(DOMAIN rows')
    BY <2>1, TypesGrow
  <2> QED BY <1>3, <2>1, <2>2 DEF StoreReply
<1>4. CASE BroadcastNarration
  <2>1. Len(rows) \in DOMAIN rows
    BY <1>4, TableFacts DEF BroadcastNarration, WorldInv, NarrationsAreSent
  <2>2. sent' \in Seq(DOMAIN rows)
    BY <1>4, <2>1, AppendProperties DEF BroadcastNarration
  <2> QED BY <1>0, <1>4, <2>2 DEF BroadcastNarration
<1>5. CASE DeliveryFails
  <2>1. Len(rows) \in DOMAIN rows
    BY <1>5, TableFacts DEF DeliveryFails, WorldInv, NarrationsAreSent
  <2> QED BY <1>0, <1>5, <2>1 DEF DeliveryFails
<1>6. CASE BeginPlay
  BY <1>0, <1>6 DEF BeginPlay, worldVars
<1>7. CASE EndQuietly
  BY <1>0, <1>7 DEF EndQuietly
<1>8. CASE TurnFails
  <2>1. outcome > 0 => outcome \in DOMAIN rows
    BY DEF Failed
  <2> QED BY <1>0, <1>8, <2>1 DEF TurnFails
<1>9. CASE AnswerMessage
  BY <1>0, <1>9, EventFacts DEF AnswerMessage
<1>10. CASE FinishOpening
  BY <1>0, <1>10, EventFacts DEF FinishOpening
<1> QED BY <1>1, <1>2, <1>3, <1>4, <1>5, <1>6, <1>7, <1>8, <1>9, <1>10 DEF WorldStep

(* What the world does to the pages. *)
LEMMA WorldStepPages ==
  ASSUME TypeOK, WorldStep, Grown
  PROVE  PageTypes'
<1>1. /\ shown \in [Page -> Seq({0} \cup DOMAIN rows')]
      /\ cursor \in [Page -> 0..Len(rows')] /\ answer \in [Page -> {0} \cup DOMAIN rows']
  BY TypesGrow
<1>2. Len(sent) \in Nat /\ next \in [Page -> 0..Len(sent)]
  BY TableFacts DEF TypeOK
<1>3. CASE UNCHANGED <<sent, pageVars>>
  BY <1>1, <1>2, <1>3 DEF PageTypes, TypeOK, pageVars
<1>4. CASE BroadcastNarration
  <2>1. sent \in Seq(DOMAIN rows) /\ sent' = Append(sent, Len(rows))
    BY <1>4 DEF BroadcastNarration, TypeOK
  <2>2. Len(sent') = Len(sent) + 1
    BY <2>1
  <2>3. next \in [Page -> 0..Len(sent')]
    BY <1>2, <2>2
  <2> QED BY <1>1, <1>4, <2>3 DEF BroadcastNarration, PageTypes, TypeOK, pageVars
<1>5. CASE AnswerMessage
  <2>1. CASE event.page = Nobody
    BY <1>1, <1>2, <1>5, <2>1 DEF AnswerMessage, PageTypes, TypeOK
  <2>2. CASE event.page # Nobody
    <3>1. event.page \in Page
      BY <2>2 DEF TypeOK, Event
    <3>2. (IF outcome = Failed THEN 0 ELSE outcome) \in {0} \cup DOMAIN rows
      BY DEF TypeOK
    <3>3. answer' \in [Page -> {0} \cup DOMAIN rows']
      BY <1>5, <2>2, <3>1, <3>2 DEF AnswerMessage, TypeOK
    <3>4. place' \in [Page -> Place]
      BY <1>5, <2>2, <3>1 DEF AnswerMessage, TypeOK, Go, Place
    <3> QED BY <1>1, <1>2, <1>5, <3>3, <3>4 DEF AnswerMessage, PageTypes, TypeOK
  <2> QED BY <2>1, <2>2
<1>6. CASE FinishOpening
  <2>1. CASE outcome = Failed
    <3>1. Viewers \in SUBSET Page /\ ForgetPages(Viewers) /\ sent' = sent
      BY <1>6, <2>1 DEF FinishOpening, Viewers
    <3>2. next' \in [Page -> 0..Len(sent')]
      BY <3>1, NextForgotten
    <3> QED BY <3>1, <3>2, Forgotten
  <2>2. CASE outcome # Failed
    <3>1. place' \in [Page -> Place]
      BY <1>6, <2>2 DEF FinishOpening, TypeOK, Place
    <3> QED BY <1>1, <1>2, <1>6, <2>2, <3>1 DEF FinishOpening, PageTypes, TypeOK
  <2> QED BY <2>1, <2>2
<1>7. WorldStep /\ ~BroadcastNarration /\ ~AnswerMessage /\ ~FinishOpening => UNCHANGED <<sent, pageVars>>
  BY DEF WorldStep, TakeEvent, BeginPlay, StoreNarration, DeliveryFails, StoreReply, EndQuietly,
         TurnFails, worldVars, pageVars
<1> QED BY <1>3, <1>4, <1>5, <1>6, <1>7

(* Steps of those who queue, and of the entry of an opening. *)
QueueStep == QueueStray \/ QueueOpening \/ RemoveOpening \/ QueueOther

LEMMA QueueStepTypes ==
  ASSUME TypeOK, QueueStep
  PROVE  WorldTypes' /\ PageTypes' /\ rows' = rows /\ sent' = sent
<1> USE DEF WorldTypes, PageTypes, TypeOK, pageVars
<1>1. CASE QueueStray
  <2>1. queue' \in Seq(Event) /\ Len(queue') <= QueueCap
    BY <1>1, EventFacts, QueueTypes DEF QueueStray
  <2> QED BY <1>1, <2>1 DEF QueueStray
<1>2. CASE QueueOpening
  <2>1. queue' \in Seq(Event) /\ Len(queue') <= QueueCap
    BY <1>2, EventFacts, QueueTypes DEF QueueOpening
  <2> QED BY <1>2, <2>1 DEF QueueOpening
<1>3. CASE RemoveOpening
  BY <1>3 DEF RemoveOpening
<1>4. CASE QueueOther
  <2>1. queue' \in Seq(Event) /\ Len(queue') <= QueueCap
    BY <1>4, EventFacts, QueueTypes DEF QueueOther
  <2> QED BY <1>4, <2>1 DEF QueueOther
<1> QED BY <1>1, <1>2, <1>3, <1>4 DEF QueueStep

LEMMA RestartTypes ==
  ASSUME TypeOK, Restart
  PROVE  WorldTypes' /\ PageTypes'
<1>1. rows' = rows /\ sent' = <<>> /\ ForgetPages(Page) /\ Grown
  BY DEF Restart, Grown
<1>2. <<>> \in Seq(DOMAIN rows') /\ <<>> \in Seq(Event) /\ Len(<<>>) = 0
  BY EmptySeq
<1>3. WorldTypes'
  BY <1>1, <1>2, EventFacts, ChatAssumption DEF Restart, WorldTypes, TypeOK
<1>4. next' \in [Page -> 0..Len(sent')]
  BY <1>1, <1>2 DEF ForgetPages
<1>5. PageTypes'
  BY <1>1, <1>4, Forgotten
<1> QED BY <1>3, <1>5

LEMMA BoundsKept ==
  ASSUME TypeOK, Next
  PROVE  BoundTypes'
<1>1. MaxLoads \in Nat /\ MaxMessages \in Nat /\ MaxOthers \in Nat /\ MaxRestarts \in Nat
  BY ChatAssumption
<1>2. CASE UNCHANGED bounds
  BY <1>2 DEF bounds, TypeOK, BoundTypes
<1>3. ASSUME NEW p \in Page, Render(p) \/ Submit(p)
      PROVE  BoundTypes'
  <2>1. loads \in 0..MaxLoads /\ submits \in 0..MaxMessages /\ others \in 0..MaxOthers
        /\ restarts \in 0..MaxRestarts
    BY DEF TypeOK
  <2>2. CASE Render(p)
    <3>1. loads' = loads + 1 /\ loads < MaxLoads /\ UNCHANGED <<submits, others, restarts>>
      BY <2>2 DEF Render
    <3> QED BY <1>1, <2>1, <3>1 DEF BoundTypes
  <2>3. CASE Submit(p)
    <3>1. submits' = submits + 1 /\ submits < MaxMessages /\ UNCHANGED <<loads, others, restarts>>
      BY <2>3 DEF Submit
    <3> QED BY <1>1, <2>1, <3>1 DEF BoundTypes
  <2> QED BY <1>3, <2>2, <2>3
<1>4. CASE QueueOther \/ Restart
  <2>1. loads \in 0..MaxLoads /\ submits \in 0..MaxMessages /\ others \in 0..MaxOthers
        /\ restarts \in 0..MaxRestarts
    BY DEF TypeOK
  <2>2. CASE QueueOther
    <3>1. others' = others + 1 /\ others < MaxOthers /\ UNCHANGED <<loads, submits, restarts>>
      BY <2>2 DEF QueueOther
    <3> QED BY <1>1, <2>1, <3>1 DEF BoundTypes
  <2>3. CASE Restart
    <3>1. restarts' = restarts + 1 /\ restarts < MaxRestarts /\ UNCHANGED <<loads, submits, others>>
      BY <2>3 DEF Restart
    <3> QED BY <1>1, <2>1, <3>1 DEF BoundTypes
  <2> QED BY <1>4, <2>2, <2>3
<1>5. ASSUME NEW p \in Page, PageStep(p) \/ Close(p)
      PROVE  UNCHANGED bounds
  BY <1>5 DEF PageStep, Subscribe, LookForOpening, JoinOpening, CatchUp, Enable, Receive,
              QueueMessage, Forward, ShowReply, Close
<1>6. WorldStep \/ QueueStray \/ QueueOpening \/ RemoveOpening => UNCHANGED bounds
  BY DEF WorldStep, TakeEvent, BeginPlay, StoreNarration, BroadcastNarration, DeliveryFails,
         StoreReply, EndQuietly, TurnFails, AnswerMessage, FinishOpening, QueueStray, QueueOpening,
         RemoveOpening
<1> QED BY <1>2, <1>3, <1>4, <1>5, <1>6 DEF Next

(* Every step is one of these. *)
LEMMA StepCases ==
  ASSUME [Next]_vars
  PROVE  \/ \E p \in Page : PageStep(p) \/ Render(p) \/ Submit(p) \/ Close(p)
         \/ WorldStep \/ QueueStep \/ Restart
         \/ UNCHANGED vars
BY DEF Next, QueueStep

LEMMA TypesKept ==
  ASSUME TypeOK, WorldInv, [Next]_vars
  PROVE  TypeOK'
<1>1. CASE UNCHANGED vars
  BY <1>1 DEF vars, worldVars, pageVars, bounds, TypeOK
<1>2. CASE Next
  <2>1. BoundTypes'
    BY <1>2, BoundsKept
  <2>2. ASSUME NEW p \in Page, PageStep(p) \/ Render(p) \/ Submit(p) \/ Close(p)
        PROVE  WorldTypes' /\ PageTypes'
    <3>1. WorldTypes' /\ rows' = rows /\ sent' = sent
      BY <2>2, PageStepWorld
    <3>2. CASE Render(p) \/ CatchUp(p) \/ Submit(p) \/ Forward(p) \/ ShowReply(p)
      <4>1. UNCHANGED <<rows, ready, sent, worldVars>>
        BY <3>2 DEF Render, CatchUp, Submit, Forward, ShowReply
      <4> QED BY <3>1, <3>2, <4>1, ShowTypes
    <3>3. CASE \/ Subscribe(p) \/ LookForOpening(p) \/ JoinOpening(p) \/ Enable(p) \/ Receive(p)
               \/ QueueMessage(p) \/ Close(p)
      BY <3>1, <3>3, QuietTypes
    <3> QED BY <2>2, <3>2, <3>3 DEF PageStep
  <2>3. WorldStep => WorldTypes' /\ PageTypes'
    BY WorldStepWorld, WorldStepPages
  <2>4. QueueStep => WorldTypes' /\ PageTypes'
    BY QueueStepTypes
  <2>5. Restart => WorldTypes' /\ PageTypes'
    BY RestartTypes
  <2>6. WorldTypes' /\ PageTypes'
    BY <1>2, <2>2, <2>3, <2>4, <2>5, StepCases DEF Next, QueueStep
  <2> QED BY <2>1, <2>6 DEF WorldTypes, PageTypes, BoundTypes, TypeOK
<1> QED BY <1>1, <1>2

-----------------------------------------------------------------------------
(* The world's invariant. *)

LEMMA EntriesKept ==
  ASSUME TypeOK, Grown, NEW kind
  PROVE  /\ rows' = rows => (Entries(kind))' = Entries(kind)
         /\ Entries(kind) \subseteq (Entries(kind))'
         /\ \A other \in EntryKind \ {kind} : Store(other) => (Entries(kind))' = Entries(kind)
<1>1. /\ DOMAIN rows \subseteq DOMAIN rows' /\ \A i \in DOMAIN rows : rows'[i] = rows[i]
      /\ \A i \in DOMAIN rows' \ DOMAIN rows : i = Len(rows')
  BY RowsGrow
<1>2. rows' = rows => (Entries(kind))' = Entries(kind)
  BY DEF Entries
<1>3. Entries(kind) \subseteq (Entries(kind))'
  BY <1>1 DEF Entries
<1>4. ASSUME NEW other \in EntryKind \ {kind}, Store(other)
      PROVE  (Entries(kind))' \subseteq Entries(kind)
  <2>1. rows'[Len(rows')] = other
    BY <1>4, StoreFacts
  <2> QED BY <1>1, <2>1 DEF Entries
<1> QED BY <1>2, <1>3, <1>4

LEMMA SentStaysNarrations ==
  ASSUME TypeOK, NarrationsAreSent, Grown, sent' = sent \/ sent' = <<>>
  PROVE  \A k \in DOMAIN sent' : rows'[sent'[k]] = "narration"
<1>1. \A i \in DOMAIN rows : rows'[i] = rows[i]
  BY RowsGrow
<1>2. \A k \in DOMAIN sent : sent[k] \in DOMAIN rows /\ rows[sent[k]] = "narration"
  BY TableFacts DEF NarrationsAreSent
<1>3. CASE sent' = sent
  BY <1>1, <1>2, <1>3
<1>4. CASE sent' = <<>>
  BY <1>4
<1> QED BY <1>3, <1>4

LEMMA NarrationsAreSentKept ==
  ASSUME TypeOK, WorldInv, [Next]_vars
  PROVE  NarrationsAreSent'
<1>0. NarrationsAreSent /\ (rows' = rows => Grown)
  BY DEF WorldInv, Grown
<1>1. ASSUME rows' = rows, sent' = sent \/ sent' = <<>>, step' = step \/ step' # "stored"
      PROVE  NarrationsAreSent'
  BY <1>0, <1>1, SentStaysNarrations DEF NarrationsAreSent
<1>2. ASSUME NEW p \in Page, PageStep(p) \/ Render(p) \/ Submit(p) \/ Close(p)
      PROVE  rows' = rows /\ sent' = sent /\ step' = step
  BY <1>2 DEF PageStep, Subscribe, LookForOpening, JoinOpening, CatchUp, Enable, Receive,
              QueueMessage, Forward, ShowReply, Close, Render, Submit, worldVars
<1>3. QueueStep \/ Restart \/ UNCHANGED vars =>
        rows' = rows /\ (sent' = sent \/ sent' = <<>>) /\ (step' = step \/ step' # "stored")
  BY DEF QueueStep, QueueStray, QueueOpening, RemoveOpening, QueueOther, Restart, vars, worldVars
<1>4. CASE WorldStep
  <2>1. Grown
    BY <1>4, WorldStepWorld
  <2>2. CASE BroadcastNarration
    <3>1. /\ sent \in Seq(DOMAIN rows) /\ sent' = Append(sent, Len(rows))
          /\ rows' = rows /\ step' = "turn" /\ rows[Len(rows)] = "narration"
      BY <1>0, <2>2 DEF BroadcastNarration, TypeOK, NarrationsAreSent
    <3>2. /\ DOMAIN sent' = 1..(Len(sent) + 1) /\ DOMAIN sent = 1..Len(sent) /\ Len(sent) \in Nat
          /\ sent'[Len(sent) + 1] = Len(rows)
          /\ \A k \in 1..Len(sent) : sent'[k] = sent[k]
      BY <3>1
    <3> QED BY <1>0, <3>1, <3>2 DEF NarrationsAreSent
  <2>3. CASE StoreNarration
    <3>1. /\ "narration" \in EntryKind /\ Store("narration") /\ sent' = sent
      BY <2>3 DEF StoreNarration, EntryKind
    <3>2. Len(rows') \in DOMAIN rows' /\ rows'[Len(rows')] = "narration" /\ rows' \in Seq(EntryKind)
      BY <3>1, StoreFacts
    <3>3. rows' # <<>>
      BY <3>2
    <3> QED BY <1>0, <2>1, <3>1, <3>2, <3>3, SentStaysNarrations DEF NarrationsAreSent
  <2>4. WorldStep /\ ~BroadcastNarration /\ ~StoreNarration =>
          sent' = sent /\ ((rows' = rows /\ step' = step) \/ step' # "stored")
    BY DEF WorldStep, TakeEvent, BeginPlay, DeliveryFails, StoreReply, EndQuietly, TurnFails,
           AnswerMessage, FinishOpening, worldVars
  <2>5. CASE sent' = sent /\ ((rows' = rows /\ step' = step) \/ step' # "stored")
    BY <1>0, <2>1, <2>5, SentStaysNarrations DEF NarrationsAreSent
  <2> QED BY <1>4, <2>2, <2>3, <2>4, <2>5
<1> QED BY <1>1, <1>2, <1>3, <1>4, StepCases

LEMMA OutcomeIsReplyKept ==
  ASSUME TypeOK, WorldInv, [Next]_vars
  PROVE  OutcomeIsReply'
<1>0. OutcomeIsReply /\ ~(Failed > 0) /\ ~(0 > 0)
  BY DEF WorldInv, Failed
<1>1. ASSUME NEW p \in Page, PageStep(p) \/ Render(p) \/ Submit(p) \/ Close(p)
      PROVE  rows' = rows /\ outcome' = outcome /\ step' = step
  BY <1>1 DEF PageStep, Subscribe, LookForOpening, JoinOpening, CatchUp, Enable, Receive,
              QueueMessage, Forward, ShowReply, Close, Render, Submit, worldVars
<1>2. QueueStep \/ Restart \/ UNCHANGED vars =>
        (rows' = rows /\ outcome' = outcome /\ step' = step) \/ outcome' = 0
  BY DEF QueueStep, QueueStray, QueueOpening, RemoveOpening, QueueOther, Restart, vars, worldVars
<1>3. CASE WorldStep
  <2>1. CASE StoreReply
    <3>1. "reply" \in EntryKind
      BY DEF EntryKind
    <3> QED BY <2>1, <3>1, StoreFacts DEF StoreReply, OutcomeIsReply
  <2>2. /\ outcome' = outcome /\ step # "answer" => OutcomeIsReply'
        /\ outcome' = 0 \/ outcome' = Failed => OutcomeIsReply'
    BY <1>0 DEF OutcomeIsReply
  <2>3. TakeEvent => (outcome' = outcome /\ step # "answer") \/ outcome' = 0 \/ outcome' = Failed
    BY DEF TakeEvent
  <2>4. CASE BeginPlay \/ StoreNarration \/ BroadcastNarration
    BY <2>2, <2>4 DEF BeginPlay, StoreNarration, BroadcastNarration, worldVars
  <2>5. CASE DeliveryFails \/ TurnFails \/ EndQuietly \/ AnswerMessage \/ FinishOpening
    BY <2>2, <2>5 DEF DeliveryFails, TurnFails, EndQuietly, AnswerMessage, FinishOpening
  <2> QED BY <1>3, <2>1, <2>2, <2>3, <2>4, <2>5 DEF WorldStep
<1> QED BY <1>0, <1>1, <1>2, <1>3, StepCases DEF OutcomeIsReply

LEMMA OpeningIsFirstKept ==
  ASSUME TypeOK, WorldInv, [Next]_vars
  PROVE  OpeningIsFirst'
<1>0. OpeningIsFirst /\ (rows' = rows => Spoken' = Spoken)
  BY DEF WorldInv, Spoken, Entries
<1>1. ASSUME NEW p \in Page, PageStep(p) \/ Render(p) \/ Submit(p) \/ Close(p)
      PROVE  rows' = rows /\ event'.kind = event.kind /\ step' = step
  <2>1. CASE Close(p)
    <3>1. event \in Event /\ event' = WithoutPage(event, p) /\ rows' = rows /\ step' = step
      BY <2>1 DEF Close, TypeOK
    <3> QED BY <3>1, EventFacts
  <2>2. CASE PageStep(p) \/ Render(p) \/ Submit(p)
    BY <2>2 DEF PageStep, Subscribe, LookForOpening, JoinOpening, CatchUp, Enable, Receive,
                QueueMessage, Forward, ShowReply, Render, Submit, worldVars
  <2> QED BY <1>1, <2>1, <2>2
<1>2. QueueStep \/ Restart \/ UNCHANGED vars =>
        rows' = rows /\ ((event' = event /\ step' = step) \/ step' = "idle")
  BY DEF QueueStep, QueueStray, QueueOpening, RemoveOpening, QueueOther, Restart, vars, worldVars
<1>3. CASE WorldStep
  <2>1. CASE StoreNarration
    <3>1. Grown /\ "narration" \in EntryKind \ {"reply"} /\ Store("narration")
      BY <1>3, <2>1, WorldStepWorld DEF StoreNarration, EntryKind
    <3>2. (Entries("reply"))' = Entries("reply")
      BY <3>1, EntriesKept
    <3> QED BY <1>0, <2>1, <3>2 DEF StoreNarration, OpeningIsFirst, Spoken
  <2>2. CASE TakeEvent
    BY <1>0, <2>2 DEF TakeEvent, OpeningIsFirst
  <2>3. CASE BeginPlay \/ BroadcastNarration
    BY <1>0, <2>3 DEF BeginPlay, BroadcastNarration, OpeningIsFirst, worldVars
  <2>4. CASE DeliveryFails \/ StoreReply \/ EndQuietly \/ TurnFails \/ AnswerMessage \/ FinishOpening
    BY <2>4 DEF DeliveryFails, StoreReply, EndQuietly, TurnFails, AnswerMessage, FinishOpening,
                OpeningIsFirst
  <2> QED BY <1>3, <2>1, <2>2, <2>3, <2>4 DEF WorldStep
<1> QED BY <1>0, <1>1, <1>2, <1>3, StepCases DEF OpeningIsFirst

(* Who waits, waits for what is queued or under way. *)
WaitersStay == \A q \in Page : place[q] = "waiting" => place'[q] = "waiting"

LEMMA AwaitedFacts ==
  ASSUME TypeOK, AwaitsOne
  PROVE  /\ event \in Event /\ event.page \in Page \cup {Nobody}
         /\ event.page # Nobody => place[event.page] = "waiting"
         /\ \A i \in DOMAIN queue : queue[i] \in Event /\ queue[i].page \in Page \cup {Nobody}
         /\ \A i \in DOMAIN queue : queue[i].page # Nobody =>
              place[queue[i].page] = "waiting" /\ queue[i].page # event.page
         /\ \A i, j \in DOMAIN queue :
              queue[i].page # Nobody /\ queue[j].page = queue[i].page => i = j
<1>1. event \in Event /\ \A i \in DOMAIN queue : queue[i] \in Event
  BY TableFacts DEF TypeOK
<1>2. \A e \in Event : e.page \in Page \cup {Nobody}
  BY DEF Event
<1> QED BY <1>1, <1>2 DEF AwaitsOne

LEMMA NothingTaken ==
  ASSUME TypeOK, AwaitsOne, queue' = queue, event' = event, step' = step \/ step' # "idle", WaitersStay
  PROVE  AwaitsOne'
BY AwaitedFacts DEF AwaitsOne, WaitersStay

LEMMA OneMore ==
  ASSUME TypeOK, AwaitsOne, event' = event, step' = step, WaitersStay,
         NEW e \in Event, queue' = Append(queue, e),
         e.page # Nobody => place[e.page] # "waiting" /\ place'[e.page] = "waiting"
  PROVE  AwaitsOne'
<1>1. queue \in Seq(Event)
  BY DEF TypeOK
<1>2. /\ Len(queue) \in Nat /\ DOMAIN queue = 1..Len(queue) /\ DOMAIN queue' = 1..(Len(queue) + 1)
      /\ queue'[Len(queue) + 1] = e
      /\ \A i \in DOMAIN queue : queue'[i] = queue[i]
  BY <1>1, AppendProperties
<1>3. \A i \in DOMAIN queue' : i \in DOMAIN queue \/ i = Len(queue) + 1
  BY <1>2
<1>4. \A i \in DOMAIN queue : queue[i].page # Nobody => queue[i].page # e.page
  BY AwaitedFacts
<1>5. event.page # Nobody => event.page # e.page /\ place'[event.page] = "waiting"
  BY AwaitedFacts DEF WaitersStay
<1>6. ASSUME NEW i \in DOMAIN queue', queue'[i].page # Nobody
      PROVE  /\ place'[queue'[i].page] = "waiting" /\ queue'[i].page # event.page
             /\ \A j \in DOMAIN queue' : queue'[j].page = queue'[i].page => i = j
  <2>1. CASE i \in DOMAIN queue
    <3>1. queue'[i] = queue[i] /\ queue[i].page # Nobody
      BY <1>2, <1>6, <2>1
    <3>2. place[queue[i].page] = "waiting" /\ queue[i].page # event.page /\ queue[i].page \in Page
      BY <2>1, <3>1, AwaitedFacts
    <3>3. \A j \in DOMAIN queue' : queue'[j].page = queue[i].page => i = j
      BY <1>2, <1>3, <1>4, <2>1, <3>1, AwaitedFacts
    <3> QED BY <3>1, <3>2, <3>3 DEF WaitersStay
  <2>2. CASE i = Len(queue) + 1
    <3>1. queue'[i] = e /\ place'[e.page] = "waiting" /\ e.page # Nobody
      BY <1>2, <1>6, <2>2
    <3>2. e.page # event.page
      BY <1>5, <3>1
    <3>3. \A j \in DOMAIN queue' : queue'[j].page = e.page => i = j
      BY <1>2, <1>3, <1>4, <2>2, <3>1
    <3> QED BY <3>1, <3>2, <3>3
  <2> QED BY <1>3, <2>1, <2>2
<1> QED BY <1>5, <1>6 DEF AwaitsOne

LEMMA OneLess ==
  ASSUME TypeOK, AwaitsOne, TakeEvent
  PROVE  AwaitsOne'
<1>1. /\ queue \in Seq(Event) /\ queue # <<>> /\ event' = Head(queue) /\ queue' = Tail(queue)
      /\ place' = place /\ step' # "idle"
  BY DEF TakeEvent, TypeOK, pageVars
<1>2. /\ Len(queue) \in Nat \ {0} /\ DOMAIN queue = 1..Len(queue)
      /\ event' = queue[1] /\ DOMAIN queue' = 1..(Len(queue) - 1)
      /\ \A i \in 1..(Len(queue) - 1) : queue'[i] = queue[i + 1]
  BY <1>1
<1>3. 1 \in DOMAIN queue /\ \A i \in DOMAIN queue' : i + 1 \in DOMAIN queue /\ i + 1 # 1 /\ queue'[i] = queue[i + 1]
  BY <1>2
<1>4. event'.page # Nobody => place'[event'.page] = "waiting"
  BY <1>1, <1>2, <1>3, AwaitedFacts
<1>5. ASSUME NEW i \in DOMAIN queue', queue'[i].page # Nobody
      PROVE  /\ place'[queue'[i].page] = "waiting" /\ queue'[i].page # event'.page
             /\ \A j \in DOMAIN queue' : queue'[j].page = queue'[i].page => i = j
  <2>1. i + 1 \in DOMAIN queue /\ queue'[i] = queue[i + 1] /\ queue[i + 1].page # Nobody
    BY <1>3, <1>5
  <2>2. place'[queue'[i].page] = "waiting"
    BY <1>1, <2>1, AwaitedFacts
  <2>3. queue'[i].page # event'.page
    BY <1>2, <1>3, <2>1, AwaitedFacts
  <2>4. ASSUME NEW j \in DOMAIN queue', queue'[j].page = queue'[i].page
        PROVE  i = j
    <3>1. j + 1 \in DOMAIN queue /\ queue'[j] = queue[j + 1] /\ i \in Nat /\ j \in Nat
      BY <1>2, <1>3
    <3>2. i + 1 = j + 1
      BY <2>1, <2>4, <3>1, AwaitedFacts
    <3> QED BY <3>1, <3>2
  <2> QED BY <2>2, <2>3, <2>4
<1> QED BY <1>1, <1>4, <1>5 DEF AwaitsOne

LEMMA OneDone ==
  ASSUME TypeOK, AwaitsOne, queue' = queue, event' = Idle,
         \A q \in Page : place[q] = "waiting" /\ q # event.page => place'[q] = "waiting"
  PROVE  AwaitsOne'
<1>1. Idle.page = Nobody
  BY DEF Idle
<1> QED BY <1>1, AwaitedFacts DEF AwaitsOne

LEMMA OneGone ==
  ASSUME TypeOK, AwaitsOne, NEW p \in Page, Close(p)
  PROVE  AwaitsOne'
<1>1. /\ \A q \in Page : q # p => place'[q] = place[q]
      /\ event' = WithoutPage(event, p) /\ step' = step
      /\ DOMAIN queue' = DOMAIN queue /\ \A i \in DOMAIN queue : queue'[i] = WithoutPage(queue[i], p)
  BY DEF Close, ForgetPages
<1>2. Nobody \notin Page
  BY ChatAssumption
<1>3. \A e \in Event :
        WithoutPage(e, p).page # Nobody => WithoutPage(e, p).page = e.page /\ e.page # p /\ e.page # Nobody
  BY EventFacts
<1>4. event'.page # Nobody => event'.page = event.page /\ event.page # p /\ event.page # Nobody
  BY <1>1, <1>3, AwaitedFacts
<1>5. \A i \in DOMAIN queue :
        queue'[i].page # Nobody => queue'[i].page = queue[i].page /\ queue[i].page # p /\ queue[i].page # Nobody
  BY <1>1, <1>3, AwaitedFacts
<1>6. step' = "idle" => event' = Idle
  BY <1>1 DEF AwaitsOne, WithoutPage, Idle
<1>7. event'.page # Nobody => place'[event'.page] = "waiting"
  BY <1>1, <1>4, AwaitedFacts
<1>8. ASSUME NEW i \in DOMAIN queue', queue'[i].page # Nobody
      PROVE  /\ place'[queue'[i].page] = "waiting" /\ queue'[i].page # event'.page
             /\ \A j \in DOMAIN queue' : queue'[j].page = queue'[i].page => i = j
  <2>1. i \in DOMAIN queue /\ queue'[i].page = queue[i].page /\ queue[i].page # p /\ queue[i].page # Nobody
    BY <1>1, <1>5, <1>8
  <2>2. place'[queue'[i].page] = "waiting"
    BY <1>1, <2>1, AwaitedFacts
  <2>3. queue'[i].page # event'.page
    BY <1>4, <2>1, <1>8, AwaitedFacts
  <2>4. \A j \in DOMAIN queue' : queue'[j].page = queue'[i].page => i = j
    BY <1>1, <1>5, <1>8, <2>1, AwaitedFacts
  <2> QED BY <2>2, <2>3, <2>4
<1> QED BY <1>6, <1>7, <1>8 DEF AwaitsOne

LEMMA AwaitsOneKept ==
  ASSUME TypeOK, WorldInv, [Next]_vars
  PROVE  AwaitsOne'
<1>0. AwaitsOne /\ place \in [Page -> Place]
  BY DEF WorldInv, TypeOK
<1>1. ASSUME NEW p \in Page, PageStep(p) \/ Render(p) \/ Submit(p) \/ Close(p)
      PROVE  AwaitsOne'
  <2>1. CASE QueueMessage(p)
    <3>1. MessageOf(p) \in Event /\ MessageOf(p).page = p
      BY EventFacts DEF MessageOf
    <3>2. /\ queue' = Append(queue, MessageOf(p)) /\ event' = event /\ step' = step
          /\ place[p] # "waiting" /\ place'[p] = "waiting" /\ WaitersStay
      BY <1>0, <2>1 DEF QueueMessage, Go, WaitersStay
    <3> QED BY <1>0, <3>1, <3>2, OneMore
  <2>2. CASE Close(p)
    BY <1>0, <2>2, OneGone
  <2>3. CASE JoinOpening(p)
    <3>1. WaitersStay
      BY <1>0, <2>3 DEF JoinOpening, WaitersStay, Go, ForgetPages
    <3> QED BY <1>0, <2>3, <3>1, NothingTaken DEF JoinOpening
  <2>4. CASE \/ Render(p) \/ Submit(p) \/ Subscribe(p) \/ LookForOpening(p) \/ CatchUp(p) \/ Enable(p)
             \/ Receive(p) \/ Forward(p) \/ ShowReply(p)
    <3>1. WaitersStay
      BY <1>0, <2>4 DEF Render, Submit, Subscribe, LookForOpening, CatchUp, Enable, Receive, Forward,
                        ShowReply, WaitersStay, Go
    <3>2. queue' = queue /\ event' = event /\ step' = step
      BY <2>4 DEF Render, Submit, Subscribe, LookForOpening, CatchUp, Enable, Receive, Forward,
                  ShowReply, worldVars
    <3> QED BY <1>0, <3>1, <3>2, NothingTaken
  <2> QED BY <1>1, <2>1, <2>2, <2>3, <2>4 DEF PageStep
<1>2. CASE QueueStep
  <2>1. \A e \in {MessageOf(Nobody), Enter, OtherPlayer} : e \in Event /\ e.page = Nobody
    BY EventFacts DEF MessageOf, Enter, OtherPlayer
  <2>2. /\ event' = event /\ step' = step /\ place' = place
        /\ queue' = queue \/ \E e \in {MessageOf(Nobody), Enter, OtherPlayer} : queue' = Append(queue, e)
    BY <1>2 DEF QueueStep, QueueStray, QueueOpening, RemoveOpening, QueueOther, pageVars
  <2>3. WaitersStay
    BY <2>2 DEF WaitersStay
  <2>4. ASSUME NEW e \in {MessageOf(Nobody), Enter, OtherPlayer}, queue' = Append(queue, e)
        PROVE  AwaitsOne'
    BY <1>0, <2>1, <2>2, <2>3, <2>4, OneMore
  <2> QED BY <1>0, <2>2, <2>3, <2>4, NothingTaken
<1>3. CASE Restart
  <2>1. queue' = <<>> /\ event' = Idle /\ Idle.page = Nobody
    BY <1>3 DEF Restart, Idle
  <2> QED BY <2>1 DEF AwaitsOne
<1>4. CASE UNCHANGED vars
  BY <1>4, <1>0 DEF vars, worldVars, pageVars, AwaitsOne
<1>5. CASE WorldStep
  <2>1. CASE TakeEvent
    BY <1>0, <2>1, OneLess
  <2>2. CASE AnswerMessage
    <3>1. \A q \in Page : place[q] = "waiting" /\ q # event.page => place'[q] = "waiting"
      BY <1>0, <2>2 DEF AnswerMessage, Go
    <3> QED BY <1>0, <2>2, <3>1, OneDone DEF AnswerMessage
  <2>3. CASE FinishOpening
    <3>1. \A q \in Page : place[q] = "waiting" /\ q # event.page => place'[q] = "waiting"
      BY <1>0, <2>3 DEF FinishOpening, Viewers, ForgetPages
    <3> QED BY <1>0, <2>3, <3>1, OneDone DEF FinishOpening
  <2>4. CASE \/ BeginPlay \/ StoreNarration \/ BroadcastNarration \/ DeliveryFails \/ StoreReply
             \/ EndQuietly \/ TurnFails
    <3>1. queue' = queue /\ event' = event /\ place' = place /\ (step' = step \/ step' # "idle")
      BY <2>4 DEF BeginPlay, StoreNarration, BroadcastNarration, DeliveryFails, StoreReply, EndQuietly,
                  TurnFails, worldVars, pageVars
    <3> QED BY <1>0, <3>1, NothingTaken DEF WaitersStay
  <2> QED BY <1>5, <2>1, <2>2, <2>3, <2>4 DEF WorldStep
<1> QED BY <1>1, <1>2, <1>3, <1>4, <1>5, StepCases

LEMMA EntersKept ==
  ASSUME TypeOK, WorldInv, [Next]_vars
  PROVE  EntersHaveNoPage'
<1>0. EntersHaveNoPage /\ AwaitsOne
  BY DEF WorldInv
<1>1. ASSUME \A e \in Outstanding' : e \in Outstanding \/ e.kind # "enter" \/ e.page = Nobody
      PROVE  EntersHaveNoPage'
  BY <1>0, <1>1 DEF EntersHaveNoPage
<1>2. ASSUME queue' = queue, event' \in {event, Idle}
      PROVE  EntersHaveNoPage'
  BY <1>1, <1>2 DEF Outstanding, Idle
<1>3. ASSUME NEW e \in Event, e.kind # "enter" \/ e.page = Nobody, queue' = Append(queue, e), event' = event
      PROVE  EntersHaveNoPage'
  <2>1. queue \in Seq(Event)
    BY DEF TypeOK
  <2>2. /\ Len(queue) \in Nat /\ DOMAIN queue = 1..Len(queue) /\ DOMAIN queue' = 1..(Len(queue) + 1)
        /\ queue'[Len(queue) + 1] = e
        /\ \A i \in DOMAIN queue : queue'[i] = queue[i]
    BY <1>3, <2>1, AppendProperties
  <2>3. \A i \in DOMAIN queue' : i \in DOMAIN queue \/ i = Len(queue) + 1
    BY <2>2
  <2>4. \A f \in Outstanding' : f \in Outstanding \/ f = e
    BY <1>3, <2>2, <2>3 DEF Outstanding
  <2> QED BY <1>1, <1>3, <2>4
<1>4. ASSUME NEW p \in Page, PageStep(p) \/ Render(p) \/ Submit(p) \/ Close(p)
      PROVE  EntersHaveNoPage'
  <2>1. CASE QueueMessage(p)
    <3>1. MessageOf(p) \in Event /\ MessageOf(p).kind # "enter"
      BY EventFacts DEF MessageOf
    <3> QED BY <1>3, <2>1, <3>1 DEF QueueMessage
  <2>2. CASE Close(p)
    <3>1. \A f \in Outstanding' : \E e \in Outstanding : f = WithoutPage(e, p)
      BY <2>2 DEF Close, Outstanding
    <3>2. \A e \in Outstanding : e \in Event
      BY <1>0, AwaitedFacts DEF Outstanding
    <3>3. \A e \in Event : /\ WithoutPage(e, p).kind = e.kind
                           /\ e.page = Nobody => WithoutPage(e, p).page = Nobody
      BY EventFacts DEF WithoutPage
    <3> QED BY <1>0, <3>1, <3>2, <3>3 DEF EntersHaveNoPage
  <2>3. CASE \/ Render(p) \/ Submit(p) \/ Subscribe(p) \/ LookForOpening(p) \/ CatchUp(p) \/ Enable(p)
             \/ Receive(p) \/ Forward(p) \/ ShowReply(p) \/ JoinOpening(p)
    <3>1. queue' = queue /\ event' = event
      BY <2>3 DEF Render, Submit, Subscribe, LookForOpening, CatchUp, Enable, Receive, Forward,
                  ShowReply, JoinOpening, worldVars
    <3> QED BY <1>2, <3>1
  <2> QED BY <1>4, <2>1, <2>2, <2>3 DEF PageStep
<1>5. CASE QueueStep
  <2>1. \A e \in {MessageOf(Nobody), Enter, OtherPlayer} : e \in Event /\ e.page = Nobody
    BY EventFacts DEF MessageOf, Enter, OtherPlayer
  <2>2. event' = event /\ \/ queue' = queue
                          \/ \E e \in {MessageOf(Nobody), Enter, OtherPlayer} : queue' = Append(queue, e)
    BY <1>5 DEF QueueStep, QueueStray, QueueOpening, RemoveOpening, QueueOther
  <2> QED BY <1>2, <1>3, <2>1, <2>2
<1>6. CASE Restart
  <2>1. \A f \in Outstanding' : f = Idle
    BY <1>6 DEF Restart, Outstanding
  <2> QED BY <1>1, <2>1 DEF Idle
<1>7. CASE UNCHANGED vars
  BY <1>2, <1>7 DEF vars, worldVars
<1>8. CASE TakeEvent
  <2>1. queue \in Seq(Event) /\ queue # <<>> /\ event' = Head(queue) /\ queue' = Tail(queue)
    BY <1>8 DEF TakeEvent, TypeOK
  <2>2. /\ 1 \in DOMAIN queue /\ event' = queue[1]
        /\ \A i \in DOMAIN queue' : i + 1 \in DOMAIN queue /\ queue'[i] = queue[i + 1]
    BY <2>1
  <2>3. \A f \in Outstanding' : f \in Outstanding
    BY <2>2 DEF Outstanding
  <2> QED BY <1>1, <2>3
<1>9. CASE \/ BeginPlay \/ StoreNarration \/ BroadcastNarration \/ DeliveryFails \/ StoreReply
           \/ EndQuietly \/ TurnFails \/ AnswerMessage \/ FinishOpening
  <2>1. queue' = queue /\ event' \in {event, Idle}
    BY <1>9 DEF BeginPlay, StoreNarration, BroadcastNarration, DeliveryFails, StoreReply, EndQuietly,
                TurnFails, AnswerMessage, FinishOpening, worldVars
  <2> QED BY <1>2, <2>1
<1> QED BY <1>4, <1>5, <1>6, <1>7, <1>8, <1>9, StepCases DEF WorldStep

(* Steps at which no event goes and nobody begins to wait. *)
LEMMA NobodyLeft ==
  ASSUME NobodyForgotten, \A e \in Outstanding : e \in Outstanding',
         UNCHANGED <<canAct, inbox>>, opening' = opening,
         \A q \in Page : place'[q] = place[q] \/ place'[q] \notin {"live", "waiting", "opening"}
  PROVE  NobodyForgotten'
<1>1. ASSUME NEW q \in Page, place'[q] = "waiting"
      PROVE  \E e \in Outstanding' : e.page = q
  BY <1>1 DEF NobodyForgotten
<1>2. opening' = "queued" => \E e \in Outstanding' : e.kind = "enter"
  BY DEF NobodyForgotten
<1>3. \A q \in Page : /\ place'[q] = "live" => canAct'[q] \/ inbox'[q]
                      /\ place'[q] = "opening" => opening' \in {"queueing", "queued"}
  BY DEF NobodyForgotten
<1> QED BY <1>1, <1>2, <1>3 DEF NobodyForgotten

LEMMA AppendedFacts ==
  ASSUME TypeOK, NEW e \in Event, queue' = Append(queue, e), event' = event
  PROVE  /\ \A f \in Outstanding : f \in Outstanding'
         /\ e \in Outstanding'
<1>1. queue \in Seq(Event)
  BY DEF TypeOK
<1>2. /\ Len(queue) \in Nat /\ DOMAIN queue = 1..Len(queue) /\ DOMAIN queue' = 1..(Len(queue) + 1)
      /\ queue'[Len(queue) + 1] = e
      /\ \A i \in DOMAIN queue : i \in DOMAIN queue' /\ queue'[i] = queue[i]
  BY <1>1, AppendProperties
<1>3. Len(queue) + 1 \in DOMAIN queue'
  BY <1>2
<1> QED BY <1>2, <1>3 DEF Outstanding

LEMMA NobodyForgottenKept ==
  ASSUME TypeOK, WorldInv, [Next]_vars
  PROVE  NobodyForgotten'
<1>0. /\ NobodyForgotten /\ AwaitsOne /\ EntersHaveNoPage
      /\ place \in [Page -> Place] /\ canAct \in [Page -> BOOLEAN] /\ inbox \in [Page -> BOOLEAN]
  BY DEF WorldInv, TypeOK
<1>o. ASSUME queue' = queue, event' = event
      PROVE  Outstanding' = Outstanding
  BY <1>o DEF Outstanding
<1>1. ASSUME NEW p \in Page, PageStep(p) \/ Render(p) \/ Submit(p) \/ Close(p)
      PROVE  NobodyForgotten'
  <2>1. CASE QueueMessage(p)
    <3>1. MessageOf(p) \in Event /\ MessageOf(p).page = p
      BY EventFacts DEF MessageOf
    <3>2. /\ place' = [place EXCEPT ![p] = "waiting"]
          /\ UNCHANGED <<canAct, inbox, opening>>
          /\ queue' = Append(queue, MessageOf(p)) /\ event' = event
      BY <2>1 DEF QueueMessage, Go
    <3>3. (\A f \in Outstanding : f \in Outstanding') /\ MessageOf(p) \in Outstanding'
      BY <3>1, <3>2, AppendedFacts
    <3>4. ASSUME NEW q \in Page, place'[q] = "waiting"
          PROVE  \E e \in Outstanding' : e.page = q
      <4>1. CASE q = p
        BY <3>1, <3>3, <4>1
      <4>2. CASE q # p
        BY <1>0, <3>2, <3>3, <3>4, <4>2 DEF NobodyForgotten
      <4> QED BY <4>1, <4>2
    <3>5. opening' = "queued" => \E e \in Outstanding' : e.kind = "enter"
      BY <1>0, <3>2, <3>3 DEF NobodyForgotten
    <3>6. \A q \in Page : /\ place'[q] = "live" => canAct'[q] \/ inbox'[q]
                          /\ place'[q] = "opening" => opening' \in {"queueing", "queued"}
      BY <1>0, <3>2 DEF NobodyForgotten
    <3> QED BY <3>4, <3>5, <3>6 DEF NobodyForgotten
  <2>2. CASE Close(p)
    <3>1. /\ \A q \in Page : q # p => /\ place'[q] = place[q] /\ canAct'[q] = canAct[q]
                                      /\ inbox'[q] = inbox[q]
          /\ place'[p] = "closed" /\ opening' = opening
          /\ event' = WithoutPage(event, p)
          /\ DOMAIN queue' = DOMAIN queue /\ \A i \in DOMAIN queue : queue'[i] = WithoutPage(queue[i], p)
      BY <1>0, <2>2 DEF Close, ForgetPages
    <3>2. \A e \in Outstanding : WithoutPage(e, p) \in Outstanding'
      BY <3>1 DEF Outstanding
    <3>3. \A e \in Outstanding : e \in Event
      BY <1>0, AwaitedFacts DEF Outstanding
    <3>4. \A e \in Event : /\ WithoutPage(e, p).kind = e.kind
                           /\ e.page # p => WithoutPage(e, p).page = e.page
      BY EventFacts DEF WithoutPage
    <3>5. ASSUME NEW q \in Page, place'[q] = "waiting"
          PROVE  \E e \in Outstanding' : e.page = q
      <4>1. q # p /\ place[q] = "waiting"
        BY <3>1, <3>5
      <4>2. PICK e \in Outstanding : e.page = q
        BY <1>0, <4>1 DEF NobodyForgotten
      <4> QED BY <3>2, <3>3, <3>4, <4>1, <4>2
    <3>6. opening' = "queued" => \E e \in Outstanding' : e.kind = "enter"
      <4> SUFFICES ASSUME opening = "queued"
                   PROVE  \E e \in Outstanding' : e.kind = "enter"
        BY <3>1
      <4>1. PICK e \in Outstanding : e.kind = "enter"
        BY <1>0 DEF NobodyForgotten
      <4> QED BY <3>2, <3>3, <3>4, <4>1
    <3>7. \A q \in Page : /\ place'[q] = "live" => canAct'[q] \/ inbox'[q]
                          /\ place'[q] = "opening" => opening' \in {"queueing", "queued"}
      BY <1>0, <3>1 DEF NobodyForgotten
    <3> QED BY <3>5, <3>6, <3>7 DEF NobodyForgotten
  <2>3. CASE JoinOpening(p)
    <3>1. Outstanding' = Outstanding
      BY <2>3, <1>o DEF JoinOpening
    <3>2. CASE /\ opening \in {"none", "queueing", "queued"}
               /\ opening' = IF opening = "none" THEN "queueing" ELSE opening
               /\ place' = [place EXCEPT ![p] = "opening"]
               /\ UNCHANGED <<canAct, inbox>>
      <4>1. opening' \in {"queueing", "queued"} /\ (opening' = "queued" => opening = "queued")
        BY <3>2
      <4> QED BY <1>0, <3>1, <3>2, <4>1 DEF NobodyForgotten
    <3>3. CASE opening' = opening /\ place' = [place EXCEPT ![p] = "catchup"] /\ UNCHANGED <<canAct, inbox>>
      BY <1>0, <3>1, <3>3, NobodyLeft
    <3>4. CASE opening' = opening /\ ForgetPages({p})
      <4>1. \A q \in Page : \/ q = p /\ place'[q] = "closed"
                            \/ place'[q] = place[q] /\ canAct'[q] = canAct[q] /\ inbox'[q] = inbox[q]
        BY <1>0, <3>4 DEF ForgetPages
      <4> QED BY <1>0, <3>1, <3>4, <4>1 DEF NobodyForgotten
    <3> QED BY <2>3, <3>2, <3>3, <3>4 DEF JoinOpening, Go
  <2>4. CASE Render(p) \/ Subscribe(p) \/ LookForOpening(p) \/ CatchUp(p) \/ Forward(p)
    <3>1. /\ UNCHANGED <<queue, event, opening, canAct, inbox>>
          /\ \A q \in Page : place'[q] = place[q] \/ place'[q] \notin {"live", "waiting", "opening"}
      BY <1>0, <2>4 DEF Render, Subscribe, LookForOpening, CatchUp, Forward, Go, worldVars
    <3>2. Outstanding' = Outstanding
      BY <3>1, <1>o
    <3> QED BY <1>0, <3>1, <3>2, NobodyLeft
  <2>5. CASE Submit(p) \/ Enable(p) \/ Receive(p) \/ ShowReply(p)
    <3>1. UNCHANGED <<queue, event, opening>>
      BY <2>5 DEF Submit, Enable, Receive, ShowReply, worldVars
    <3>2. Outstanding' = Outstanding
      BY <3>1, <1>o
    <3>3. \A q \in Page : q # p => place'[q] = place[q] /\ canAct'[q] = canAct[q] /\ inbox'[q] = inbox[q]
      BY <1>0, <2>5 DEF Submit, Enable, Receive, ShowReply, Go
    <3>4. place'[p] = "sending" \/ (place'[p] = "live" /\ (canAct'[p] \/ inbox'[p]))
      BY <1>0, <2>5 DEF Submit, Enable, Receive, ShowReply, Go
    <3> QED BY <1>0, <3>1, <3>2, <3>3, <3>4 DEF NobodyForgotten
  <2> QED BY <1>1, <2>1, <2>2, <2>3, <2>4, <2>5 DEF PageStep
<1>2. CASE QueueStep
  <2>1. MessageOf(Nobody) \in Event /\ Enter \in Event /\ OtherPlayer \in Event /\ Enter.kind = "enter"
    BY EventFacts DEF Enter
  <2>2. place' = place /\ canAct' = canAct /\ inbox' = inbox /\ event' = event
    BY <1>2 DEF QueueStep, QueueStray, QueueOpening, RemoveOpening, QueueOther, pageVars
  <2>3. CASE QueueStray \/ QueueOther
    <3>1. opening' = opening /\ \E e \in Event : queue' = Append(queue, e)
      BY <2>1, <2>3 DEF QueueStray, QueueOther
    <3>2. \A f \in Outstanding : f \in Outstanding'
      BY <2>2, <3>1, AppendedFacts
    <3> QED BY <1>0, <2>2, <3>1, <3>2, NobodyLeft
  <2>4. CASE QueueOpening
    <3>1. opening' = "queued" /\ queue' = Append(queue, Enter)
      BY <2>4 DEF QueueOpening
    <3>2. (\A f \in Outstanding : f \in Outstanding') /\ Enter \in Outstanding'
      BY <2>1, <2>2, <3>1, AppendedFacts
    <3>3. \A q \in Page : place[q] = "waiting" => \E e \in Outstanding' : e.page = q
      BY <1>0, <3>2 DEF NobodyForgotten
    <3>4. \E e \in Outstanding' : e.kind = "enter"
      BY <2>1, <3>2
    <3>5. \A q \in Page : place[q] = "live" => canAct[q] \/ inbox[q]
      BY <1>0 DEF NobodyForgotten
    <3> QED BY <2>2, <3>1, <3>3, <3>4, <3>5 DEF NobodyForgotten
  <2>5. CASE RemoveOpening
    <3>1. opening \in {"opened", "failed"} /\ opening' = "none" /\ queue' = queue
      BY <2>5 DEF RemoveOpening
    <3>2. Outstanding' = Outstanding
      BY <2>2, <3>1, <1>o
    <3> QED BY <1>0, <2>2, <3>1, <3>2 DEF NobodyForgotten
  <2> QED BY <1>2, <2>3, <2>4, <2>5 DEF QueueStep
<1>3. CASE Restart
  <2>1. opening' = "none" /\ \A q \in Page : place'[q] = "closed"
    BY <1>3 DEF Restart, ForgetPages
  <2> QED BY <2>1 DEF NobodyForgotten
<1>4. CASE UNCHANGED vars
  <2>1. Outstanding' = Outstanding
    BY <1>4, <1>o DEF vars, worldVars
  <2> QED BY <1>4, <1>0, <2>1, NobodyLeft DEF vars, worldVars, pageVars
<1>5. CASE WorldStep
  <2>1. CASE TakeEvent
    <3>1. /\ queue \in Seq(Event) /\ queue # <<>> /\ event' = Head(queue) /\ queue' = Tail(queue)
          /\ opening' = opening /\ place' = place /\ canAct' = canAct /\ inbox' = inbox
          /\ event = Idle
      BY <1>0, <2>1 DEF TakeEvent, TypeOK, pageVars, AwaitsOne
    <3>2. /\ Len(queue) \in Nat \ {0} /\ DOMAIN queue = 1..Len(queue)
          /\ event' = queue[1] /\ DOMAIN queue' = 1..(Len(queue) - 1)
          /\ \A i \in 1..(Len(queue) - 1) : queue'[i] = queue[i + 1]
      BY <3>1
    <3>3. ASSUME NEW i \in DOMAIN queue
          PROVE  queue[i] \in Outstanding'
      <4>1. CASE i = 1
        BY <3>2, <4>1 DEF Outstanding
      <4>2. CASE i # 1
        <5>1. i \in 1..Len(queue) /\ i - 1 \in 1..(Len(queue) - 1) /\ (i - 1) + 1 = i
          <6>1. i \in 1..Len(queue)
            BY <3>2
          <6>2. Len(queue) \in Nat
            BY <3>2
          <6> QED BY <6>1, <6>2, <4>2
        <5>2. PICK j \in 1..(Len(queue) - 1) : j + 1 = i
          BY <5>1
        <5>3. j \in DOMAIN queue' /\ queue'[j] = queue[i]
          BY <3>2, <5>2
        <5> QED BY <5>3 DEF Outstanding
      <4> QED BY <4>1, <4>2
    <3>4. \A e \in Outstanding : e = Idle \/ e \in Outstanding'
      BY <3>1, <3>3 DEF Outstanding
    <3>5. Idle.page = Nobody /\ Idle.kind # "enter" /\ Nobody \notin Page
      BY ChatAssumption DEF Idle
    <3>6. ASSUME NEW q \in Page, place[q] = "waiting"
          PROVE  \E e \in Outstanding' : e.page = q
      BY <1>0, <3>4, <3>5, <3>6 DEF NobodyForgotten
    <3>7. opening = "queued" => \E e \in Outstanding' : e.kind = "enter"
      BY <1>0, <3>4, <3>5 DEF NobodyForgotten
    <3> QED BY <1>0, <3>1, <3>6, <3>7 DEF NobodyForgotten
  <2>2. CASE AnswerMessage
    <3>1. /\ event' = Idle /\ queue' = queue /\ UNCHANGED <<opening, canAct, inbox>>
          /\ event.kind # "enter"
          /\ \A q \in Page : place'[q] = place[q] \/ place'[q] = "flushing"
          /\ event.page \in Page => place'[event.page] = "flushing"
      <4>1. event.page \in Page => event.page # Nobody
        BY ChatAssumption
      <4> QED BY <1>0, <2>2, <4>1 DEF AnswerMessage, Go
    <3>2. \A e \in Outstanding : e = event \/ e \in Outstanding'
      BY <3>1 DEF Outstanding
    <3>3. ASSUME NEW q \in Page, place'[q] = "waiting"
          PROVE  \E e \in Outstanding' : e.page = q
      <4>1. place[q] = "waiting" /\ event.page # q
        BY <3>1, <3>3
      <4> QED BY <1>0, <3>2, <4>1 DEF NobodyForgotten
    <3>4. opening' = "queued" => \E e \in Outstanding' : e.kind = "enter"
      BY <1>0, <3>1, <3>2 DEF NobodyForgotten
    <3>5. \A q \in Page : /\ place'[q] = "live" => canAct'[q] \/ inbox'[q]
                          /\ place'[q] = "opening" => opening' \in {"queueing", "queued"}
      BY <1>0, <3>1 DEF NobodyForgotten
    <3> QED BY <3>3, <3>4, <3>5 DEF NobodyForgotten
  <2>3. CASE FinishOpening
    <3>1. /\ event' = Idle /\ queue' = queue /\ event.kind = "enter" /\ opening' \in {"opened", "failed"}
          /\ \A q \in Page : \/ place'[q] \in {"closed", "catchup"}
                             \/ /\ place'[q] = place[q] /\ place[q] # "opening"
                                /\ canAct'[q] = canAct[q] /\ inbox'[q] = inbox[q]
      BY <1>0, <2>3 DEF FinishOpening, Viewers, ForgetPages
    <3>2. \A e \in Outstanding : e = event \/ e \in Outstanding'
      BY <3>1 DEF Outstanding
    <3>3. ASSUME NEW q \in Page, place'[q] = "waiting"
          PROVE  \E e \in Outstanding' : e.page = q
      <4>1. place[q] = "waiting"
        BY <3>1, <3>3
      <4>2. PICK e \in Outstanding : e.page = q
        BY <1>0, <4>1 DEF NobodyForgotten
      <4>3. e # event
        BY <1>0, <3>1, <4>2, ChatAssumption DEF EntersHaveNoPage
      <4> QED BY <3>2, <4>2, <4>3
    <3>4. \A q \in Page : /\ place'[q] = "live" => canAct'[q] \/ inbox'[q]
                          /\ place'[q] # "opening"
      BY <1>0, <3>1 DEF NobodyForgotten
    <3> QED BY <3>1, <3>3, <3>4 DEF NobodyForgotten
  <2>4. CASE \/ BeginPlay \/ StoreNarration \/ BroadcastNarration \/ DeliveryFails \/ StoreReply
             \/ EndQuietly \/ TurnFails
    <3>1. UNCHANGED <<queue, event, opening, place, canAct, inbox>>
      BY <2>4 DEF BeginPlay, StoreNarration, BroadcastNarration, DeliveryFails, StoreReply, EndQuietly,
                  TurnFails, worldVars, pageVars
    <3>2. Outstanding' = Outstanding
      BY <3>1, <1>o
    <3> QED BY <1>0, <3>1, <3>2, NobodyLeft
  <2> QED BY <1>5, <2>1, <2>2, <2>3, <2>4 DEF WorldStep
<1> QED BY <1>1, <1>2, <1>3, <1>4, <1>5, StepCases

LEMMA WorldKept ==
  ASSUME TypeOK, WorldInv, [Next]_vars
  PROVE  WorldInv'
BY NarrationsAreSentKept, OutcomeIsReplyKept, OpeningIsFirstKept, AwaitsOneKept,
   EntersKept, NobodyForgottenKept DEF WorldInv

-----------------------------------------------------------------------------
(* The pages' invariant: steps that show nothing. *)

(* A narration that is new, or whose delivery was open, still is to be     *)
(* delivered, or has been broadcast by this step.                          *)
TablesGrow ==
  /\ Grown
  /\ Len(sent) <= Len(sent')
  /\ \A k \in DOMAIN sent : k \in DOMAIN sent' /\ sent'[k] = sent[k]
  /\ lost \subseteq lost'
  /\ \A n \in Narrations' : n \in Narrations \ Undelivered \/ n \in Undelivered'
       \/ \E k \in DOMAIN sent' : k > Len(sent) /\ sent'[k] = n

Kept(p) ==
  /\ shown'[p] = shown[p] /\ cursor'[p] = cursor[p] /\ lagged'[p] = lagged[p]
  /\ place'[p] \in Before <=> place[p] \in Before
  /\ next'[p] = next[p] \/ place[p] \in Before

LEMMA StillTables ==
  ASSUME rows' = rows, sent' = sent, lost' = lost, step' = step, Len(sent) \in Nat
  PROVE  TablesGrow
<1>1. Narrations' = Narrations /\ Undelivered' = Undelivered
  BY DEF Narrations, Entries, Undelivered
<1>2. Narrations' \subseteq (Narrations \ Undelivered) \cup Undelivered'
  BY <1>1
<1> QED BY <1>2 DEF TablesGrow, Grown

LEMMA WorldTables ==
  ASSUME TypeOK, WorldInv, WorldStep
  PROVE  TablesGrow
<1>1. /\ Grown /\ "narration" \in EntryKind
      /\ "user" \in EntryKind \ {"narration"} /\ "reply" \in EntryKind \ {"narration"}
  BY WorldStepWorld DEF EntryKind
<1>2. /\ Len(rows) \in Nat /\ DOMAIN rows = 1..Len(rows) /\ Len(sent) \in Nat
      /\ DOMAIN sent = 1..Len(sent) /\ Len(sent) <= Len(sent)
  BY TableFacts
<1>3. rows' = rows \/ Store("user") \/ Store("reply") => Narrations' = Narrations
  BY <1>1, EntriesKept DEF Narrations
<1>4. CASE StoreNarration
  <2>1. sent' = sent /\ lost' = lost /\ step' = "stored" /\ step = "turn" /\ Store("narration")
    BY <1>4 DEF StoreNarration
  <2>2. ASSUME NEW n \in Narrations', n \notin Narrations
        PROVE  n \in Undelivered'
    <3>1. n \in DOMAIN rows' /\ rows'[n] = "narration"
      BY <2>2 DEF Narrations, Entries
    <3>2. n \notin DOMAIN rows
      <4>1. n \in DOMAIN rows => rows'[n] = rows[n]
        BY <1>1, RowsGrow
      <4> QED BY <2>2, <3>1, <4>1 DEF Narrations, Entries
    <3>3. n = Len(rows')
      BY <1>1, <3>1, <3>2, RowsGrow
    <3> QED BY <2>1, <3>3 DEF Undelivered
  <2>3. Undelivered \subseteq Undelivered'
    BY <2>1 DEF Undelivered
  <2> QED BY <1>1, <1>2, <2>1, <2>2, <2>3 DEF TablesGrow
<1>5. CASE BroadcastNarration
  <2>1. /\ sent \in Seq(DOMAIN rows) /\ sent' = Append(sent, Len(rows)) /\ rows' = rows /\ lost' = lost
        /\ step = "stored" /\ step' = "turn"
    BY <1>5 DEF BroadcastNarration, TypeOK
  <2>2. /\ Len(sent') = Len(sent) + 1 /\ DOMAIN sent' = 1..(Len(sent) + 1)
        /\ sent'[Len(sent) + 1] = Len(rows) /\ \A k \in 1..Len(sent) : sent'[k] = sent[k]
    BY <2>1
  <2>3. Len(sent) + 1 \in DOMAIN sent' /\ Len(sent) + 1 > Len(sent) /\ Len(sent) <= Len(sent')
    BY <1>2, <2>2
  <2>4. Undelivered = lost \cup {Len(rows)} /\ Undelivered' = lost
    BY <2>1 DEF Undelivered
  <2>5. \A k \in DOMAIN sent : k \in DOMAIN sent' /\ sent'[k] = sent[k]
    BY <1>2, <2>2
  <2>6. Narrations' = Narrations
    BY <1>3, <2>1
  <2> QED BY <1>1, <2>1, <2>2, <2>3, <2>4, <2>5, <2>6 DEF TablesGrow
<1>6. CASE DeliveryFails
  <2>1. rows' = rows /\ sent' = sent /\ lost' = lost \cup {Len(rows)} /\ step = "stored"
    BY <1>6 DEF DeliveryFails
  <2>2. Undelivered \subseteq Undelivered' /\ Narrations' = Narrations
    BY <1>3, <2>1 DEF Undelivered
  <2> QED BY <1>1, <1>2, <2>1, <2>2 DEF TablesGrow
<1>7. WorldStep /\ ~StoreNarration /\ ~BroadcastNarration /\ ~DeliveryFails =>
        /\ rows' = rows \/ Store("user") \/ Store("reply")
        /\ sent' = sent /\ lost \subseteq lost'
        /\ step # "stored" \/ (rows' = rows /\ step' = step)
  BY DEF WorldStep, TakeEvent, BeginPlay, StoreReply, EndQuietly, TurnFails, AnswerMessage,
         FinishOpening, worldVars
<1>8. ASSUME /\ rows' = rows \/ Store("user") \/ Store("reply")
             /\ sent' = sent /\ lost \subseteq lost'
             /\ step # "stored" \/ (rows' = rows /\ step' = step)
      PROVE  TablesGrow
  <2>1. Undelivered \subseteq Undelivered'
    BY <1>8 DEF Undelivered
  <2>2. Narrations' = Narrations
    BY <1>3, <1>8
  <2> QED BY <1>1, <1>2, <1>8, <2>1, <2>2 DEF TablesGrow
<1> QED BY <1>4, <1>5, <1>6, <1>7, <1>8

LEMMA RowsOnPage ==
  ASSUME TypeOK, Grown, NEW p \in Page
  PROVE  /\ \A k \in DOMAIN shown[p] :
              shown[p][k] # 0 => shown[p][k] \in DOMAIN rows /\ rows'[shown[p][k]] = rows[shown[p][k]]
         /\ answer[p] # 0 => answer[p] \in DOMAIN rows /\ rows'[answer[p]] = rows[answer[p]]
BY PageFacts, RowsGrow

LEMMA OnceOnKept ==
  ASSUME TypeOK, NEW p \in Page, OnceOn(p), Grown, shown'[p] = shown[p]
  PROVE  OnceOn(p)'
<1>1. \A k \in DOMAIN shown[p] : shown[p][k] # 0 => rows'[shown[p][k]] = rows[shown[p][k]]
  BY RowsOnPage
<1> QED BY <1>1 DEF OnceOn

LEMMA InOrderKept ==
  ASSUME TypeOK, NEW p \in Page, InOrder(p), Grown, lost \subseteq lost',
         shown'[p] = shown[p], lagged'[p] = lagged[p]
  PROVE  InOrder(p)'
<1> SUFFICES ASSUME NEW k \in DOMAIN shown[p], shown[p][k] # 0, rows'[shown[p][k]] = "reply", ~lagged[p],
                    NEW n \in (Entries("narration"))', n \notin lost', n < shown[p][k]
             PROVE  \E j \in 1..(k - 1) : shown[p][j] = n
  BY DEF InOrder
<1>1. shown[p][k] \in DOMAIN rows /\ rows[shown[p][k]] = "reply"
  BY RowsOnPage
<1>2. n \in DOMAIN rows' /\ rows'[n] = "narration"
  BY DEF Entries
<1>3. n \in DOMAIN rows
  <2>1. /\ DOMAIN rows = 1..Len(rows) /\ DOMAIN rows' = 1..Len(rows')
        /\ Len(rows) \in Nat /\ Len(rows') \in Nat
    BY TableFacts, RowsGrow
  <2> QED BY <1>1, <1>2, <2>1
<1>4. rows[n] = "narration"
  BY <1>2, <1>3, RowsGrow
<1>5. n \in Entries("narration") \ lost
  BY <1>3, <1>4 DEF Entries
<1> QED BY <1>1, <1>5 DEF InOrder

LEMMA ReachesKept ==
  ASSUME TypeOK, TypeOK', NEW p \in Page, Reaches(p), TablesGrow, Kept(p)
  PROVE  Reaches(p)'
<1>1. CASE place[p] \in Before \/ lagged[p]
  BY <1>1 DEF Reaches, Kept
<1>2. CASE place[p] \notin Before /\ ~lagged[p]
  <2>1. ASSUME NEW n \in Narrations'
        PROVE  \/ n \in ShownOn(p) \cup Undelivered'
               \/ \E k \in DOMAIN sent' : k > next[p] /\ sent'[k] = n
    <3>1. /\ next[p] \in Nat /\ Len(sent) \in Nat /\ next[p] <= Len(sent)
          /\ DOMAIN sent = 1..Len(sent)
      BY TableFacts, PageFacts DEF TablesGrow
    <3>2. CASE n \in Undelivered'
      BY <3>2
    <3>3. CASE n \in Narrations \ Undelivered
      <4>1. n \in ShownOn(p) \/ \E k \in DOMAIN sent : k > next[p] /\ sent[k] = n
        BY <1>2, <3>3 DEF Reaches
      <4> QED BY <4>1 DEF TablesGrow
    <3>4. ASSUME NEW k \in DOMAIN sent', k > Len(sent), sent'[k] = n
          PROVE  \E i \in DOMAIN sent' : i > next[p] /\ sent'[i] = n
      <4>1. sent' \in Seq(DOMAIN rows')
        BY DEF TypeOK
      <4>2. k \in Nat
        BY <3>4, <4>1
      <4> QED BY <3>1, <3>4, <4>2
    <3> QED BY <2>1, <3>2, <3>3, <3>4 DEF TablesGrow
  <2>2. next'[p] = next[p] /\ (ShownOn(p))' = ShownOn(p)
    BY <1>2 DEF Kept, ShownOn
  <2> QED BY <2>1, <2>2 DEF Reaches
<1> QED BY <1>1, <1>2

LEMMA QuietKeeps ==
  ASSUME TypeOK, TypeOK', NEW p \in Page, PageInv(p), TablesGrow, Kept(p)
  PROVE  Snapshot(p)' /\ Reaches(p)' /\ OnceOn(p)' /\ InOrder(p)'
<1>1. Snapshot(p)'
  BY DEF PageInv, Snapshot, Kept
<1>2. Reaches(p)'
  BY ReachesKept DEF PageInv
<1>3. OnceOn(p)'
  BY OnceOnKept DEF PageInv, TablesGrow, Kept
<1>4. InOrder(p)'
  BY InOrderKept DEF PageInv, TablesGrow, Kept
<1> QED BY <1>1, <1>2, <1>3, <1>4

-----------------------------------------------------------------------------
(* The pages' invariant: steps of the page itself. *)

LEMMA GonePage ==
  ASSUME NEW p \in Page, place'[p] = "closed", shown'[p] = <<>>, cursor'[p] = 0, lagged'[p] = FALSE,
         answer'[p] = 0
  PROVE  PageInv(p)'
<1>1. <<>> = [i \in 1..0 |-> i] /\ DOMAIN <<>> = {}
  OBVIOUS
<1>2. Snapshot(p)'
  BY <1>1 DEF Snapshot
<1>3. Fresh(p)' /\ Reaches(p)'
  BY DEF Fresh, Reaches, Before
<1>4. (ShownOn(p))' = {} /\ DOMAIN (shown'[p]) = {}
  BY <1>1 DEF ShownOn
<1> QED BY <1>2, <1>3, <1>4 DEF PageInv, ReplyIsNew, OnceOn, InOrder

LEMMA ForgottenPage ==
  ASSUME NEW gone \in SUBSET Page, ForgetPages(gone), NEW p \in gone
  PROVE  PageInv(p)'
<1>1. p \in Page
  OBVIOUS
<1>2. place'[p] = "closed" /\ shown'[p] = <<>> /\ cursor'[p] = 0 /\ lagged'[p] = FALSE /\ answer'[p] = 0
  BY <1>1 DEF ForgetPages
<1> QED BY <1>1, <1>2, GonePage

(* A page that shows what the table held at one moment. *)
LEMMA WholePage ==
  ASSUME TypeOK, NEW p \in Page, rows' = rows, shown'[p] = [i \in 1..Len(rows) |-> i]
  PROVE  OnceOn(p)' /\ InOrder(p)' /\ (Entries("narration"))' \subseteq (ShownOn(p))'
<1>1. Len(rows) \in Nat /\ DOMAIN rows = 1..Len(rows)
  BY TableFacts
<1>2. DOMAIN (shown'[p]) = 1..Len(rows) /\ \A k \in 1..Len(rows) : shown'[p][k] = k
  OBVIOUS
<1>3. OnceOn(p)'
  BY <1>1, <1>2 DEF OnceOn
<1>4. InOrder(p)'
  <2> SUFFICES ASSUME NEW k \in 1..Len(rows), NEW n \in DOMAIN rows, n < k
               PROVE  \E j \in 1..(k - 1) : shown'[p][j] = n
    BY <1>1, <1>2 DEF InOrder, Entries
  <2>1. n \in 1..(k - 1) /\ n \in 1..Len(rows)
    BY <1>1
  <2> QED BY <1>2, <2>1
<1>5. (Entries("narration"))' \subseteq (ShownOn(p))'
  <2> SUFFICES ASSUME NEW n \in DOMAIN rows
               PROVE  n \in (ShownOn(p))'
    BY DEF Entries
  <2>1. n \in DOMAIN (shown'[p]) /\ shown'[p][n] = n /\ n # 0
    BY <1>1, <1>2
  <2> QED BY <2>1 DEF ShownOn
<1> QED BY <1>3, <1>4, <1>5

(* A page with one more line. *)
LEMMA OneMoreLine ==
  ASSUME TypeOK, NEW p \in Page, OnceOn(p), InOrder(p), NEW r \in {0} \cup DOMAIN rows,
         shown'[p] = shown[p] \o <<r>>, rows' = rows, lost' = lost, lagged'[p] = lagged[p],
         r # 0 /\ rows[r] # "narration" => r \notin ShownOn(p),
         r # 0 /\ rows[r] = "reply" /\ ~lagged[p] =>
           \A n \in Entries("narration") \ lost : n < r => n \in ShownOn(p)
  PROVE  OnceOn(p)' /\ InOrder(p)' /\ (ShownOn(p))' = ShownOn(p) \cup ({r} \ {0})
<1> DEFINE m == Len(shown[p])
<1>1. /\ shown[p] \in Seq({0} \cup DOMAIN rows)
      /\ m \in Nat /\ DOMAIN shown[p] = 1..m
  BY PageFacts
<1>2. /\ DOMAIN (shown'[p]) = 1..(m + 1) /\ shown'[p][m + 1] = r
      /\ \A k \in 1..m : shown'[p][k] = shown[p][k]
  BY <1>1
<1> HIDE DEF m
<1>3. \A k \in DOMAIN (shown'[p]) : k \in 1..m \/ k = m + 1
  BY <1>1, <1>2
<1>4. (ShownOn(p))' = ShownOn(p) \cup ({r} \ {0})
  <2>1. m + 1 \in 1..(m + 1) /\ 1..m \subseteq 1..(m + 1)
    BY <1>1
  <2> QED BY <1>1, <1>2, <1>3, <2>1 DEF ShownOn
<1>5. OnceOn(p)'
  <2> SUFFICES ASSUME NEW j \in DOMAIN (shown'[p]), NEW k \in DOMAIN (shown'[p]), j < k,
                      shown'[p][j] = shown'[p][k], shown'[p][j] # 0
               PROVE  rows[shown'[p][j]] = "narration"
    BY DEF OnceOn
  <2>1. j \in 1..m
    BY <1>1, <1>2
  <2>2. CASE k \in 1..m
    BY <1>1, <1>2, <2>1, <2>2 DEF OnceOn
  <2>3. CASE k = m + 1
    <3>1. shown[p][j] = r /\ r # 0 /\ r \in ShownOn(p)
      BY <1>1, <1>2, <2>1, <2>3 DEF ShownOn
    <3> QED BY <1>2, <2>1, <3>1
  <2> QED BY <1>3, <2>2, <2>3
<1>6. InOrder(p)'
  <2> SUFFICES ASSUME NEW k \in DOMAIN (shown'[p]), shown'[p][k] # 0, rows[shown'[p][k]] = "reply",
                      ~lagged[p], NEW n \in Entries("narration") \ lost, n < shown'[p][k]
               PROVE  \E j \in 1..(k - 1) : shown'[p][j] = n
    BY DEF InOrder, Entries
  <2>1. CASE k \in 1..m
    <3>1. shown'[p][k] = shown[p][k]
      BY <1>2, <2>1
    <3>2. PICK j \in 1..(k - 1) : shown[p][j] = n
      BY <1>1, <2>1, <3>1 DEF InOrder
    <3>3. j \in 1..m
      BY <1>1, <2>1
    <3> QED BY <1>2, <3>2, <3>3
  <2>2. CASE k = m + 1
    <3>1. n \in ShownOn(p)
      BY <1>2, <2>2
    <3>2. PICK j \in 1..m : shown[p][j] = n
      BY <1>1, <3>1 DEF ShownOn
    <3>3. j \in 1..(k - 1)
      BY <1>1, <2>2, <3>2
    <3> QED BY <1>2, <3>2, <3>3
  <2> QED BY <1>3, <2>1, <2>2
<1> QED BY <1>4, <1>5, <1>6

(* A page that is not waiting has no event under way. *)
LEMMA NoEvent ==
  ASSUME TypeOK, WorldInv, NEW p \in Page, place[p] # "waiting"
  PROVE  event.page # p
<1>1. Nobody \notin Page
  BY ChatAssumption
<1> QED BY <1>1, AwaitedFacts DEF WorldInv

LEMMA RenderKeeps ==
  ASSUME TypeOK, WorldInv, NEW p \in Page, PageInv(p), Render(p)
  PROVE  PageInv(p)'
<1>1. /\ place[p] = "closed" /\ place'[p] = "rendered" /\ shown'[p] = shown[p] \o After(0)
      /\ cursor'[p] = Len(rows) /\ rows' = rows /\ event' = event
      /\ lagged'[p] = lagged[p] /\ answer'[p] = answer[p]
  BY DEF Render, Go, Show, TypeOK, worldVars
<1>2. shown[p] = <<>> /\ answer[p] = 0
  <2>1. shown[p] = [i \in 1..0 |-> i] /\ answer[p] = 0
    BY <1>1 DEF PageInv, Fresh, Snapshot, Before
  <2> QED BY <2>1
<1>3. shown'[p] = [i \in 1..Len(rows) |-> i]
  <2>1. Len(rows) \in Nat /\ 0 \in 0..Len(rows) /\ Len(rows) - 0 = Len(rows)
    BY TableFacts
  <2>2. After(0) \in Seq({0} \cup DOMAIN rows)
    BY <2>1, AfterFacts
  <2>3. shown'[p] = After(0)
    BY <1>1, <1>2, <2>2
  <2>4. After(0) = [i \in 1..Len(rows) |-> i]
    BY <2>1 DEF After
  <2> QED BY <2>3, <2>4
<1>4. OnceOn(p)' /\ InOrder(p)'
  BY <1>1, <1>3, WholePage
<1>5. Snapshot(p)' /\ Fresh(p)' /\ Reaches(p)'
  BY <1>1, <1>3 DEF Snapshot, Fresh, Reaches, Before
<1>6. ReplyIsNew(p)'
  BY <1>1, <1>2, NoEvent DEF ReplyIsNew
<1> QED BY <1>4, <1>5, <1>6 DEF PageInv

LEMMA CatchUpKeeps ==
  ASSUME TypeOK, WorldInv, NEW p \in Page, PageInv(p), CatchUp(p)
  PROVE  PageInv(p)'
<1>1. /\ place[p] = "catchup" /\ place'[p] = "enabling" /\ shown'[p] = shown[p] \o After(cursor[p])
      /\ rows' = rows /\ event' = event /\ answer'[p] = answer[p]
  BY DEF CatchUp, Go, Show, TypeOK, worldVars
<1>2. Len(rows) \in Nat /\ cursor[p] \in 0..Len(rows)
  BY TableFacts, PageFacts
<1>3. shown[p] = [i \in 1..cursor[p] |-> i]
  BY <1>1 DEF PageInv, Snapshot, Before
<1>4. shown'[p] = [i \in 1..Len(rows) |-> i]
  <2>1. /\ After(cursor[p]) \in Seq({0} \cup DOMAIN rows) /\ Len(After(cursor[p])) = Len(rows) - cursor[p]
        /\ \A i \in 1..(Len(rows) - cursor[p]) : After(cursor[p])[i] = cursor[p] + i
    BY <1>2, AfterFacts
  <2>2. /\ shown[p] \in Seq({0} \cup DOMAIN rows) /\ Len(shown[p]) = cursor[p]
        /\ \A i \in 1..cursor[p] : shown[p][i] = i
    BY <1>2, <1>3, PageFacts
  <2>3. /\ shown'[p] \in Seq({0} \cup DOMAIN rows)
        /\ Len(shown'[p]) = cursor[p] + (Len(rows) - cursor[p])
        /\ \A i \in 1..(cursor[p] + (Len(rows) - cursor[p])) :
             shown'[p][i] = IF i <= cursor[p] THEN shown[p][i] ELSE After(cursor[p])[i - cursor[p]]
    <3> DEFINE s == shown[p]
               t == After(cursor[p])
    <3>1. s \in Seq({0} \cup DOMAIN rows) /\ t \in Seq({0} \cup DOMAIN rows)
      BY <2>1, <2>2
    <3>2. Len(s) = cursor[p] /\ Len(t) = Len(rows) - cursor[p] /\ shown'[p] = s \o t
      BY <1>1, <2>1, <2>2
    <3> HIDE DEF s, t
    <3>3. /\ s \o t \in Seq({0} \cup DOMAIN rows) /\ Len(s \o t) = Len(s) + Len(t)
          /\ \A i \in 1..(Len(s) + Len(t)) : (s \o t)[i] = IF i <= Len(s) THEN s[i] ELSE t[i - Len(s)]
      BY <3>1, ConcatProperties
    <3>4. /\ shown'[p] \in Seq({0} \cup DOMAIN rows)
          /\ Len(shown'[p]) = cursor[p] + (Len(rows) - cursor[p])
          /\ \A i \in 1..(cursor[p] + (Len(rows) - cursor[p])) :
               shown'[p][i] = IF i <= cursor[p] THEN s[i] ELSE t[i - cursor[p]]
      BY <3>2, <3>3
    <3> QED BY <3>4 DEF s, t
  <2>4. cursor[p] + (Len(rows) - cursor[p]) = Len(rows)
    BY <1>2
  <2>5. ASSUME NEW i \in 1..Len(rows)
        PROVE  shown'[p][i] = i
    <3>1. shown'[p][i] = IF i <= cursor[p] THEN shown[p][i] ELSE After(cursor[p])[i - cursor[p]]
      BY <2>3, <2>4
    <3>2. CASE i <= cursor[p]
      <4>1. i \in 1..cursor[p]
        BY <1>2, <3>2
      <4> QED BY <2>2, <3>1, <3>2, <4>1
    <3>3. CASE ~(i <= cursor[p])
      <4>1. i - cursor[p] \in 1..(Len(rows) - cursor[p]) /\ cursor[p] + (i - cursor[p]) = i
        BY <1>2, <3>3
      <4> QED BY <2>1, <3>1, <3>3, <4>1
    <3> QED BY <3>2, <3>3
  <2> QED BY <1>2, <2>3, <2>4, <2>5
<1>5. OnceOn(p)' /\ InOrder(p)' /\ Narrations' \subseteq (ShownOn(p))'
  BY <1>1, <1>4, WholePage DEF Narrations
<1>6. Snapshot(p)' /\ Fresh(p)'
  BY <1>1 DEF Snapshot, Fresh, Before
<1>7. Reaches(p)'
  BY <1>5 DEF Reaches
<1>8. ReplyIsNew(p)'
  BY <1>1, NoEvent DEF ReplyIsNew, PageInv
<1> QED BY <1>5, <1>6, <1>7, <1>8 DEF PageInv

LEMMA SubmitKeeps ==
  ASSUME TypeOK, TypeOK', WorldInv, NEW p \in Page, PageInv(p), Submit(p)
  PROVE  PageInv(p)'
<1>1. /\ place[p] = "live" /\ place' = place /\ shown'[p] = shown[p] \o <<0>>
      /\ cursor' = cursor /\ next' = next /\ lagged' = lagged /\ answer' = answer
      /\ rows' = rows /\ sent' = sent /\ lost' = lost /\ event' = event /\ step' = step
  BY DEF Submit, Show, TypeOK, worldVars
<1>2. OnceOn(p)' /\ InOrder(p)' /\ (ShownOn(p))' = ShownOn(p)
  <2>1. OnceOn(p) /\ InOrder(p) /\ lagged'[p] = lagged[p]
    BY <1>1 DEF PageInv
  <2> DEFINE r == 0
  <2>2. r \in {0} \cup DOMAIN rows /\ ~(r # 0) /\ {r} \ {0} = {}
    OBVIOUS
  <2>3. shown'[p] = shown[p] \o <<r>>
    BY <1>1
  <2> HIDE DEF r
  <2>4. OnceOn(p)' /\ InOrder(p)' /\ (ShownOn(p))' = ShownOn(p) \cup ({r} \ {0})
    BY <1>1, <2>1, <2>2, <2>3, OneMoreLine
  <2> QED BY <2>2, <2>4
<1>3. Snapshot(p)' /\ Fresh(p)'
  BY <1>1 DEF Snapshot, Fresh, Before
<1>4. Reaches(p)'
  <2>1. Narrations' = Narrations /\ Undelivered' = Undelivered
    BY <1>1 DEF Narrations, Entries, Undelivered
  <2> QED BY <1>1, <1>2, <2>1 DEF Reaches, PageInv
<1>5. ReplyIsNew(p)'
  BY <1>1, <1>2, NoEvent DEF ReplyIsNew, PageInv
<1> QED BY <1>2, <1>3, <1>4, <1>5 DEF PageInv

LEMMA ForwardKeeps ==
  ASSUME TypeOK, TypeOK', WorldInv, NEW p \in Page, PageInv(p), Forward(p)
  PROVE  PageInv(p)'
<1>1. /\ place[p] \in {"live", "flushing"} /\ place' = place /\ next[p] < Len(sent)
      /\ cursor' = cursor /\ answer' = answer
      /\ rows' = rows /\ sent' = sent /\ lost' = lost /\ event' = event /\ step' = step
  BY DEF Forward, worldVars
<1>2. /\ Len(rows) \in Nat /\ Len(sent) \in Nat /\ DOMAIN sent = 1..Len(sent) /\ next[p] \in 0..Len(sent)
      /\ Grown
  BY <1>1, TableFacts, PageFacts DEF Grown
<1>3. Snapshot(p)' /\ Fresh(p)'
  BY <1>1 DEF Snapshot, Fresh, Before
<1>4. event'.page # p
  BY <1>1, NoEvent
<1>5. CASE Len(sent) - next[p] > Buffer
  <2>1. lagged'[p] = TRUE /\ shown' = shown
    BY <1>5 DEF Forward, TypeOK
  <2>2. Reaches(p)' /\ InOrder(p)'
    BY <2>1 DEF Reaches, InOrder
  <2>3. OnceOn(p)'
    BY <1>2, <2>1, OnceOnKept DEF PageInv
  <2>4. ReplyIsNew(p)'
    BY <1>1, <1>4, <2>1 DEF ReplyIsNew, PageInv, ShownOn
  <2> QED BY <1>3, <2>2, <2>3, <2>4 DEF PageInv
<1>6. CASE ~(Len(sent) - next[p] > Buffer)
  <2> DEFINE n == sent[next[p] + 1]
  <2>1. next[p] + 1 \in DOMAIN sent
    BY <1>1, <1>2
  <2>2. n \in DOMAIN rows /\ n # 0 /\ rows[n] = "narration"
    <3>1. n \in DOMAIN rows /\ rows[n] = "narration"
      BY <2>1, TableFacts DEF WorldInv, NarrationsAreSent
    <3> QED BY <3>1, TableFacts
  <2>3. shown'[p] = shown[p] \o <<n>> /\ lagged' = lagged /\ next'[p] = next[p] + 1
    BY <1>6 DEF Forward, Show, TypeOK
  <2> HIDE DEF n
  <2>4. OnceOn(p)' /\ InOrder(p)' /\ (ShownOn(p))' = ShownOn(p) \cup {n}
    <3>1. n \in {0} \cup DOMAIN rows /\ {n} \ {0} = {n} /\ OnceOn(p) /\ InOrder(p)
      BY <2>2 DEF PageInv
    <3> QED BY <1>1, <2>2, <2>3, <3>1, OneMoreLine
  <2>5. Reaches(p)'
    <3>1. Narrations' = Narrations /\ Undelivered' = Undelivered
      BY <1>1 DEF Narrations, Entries, Undelivered
    <3>2. ASSUME NEW k \in DOMAIN sent, k > next[p]
          PROVE  sent[k] = n \/ k > next[p] + 1
      BY <1>2, <3>2 DEF n
    <3>3. CASE lagged[p]
      BY <2>3, <3>3 DEF Reaches
    <3>4. CASE ~lagged[p]
      <4>1. \A i \in Narrations :
              i \in ShownOn(p) \cup Undelivered \/ \E k \in DOMAIN sent : k > next[p] /\ sent[k] = i
        BY <1>1, <3>4 DEF Reaches, PageInv, Before
      <4>2. \A i \in Narrations : i \in (ShownOn(p) \cup {n}) \cup Undelivered
              \/ \E k \in DOMAIN sent : k > next[p] + 1 /\ sent[k] = i
        BY <3>2, <4>1
      <4> QED BY <1>1, <2>3, <2>4, <3>1, <4>2 DEF Reaches
    <3> QED BY <3>3, <3>4
  <2>6. ReplyIsNew(p)'
    <3>1. answer[p] # 0 => rows[answer[p]] = "reply" /\ answer[p] \notin ShownOn(p)
      BY DEF PageInv, ReplyIsNew
    <3>2. answer[p] # 0 => answer[p] # n
      BY <2>2, <3>1
    <3> QED BY <1>1, <1>4, <2>4, <3>1, <3>2 DEF ReplyIsNew, PageInv
  <2> QED BY <1>3, <2>4, <2>5, <2>6 DEF PageInv
<1> QED BY <1>5, <1>6

LEMMA ShowReplyKeeps ==
  ASSUME TypeOK, TypeOK', WorldInv, NEW p \in Page, PageInv(p), ShowReply(p)
  PROVE  PageInv(p)'
<1>1. /\ place[p] = "flushing" /\ place'[p] = "live" /\ next[p] = Len(sent) /\ answer'[p] = 0
      /\ cursor' = cursor /\ lagged' = lagged /\ next' = next
      /\ rows' = rows /\ sent' = sent /\ lost' = lost /\ event' = event /\ step' = step
  BY DEF ShowReply, Go, TypeOK, worldVars
<1>2. event'.page # p
  BY <1>1, NoEvent
<1>3. ReplyIsNew(p)'
  BY <1>1, <1>2 DEF ReplyIsNew
<1>4. Snapshot(p)' /\ Fresh(p)'
  BY <1>1 DEF Snapshot, Fresh, Before
<1>5. Len(rows) \in Nat /\ DOMAIN rows = 1..Len(rows) /\ Len(sent) \in Nat /\ DOMAIN sent = 1..Len(sent)
  BY TableFacts
<1>6. CASE answer[p] = 0
  <2>1. shown' = shown
    BY <1>6 DEF ShowReply
  <2>2. TablesGrow /\ Kept(p)
    BY <1>1, <1>5, <2>1, StillTables DEF Kept, Before
  <2> QED BY <1>3, <1>4, <2>2, QuietKeeps DEF PageInv
<1>7. CASE answer[p] # 0
  <2> DEFINE a == answer[p]
  <2>1. a \in DOMAIN rows /\ a # 0 /\ rows[a] = "reply" /\ a \notin ShownOn(p)
    BY <1>7, PageFacts DEF PageInv, ReplyIsNew
  <2>2. shown'[p] = shown[p] \o <<a>>
    BY <1>7 DEF ShowReply, Show, TypeOK
  <2> HIDE DEF a
  <2>3. ASSUME ~lagged[p], NEW n \in Entries("narration") \ lost, n < a
        PROVE  n \in ShownOn(p)
    <3>1. /\ n \in Narrations /\ place[p] \notin Before
      BY <1>1 DEF Narrations, Before
    <3>2. n \in ShownOn(p) \cup Undelivered \/ \E k \in DOMAIN sent : k > next[p] /\ sent[k] = n
      BY <2>3, <3>1 DEF PageInv, Reaches
    <3>3. \A k \in DOMAIN sent : ~(k > next[p])
      BY <1>1, <1>5
    <3>4. n # Len(rows)
      BY <1>5, <2>1, <2>3
    <3>5. n \notin Undelivered
      BY <3>4 DEF Undelivered
    <3> QED BY <3>2, <3>3, <3>5
  <2>4. OnceOn(p)' /\ InOrder(p)' /\ (ShownOn(p))' = ShownOn(p) \cup {a}
    <3>1. a \in {0} \cup DOMAIN rows /\ {a} \ {0} = {a} /\ OnceOn(p) /\ InOrder(p)
      BY <2>1 DEF PageInv
    <3> QED BY <1>1, <2>1, <2>2, <2>3, <3>1, OneMoreLine
  <2>5. Reaches(p)'
    <3>1. Narrations' = Narrations /\ Undelivered' = Undelivered
      BY <1>1 DEF Narrations, Entries, Undelivered
    <3>2. place[p] \notin Before /\ place'[p] \notin Before
      BY <1>1 DEF Before
    <3>3. ShownOn(p) \subseteq (ShownOn(p))'
      BY <2>4
    <3> QED BY <1>1, <3>1, <3>2, <3>3 DEF Reaches, PageInv
  <2> QED BY <1>3, <1>4, <2>4, <2>5 DEF PageInv
<1> QED BY <1>6, <1>7

LEMMA SilentKeeps ==
  ASSUME TypeOK, TypeOK', WorldInv, NEW p \in Page, PageInv(p),
         \/ Subscribe(p) \/ LookForOpening(p) \/ JoinOpening(p) \/ Enable(p) \/ Receive(p)
         \/ QueueMessage(p)
  PROVE  PageInv(p)'
<1>1. CASE ForgetPages({p})
  BY <1>1, ForgottenPage
<1>2. CASE ~ForgetPages({p})
  <2>1. /\ rows' = rows /\ sent' = sent /\ lost' = lost /\ step' = step /\ event' = event
        /\ outcome' = outcome /\ Len(sent) \in Nat
    BY TableFacts DEF Subscribe, LookForOpening, JoinOpening, Enable, Receive, QueueMessage, worldVars
  <2>2. /\ shown' = shown /\ cursor' = cursor /\ lagged' = lagged /\ answer' = answer
        /\ next' = next \/ place[p] = "rendered"
    BY <1>2 DEF Subscribe, LookForOpening, JoinOpening, Enable, Receive, QueueMessage
  <2>3. /\ place[p] \notin {"closed", "waiting", "flushing"}
        /\ place'[p] \in Before <=> place[p] \in Before
        /\ place'[p] # "closed"
    BY <1>2 DEF Subscribe, LookForOpening, JoinOpening, Enable, Receive, QueueMessage, Before, Go, TypeOK
  <2>4. TablesGrow
    BY <2>1, StillTables
  <2>5. Kept(p)
    BY <2>2, <2>3 DEF Kept, Before
  <2>6. Snapshot(p)' /\ Reaches(p)' /\ OnceOn(p)' /\ InOrder(p)'
    BY <2>4, <2>5, QuietKeeps
  <2>7. Fresh(p)'
    BY <2>3 DEF Fresh
  <2>8. ReplyIsNew(p)'
    <3>1. answer[p] = 0
      BY <2>3 DEF PageInv, ReplyIsNew
    <3>2. event.page # p
      BY <2>3, NoEvent
    <3> QED BY <2>1, <2>2, <3>1, <3>2 DEF ReplyIsNew
  <2> QED BY <2>6, <2>7, <2>8 DEF PageInv
<1> QED BY <1>1, <1>2

-----------------------------------------------------------------------------
(* The pages' invariant: steps of others. *)

(* A page that is left alone. *)
Alone(p) ==
  /\ place'[p] = place[p] /\ shown'[p] = shown[p] /\ cursor'[p] = cursor[p] /\ next'[p] = next[p]
  /\ lagged'[p] = lagged[p] /\ answer'[p] = answer[p]

LEMMA NotForgotten ==
  ASSUME TypeOK, NEW gone \in SUBSET Page, ForgetPages(gone), NEW q \in Page, q \notin gone
  PROVE  Alone(q)
<1>1. lagged[q] \in BOOLEAN
  BY DEF TypeOK
<1>2. lagged'[q] = (TRUE /\ lagged[q])
  BY DEF ForgetPages
<1>3. lagged'[q] = lagged[q]
  BY <1>1, <1>2
<1>4. place'[q] = place[q] /\ shown'[q] = shown[q] /\ cursor'[q] = cursor[q] /\ next'[q] = next[q]
      /\ answer'[q] = answer[q]
  BY DEF ForgetPages
<1> QED BY <1>3, <1>4 DEF Alone

LEMMA AloneKeeps ==
  ASSUME TypeOK, TypeOK', NEW p \in Page, PageInv(p), TablesGrow, Alone(p),
         event'.page = p /\ outcome' > 0 => outcome' \notin ShownOn(p)
  PROVE  PageInv(p)'
<1>1. Kept(p) /\ (ShownOn(p))' = ShownOn(p)
  BY DEF Kept, Alone, ShownOn
<1>2. Snapshot(p)' /\ Reaches(p)' /\ OnceOn(p)' /\ InOrder(p)'
  BY <1>1, QuietKeeps
<1>3. Fresh(p)'
  BY DEF Fresh, Alone, PageInv
<1>4. ReplyIsNew(p)'
  <2>1. answer[p] # 0 => rows'[answer[p]] = rows[answer[p]]
    BY RowsOnPage DEF TablesGrow
  <2> QED BY <1>1, <2>1 DEF ReplyIsNew, PageInv, Alone
<1> QED BY <1>2, <1>3, <1>4 DEF PageInv

LEMMA OthersKeep ==
  ASSUME TypeOK, TypeOK', WorldInv, NEW p \in Page, NEW q \in Page, q # p, PageInv(q),
         PageStep(p) \/ Render(p) \/ Submit(p) \/ Close(p)
  PROVE  PageInv(q)'
<1>1. rows' = rows /\ sent' = sent /\ lost' = lost /\ step' = step /\ outcome' = outcome /\ Len(sent) \in Nat
  BY TableFacts
     DEF PageStep, Subscribe, LookForOpening, JoinOpening, CatchUp, Enable, Receive, QueueMessage,
         Forward, ShowReply, Render, Submit, Close, worldVars
<1>2. event' = event \/ event' = WithoutPage(event, p)
  BY DEF PageStep, Subscribe, LookForOpening, JoinOpening, CatchUp, Enable, Receive, QueueMessage,
         Forward, ShowReply, Render, Submit, Close, worldVars
<1>3. TablesGrow
  BY <1>1, StillTables
<1>4. Alone(q)
  <2>1. CASE ForgetPages({p})
    <3>1. {p} \in SUBSET Page /\ q \notin {p}
      OBVIOUS
    <3> QED BY <2>1, <3>1, NotForgotten
  <2>2. CASE PageStep(p) /\ ~ForgetPages({p})
    BY <2>2 DEF PageStep, Subscribe, LookForOpening, JoinOpening, CatchUp, Enable, Receive,
                QueueMessage, Forward, ShowReply, Alone, Go, Show, TypeOK
  <2>3. CASE Render(p) \/ Submit(p)
    BY <2>3 DEF Render, Submit, Alone, Go, Show, TypeOK
  <2> QED BY <2>1, <2>2, <2>3 DEF Close
<1>5. event'.page = q => event.page = q
  <2>1. Nobody \notin Page /\ event \in Event
    BY ChatAssumption DEF TypeOK
  <2>2. WithoutPage(event, p).page \in {event.page, Nobody} \ {p}
    BY <2>1, EventFacts
  <2> QED BY <1>2, <2>1, <2>2
<1>6. event'.page = q /\ outcome' > 0 => outcome' \notin ShownOn(q)
  BY <1>1, <1>5 DEF PageInv, ReplyIsNew
<1> QED BY <1>3, <1>4, <1>6, AloneKeeps

LEMMA WorldKeepsPage ==
  ASSUME TypeOK, TypeOK', WorldInv, WorldStep, NEW p \in Page, PageInv(p)
  PROVE  PageInv(p)'
<1>1. TablesGrow /\ Grown
  BY WorldTables, WorldStepWorld
<1>2. ~(0 > 0) /\ ~(Failed > 0)
  BY DEF Failed
<1>3. Nobody \notin Page
  BY ChatAssumption
<1>4. CASE AnswerMessage
  <2>1. event'.page # p
    BY <1>3, <1>4 DEF AnswerMessage, Idle
  <2>2. CASE event.page # p
    <3>1. Alone(p)
      <4>1. CASE event.page = Nobody
        BY <1>4, <4>1 DEF AnswerMessage, Alone
      <4>2. CASE event.page # Nobody
        BY <1>4, <2>2, <4>2 DEF AnswerMessage, Alone, Go, TypeOK
      <4> QED BY <4>1, <4>2
    <3> QED BY <1>1, <2>1, <3>1, AloneKeeps
  <2>3. CASE event.page = p
    <3>1. /\ place[p] = "waiting" /\ place'[p] = "flushing"
          /\ answer'[p] = IF outcome = Failed THEN 0 ELSE outcome
          /\ shown' = shown /\ cursor' = cursor /\ next' = next /\ lagged' = lagged /\ rows' = rows
      BY <1>3, <1>4, <2>3, AwaitedFacts DEF AnswerMessage, Go, TypeOK, WorldInv
    <3>2. Kept(p) /\ (ShownOn(p))' = ShownOn(p)
      BY <3>1 DEF Kept, Before, ShownOn
    <3>3. Snapshot(p)' /\ Reaches(p)' /\ OnceOn(p)' /\ InOrder(p)'
      BY <1>1, <3>2, QuietKeeps
    <3>4. Fresh(p)'
      BY <3>1 DEF Fresh
    <3>5. answer'[p] # 0 => outcome > 0 /\ answer'[p] = outcome
      <4>1. \A o \in DOMAIN rows : o > 0
        BY TableFacts
      <4>2. outcome = Failed \/ outcome = 0 \/ outcome \in DOMAIN rows
        BY DEF TypeOK
      <4> QED BY <3>1, <4>1, <4>2
    <3>6. outcome > 0 => rows[outcome] = "reply" /\ outcome \notin ShownOn(p)
      BY <2>3 DEF WorldInv, OutcomeIsReply, PageInv, ReplyIsNew
    <3>7. ReplyIsNew(p)'
      BY <2>1, <3>1, <3>2, <3>5, <3>6 DEF ReplyIsNew
    <3> QED BY <3>3, <3>4, <3>7 DEF PageInv
  <2> QED BY <2>2, <2>3
<1>5. CASE FinishOpening
  <2>1. event'.page # p
    BY <1>3, <1>5 DEF FinishOpening, Idle
  <2>2. CASE p \notin Viewers
    <3>1. Alone(p)
      <4>1. CASE ForgetPages(Viewers)
        <5>1. Viewers \in SUBSET Page
          BY DEF Viewers
        <5> QED BY <2>2, <4>1, <5>1, NotForgotten
      <4>2. CASE ~ForgetPages(Viewers)
        BY <1>5, <2>2, <4>2 DEF FinishOpening, Alone
      <4> QED BY <4>1, <4>2
    <3> QED BY <1>1, <2>1, <3>1, AloneKeeps
  <2>3. CASE p \in Viewers /\ outcome = Failed
    <3>1. Viewers \in SUBSET Page /\ ForgetPages(Viewers)
      BY <1>5, <2>3 DEF FinishOpening, Viewers
    <3> QED BY <2>3, <3>1, ForgottenPage
  <2>4. CASE p \in Viewers /\ outcome # Failed
    <3>1. /\ place[p] = "opening" /\ place'[p] = "catchup" /\ answer' = answer
          /\ shown' = shown /\ cursor' = cursor /\ next' = next /\ lagged' = lagged
      BY <1>5, <2>4 DEF FinishOpening, Viewers
    <3>2. Kept(p)
      BY <3>1 DEF Kept, Before
    <3>3. Snapshot(p)' /\ Reaches(p)' /\ OnceOn(p)' /\ InOrder(p)'
      BY <1>1, <3>2, QuietKeeps
    <3>4. Fresh(p)' /\ ReplyIsNew(p)'
      BY <2>1, <3>1 DEF Fresh, ReplyIsNew, PageInv
    <3> QED BY <3>3, <3>4 DEF PageInv
  <2> QED BY <2>2, <2>3, <2>4
<1>6. CASE StoreReply
  <2>1. Alone(p)
    BY <1>6 DEF StoreReply, Alone, pageVars
  <2>2. "reply" \in EntryKind
    BY DEF EntryKind
  <2>3. outcome' = Len(rows') /\ Len(rows') \notin DOMAIN rows
    BY <1>6, <2>2, StoreFacts DEF StoreReply
  <2>4. outcome' \notin ShownOn(p)
    BY <2>3, PageFacts
  <2> QED BY <1>1, <2>1, <2>4, AloneKeeps
<1>7. CASE TakeEvent \/ DeliveryFails \/ TurnFails \/ EndQuietly
  <2>1. Alone(p)
    BY <1>7 DEF TakeEvent, DeliveryFails, TurnFails, EndQuietly, Alone, pageVars
  <2>2. ~(outcome' > 0)
    <3>1. (outcome' = outcome /\ step = "idle") \/ outcome' = 0 \/ outcome' = Failed
      BY <1>7 DEF TakeEvent, DeliveryFails, TurnFails, EndQuietly
    <3>2. step = "idle" => ~(outcome > 0)
      BY DEF WorldInv, OutcomeIsReply
    <3> QED BY <1>2, <3>1, <3>2
  <2> QED BY <1>1, <2>1, <2>2, AloneKeeps
<1>8. CASE BeginPlay \/ StoreNarration \/ BroadcastNarration
  <2>1. Alone(p) /\ event' = event /\ outcome' = outcome
    BY <1>8 DEF BeginPlay, StoreNarration, BroadcastNarration, Alone, pageVars, worldVars
  <2>2. event'.page = p /\ outcome' > 0 => outcome' \notin ShownOn(p)
    BY <2>1 DEF PageInv, ReplyIsNew
  <2> QED BY <1>1, <2>1, <2>2, AloneKeeps
<1> QED BY <1>4, <1>5, <1>6, <1>7, <1>8 DEF WorldStep

LEMMA PagesKept ==
  ASSUME TypeOK, TypeOK', WorldInv, [Next]_vars, NEW q \in Page, PageInv(q)
  PROVE  PageInv(q)'
<1>1. ASSUME NEW p \in Page, PageStep(p) \/ Render(p) \/ Submit(p) \/ Close(p)
      PROVE  PageInv(q)'
  <2>1. CASE q # p
    BY <1>1, <2>1, OthersKeep
  <2>2. CASE q = p
    <3>1. ASSUME PageStep(q)
          PROVE  PageInv(q)'
      BY <3>1, SilentKeeps, CatchUpKeeps, ForwardKeeps, ShowReplyKeeps DEF PageStep
    <3>2. ASSUME Close(q)
          PROVE  PageInv(q)'
      BY <3>2, ForgottenPage DEF Close
    <3> QED BY <1>1, <2>2, <3>1, <3>2, RenderKeeps, SubmitKeeps
  <2> QED BY <2>1, <2>2
<1>2. CASE WorldStep
  BY <1>2, WorldKeepsPage
<1>3. CASE QueueStep
  <2>1. /\ rows' = rows /\ sent' = sent /\ lost' = lost /\ step' = step /\ event' = event
        /\ outcome' = outcome /\ Len(sent) \in Nat /\ Alone(q)
    BY <1>3, TableFacts DEF QueueStep, QueueStray, QueueOpening, RemoveOpening, QueueOther, pageVars, Alone
  <2>2. event'.page = q /\ outcome' > 0 => outcome' \notin ShownOn(q)
    BY <2>1 DEF PageInv, ReplyIsNew
  <2> QED BY <2>1, <2>2, StillTables, AloneKeeps
<1>4. CASE Restart
  <2>1. ForgetPages(Page) /\ Page \in SUBSET Page
    BY <1>4 DEF Restart
  <2> QED BY <2>1, ForgottenPage
<1>5. CASE UNCHANGED vars
  <2>1. /\ rows' = rows /\ sent' = sent /\ lost' = lost /\ step' = step /\ event' = event
        /\ outcome' = outcome /\ Len(sent) \in Nat /\ Alone(q)
    BY <1>5, TableFacts DEF vars, worldVars, pageVars, Alone
  <2>2. event'.page = q /\ outcome' > 0 => outcome' \notin ShownOn(q)
    BY <2>1 DEF PageInv, ReplyIsNew
  <2> QED BY <2>1, <2>2, StillTables, AloneKeeps
<1> QED BY <1>1, <1>2, <1>3, <1>4, <1>5, StepCases

-----------------------------------------------------------------------------
LEMMA InitInv ==
  ASSUME Init
  PROVE  Inv
<1>1. <<>> \in Seq(EntryKind) /\ <<>> \in Seq(Event) /\ Len(<<>>) = 0 /\ DOMAIN <<>> = {}
  BY EmptySeq
<1>2. <<>> \in Seq(DOMAIN rows) /\ <<>> \in Seq({0} \cup DOMAIN rows)
  BY EmptySeq
<1>3. TypeOK
  <2>1. WorldTypes
    <3>1. /\ rows \in Seq(EntryKind) /\ queue \in Seq(Event) /\ sent \in Seq(DOMAIN rows)
          /\ Len(queue) <= QueueCap
      BY <1>1, <1>2, ChatAssumption DEF Init
    <3> QED BY <3>1, EventFacts DEF Init, WorldTypes
  <2>2. PageTypes
    <3>1. 0 \in 0..Len(rows) /\ 0 \in 0..Len(sent)
      BY <1>1 DEF Init
    <3>2. shown \in [Page -> Seq({0} \cup DOMAIN rows)]
      BY <1>2 DEF Init
    <3> QED BY <3>1, <3>2 DEF Init, PageTypes, Place
  <2>3. BoundTypes
    BY ChatAssumption DEF Init, BoundTypes
  <2> QED BY <2>1, <2>2, <2>3, TypeParts
<1>4. WorldInv
  BY <1>1 DEF Init, WorldInv, NarrationsAreSent, OutcomeIsReply, OpeningIsFirst, AwaitsOne, Idle,
              EntersHaveNoPage, Outstanding, NobodyForgotten
<1>5. ASSUME NEW p \in Page
      PROVE  PageInv(p)
  <2>1. shown[p] = [i \in 1..0 |-> i] /\ cursor[p] = 0 /\ DOMAIN shown[p] = {}
    BY <1>1 DEF Init
  <2>2. place[p] = "closed" /\ lagged[p] = FALSE /\ answer[p] = 0 /\ ~(outcome > 0)
    BY DEF Init
  <2> QED BY <2>1, <2>2
         DEF PageInv, Snapshot, Fresh, Reaches, ReplyIsNew, OnceOn, InOrder, Before
<1> QED BY <1>3, <1>4, <1>5 DEF Inv

LEMMA InvKept ==
  ASSUME Inv, [Next]_vars
  PROVE  Inv'
<1>1. TypeOK /\ WorldInv /\ \A p \in Page : PageInv(p)
  BY DEF Inv
<1>2. TypeOK'
  BY <1>1, TypesKept
<1>3. WorldInv'
  BY <1>1, WorldKept
<1>4. \A p \in Page : PageInv(p)'
  BY <1>1, <1>2, PagesKept
<1> QED BY <1>2, <1>3, <1>4 DEF Inv

(* The variables keep their types, and Inv holds, in every behavior.       *)
THEOREM Invariance == Spec => []Inv
<1>1. Init => Inv
  BY InitInv
<1>2. Inv /\ [Next]_vars => Inv'
  BY InvKept
<1> QED BY <1>1, <1>2, PTL DEF Spec

(* on_submit, the world's queue, its answers and wait_for_opening: no page *)
(* awaits an answer, and no viewer an opening, that nobody is to give.     *)
THEOREM NobodyIsForgotten == Spec => []NobodyForgotten
<1>1. Inv => NobodyForgotten
  BY DEF Inv, WorldInv
<1> QED BY <1>1, Invariance, PTL

(* Every variable stays in its range; the pages show rows there are.       *)
THEOREM Typing == Spec => []TypeOK
<1>1. Inv => TypeOK
  BY DEF Inv
<1> QED BY <1>1, Invariance, PTL

(* However rendering, subscribing, catching up, forwarding and answering   *)
(* interleave with the world's turns, what was narrated is on a page that  *)
(* is up to date, unless the page says that messages were missed or the    *)
(* delivery failed (game_page, play_connection, send_ready_broadcasts).    *)
THEOREM NarrationsReachPages == Spec => []NarrationsReach
<1>1. ASSUME Inv
      PROVE  NarrationsReach
  <2> SUFFICES ASSUME NEW p \in Page, UpToDate(p), ~lagged[p], NEW n \in Entries("narration")
               PROVE  n \in ShownOn(p) \cup Undelivered
    BY DEF NarrationsReach
  <2>1. Reaches(p) /\ place[p] \notin Before /\ next[p] = Len(sent)
    BY <1>1 DEF Inv, PageInv, UpToDate, Before
  <2>2. \A k \in DOMAIN sent : ~(k > next[p])
    BY <1>1, <2>1, TableFacts DEF Inv
  <2> QED BY <2>1, <2>2 DEF Reaches, Narrations
<1> QED BY <1>1, Invariance, PTL

(* No reply and no message of a player is on a page twice, whatever the    *)
(* snapshot, the catching up and the answer to a message overlap with.     *)
THEOREM RepliesAreShownOnce == Spec => []RepliesShownOnce
<1>1. Inv => RepliesShownOnce
  BY DEF Inv, PageInv, OnceOn, RepliesShownOnce
<1> QED BY <1>1, Invariance, PTL

(* A reply is below the narrations that were stored before it, on every    *)
(* page that missed none (send_ready_broadcasts before the answer).        *)
THEOREM NarrationsComeFirst == Spec => []NarrationBeforeReply
<1>1. Inv => NarrationBeforeReply
  BY DEF Inv, PageInv, InOrder, NarrationBeforeReply
<1> QED BY <1>1, Invariance, PTL

(* The step of an opening that stores a reply finds no reply there.        *)
THEOREM OpeningsSpeakFirst == Spec => OpeningSpeaksFirst
<1> DEFINE First == event.kind = "enter" /\ (Entries("reply"))' # Entries("reply") => ~Spoken
<1>1. ASSUME Inv, [Next]_vars
      PROVE  First
  <2> SUFFICES ASSUME event.kind = "enter", (Entries("reply"))' # Entries("reply")
               PROVE  ~Spoken
    OBVIOUS
  <2>1. TypeOK /\ WorldInv
    BY <1>1 DEF Inv
  <2>2. rows' # rows /\ ~Store("narration") /\ ~Store("user")
    <3>1. "narration" \in EntryKind \ {"reply"} /\ "user" \in EntryKind \ {"reply"}
      BY DEF EntryKind
    <3>2. rows' = rows => (Entries("reply"))' = Entries("reply")
      BY DEF Entries
    <3>3. ASSUME NEW kind \in EntryKind \ {"reply"}, Store(kind)
          PROVE  (Entries("reply"))' = Entries("reply")
      <4>1. Grown
        BY <3>3 DEF Grown, Store
      <4> QED BY <2>1, <3>3, <4>1, EntriesKept
    <3> QED BY <3>1, <3>2, <3>3
  <2>3. WorldStep
    <3>1. ASSUME NEW p \in Page, PageStep(p) \/ Render(p) \/ Submit(p) \/ Close(p)
          PROVE  rows' = rows
      BY <2>1, <3>1, PageStepWorld
    <3>2. QueueStep => rows' = rows
      BY <2>1, QueueStepTypes
    <3>3. Restart \/ UNCHANGED vars => rows' = rows
      BY DEF Restart, vars
    <3> QED BY <1>1, <2>2, <3>1, <3>2, <3>3, StepCases
  <2>4. StoreReply
    BY <2>2, <2>3 DEF WorldStep, TakeEvent, BeginPlay, StoreNarration, BroadcastNarration, DeliveryFails,
                      EndQuietly, TurnFails, AnswerMessage, FinishOpening
  <2> QED BY <2>1, <2>4 DEF StoreReply, WorldInv, OpeningIsFirst
<1> QED BY <1>1, Invariance, PTL DEF Spec, OpeningSpeaksFirst

=============================================================================
