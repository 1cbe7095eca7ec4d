---------------------------- MODULE ChatSocket ----------------------------
(***************************************************************************)
(* The chat of one player: the stored history, the world's task that       *)
(* writes it, the broadcast of GM narrations at the player's location, and *)
(* the pages (browser tabs) that show it.  A page is rendered from a       *)
(* snapshot, connects, catches up from the store and then lives on         *)
(* broadcasts and on the replies to what was written into it.              *)
(*                                                                         *)
(* Entries are the player-visible rows of the store, numbered in the order *)
(* of their ids; rows that player_chat_after filters out are left out.  A  *)
(* page receives what its socket was sent at once: the socket is ordered.  *)
(***************************************************************************)
EXTENDS Integers, Sequences, FiniteSets

CONSTANTS
  Page,             \* tabs of this player
  Nobody,           \* the page of an event whose page is gone, or of no page
  QueueCap,         \* mpsc::channel(64) of the world
  Buffer,           \* broadcast::channel(64) of the location
  MaxLoads,         \* bound: pages rendered
  MaxMessages,      \* bound: messages submitted
  MaxOthers,        \* bound: events of other players at the location
  MaxNarrations,    \* bound: narrations
  MaxRestarts       \* bound: restarts of the server

ASSUME ChatAssumption ==
  /\ IsFiniteSet(Page)
  /\ Nobody \notin Page
  /\ QueueCap \in Nat \ {0}
  /\ Buffer \in Nat \ {0}
  /\ {MaxLoads, MaxMessages, MaxOthers, MaxNarrations, MaxRestarts} \subseteq Nat

VARIABLES           \* the store
  rows,             \* the entries: "user", "reply" or "narration"
  ready             \* the Adventurer's creation is complete
VARIABLES           \* the world's task
  queue,            \* events waiting
  event,            \* the event being resolved
  step,             \* where its resolution is
  outcome,          \* the row of its reply, 0 for an empty one, or Failed
  opening,          \* the server-owned opening of this player
  strays,           \* messages of closed pages whose connection still queues them
  lost              \* rows that were stored but whose delivery failed
VARIABLE sent       \* the rows broadcast so far
VARIABLES           \* the pages and their connections
  place,            \* where the connection is
  shown,            \* rows on the page, 0 for what was typed there
  cursor,           \* the last row of the snapshot
  next,             \* broadcasts the connection has received
  lagged,           \* the page was told that live messages were missed
  canAct,           \* submission is enabled
  inbox,            \* a message of the page its connection has not read
  answer            \* the row of the reply to be shown when flushing ends
VARIABLES loads, submits, others, restarts

worldVars == <<queue, event, step, outcome, opening, strays, lost>>
pageVars  == <<place, shown, cursor, next, lagged, canAct, inbox, answer>>
bounds    == <<loads, submits, others, restarts>>
vars      == <<rows, ready, sent, worldVars, pageVars, bounds>>

EntryKind == {"user", "reply", "narration"}
Place     == {"closed", "rendered", "connected", "joining", "opening", "catchup", "enabling",
              "live", "sending", "waiting", "flushing"}
Event     == [kind : {"none", "message", "enter", "other"}, page : Page \cup {Nobody}]

Failed == -1

Idle         == [kind |-> "none",    page |-> Nobody]
Enter        == [kind |-> "enter",   page |-> Nobody]
OtherPlayer  == [kind |-> "other",   page |-> Nobody]
MessageOf(p) == [kind |-> "message", page |-> p]

-----------------------------------------------------------------------------
Entries(kind) == {i \in DOMAIN rows : rows[i] = kind}

(* opening_complete *)
Spoken == Entries("reply") # {}

Store(kind) == rows' = Append(rows, kind)

(* What a page sees of the table from a cursor on. *)
FromTheStart(c) == [i \in 1..Len(rows) |-> i]              \* faulty: no cursor
After(c) == [i \in 1..(Len(rows) - c) |-> c + i]

Show(p, more) == shown' = [shown EXCEPT ![p] = @ \o more]

Go(p, where) == place' = [place EXCEPT ![p] = where]

(* An event whose page is gone is resolved all the same. *)
WithoutPage(e, p) == IF e.page = p THEN [e EXCEPT !.page = Nobody] ELSE e

(* Nothing of a page outlives it; a reload renders a new one. *)
ForgetPages(gone) ==
  /\ place'  = [p \in Page |-> IF p \in gone THEN "closed" ELSE place[p]]
  /\ shown'  = [p \in Page |-> IF p \in gone THEN <<>> ELSE shown[p]]
  /\ cursor' = [p \in Page |-> IF p \in gone THEN 0 ELSE cursor[p]]
  /\ next'   = [p \in Page |-> IF p \in gone THEN 0 ELSE next[p]]
  /\ lagged' = [p \in Page |-> p \notin gone /\ lagged[p]]
  /\ canAct' = [p \in Page |-> p \notin gone /\ canAct[p]]
  /\ inbox'  = [p \in Page |-> p \notin gone /\ inbox[p]]
  /\ answer' = [p \in Page |-> IF p \in gone THEN 0 ELSE answer[p]]

-----------------------------------------------------------------------------
Init ==
  /\ rows = <<>> /\ ready = FALSE
  /\ queue = <<>> /\ event = Idle /\ step = "idle" /\ outcome = 0
  /\ opening = "none" /\ strays = 0 /\ lost = {}
  /\ sent = <<>>
  /\ place  = [p \in Page |-> "closed"]
  /\ shown  = [p \in Page |-> <<>>]
  /\ cursor = [p \in Page |-> 0]
  /\ next   = [p \in Page |-> 0]
  /\ lagged = [p \in Page |-> FALSE]
  /\ canAct = [p \in Page |-> FALSE]
  /\ inbox  = [p \in Page |-> FALSE]
  /\ answer = [p \in Page |-> 0]
  /\ loads = 0 /\ submits = 0 /\ others = 0 /\ restarts = 0

-----------------------------------------------------------------------------
(* The pages. *)

(* game_page: the stored history, and its last id as the cursor. *)
Render(p) ==
  /\ place[p] = "closed"
  /\ loads < MaxLoads
  /\ loads' = loads + 1
  /\ Go(p, "rendered")
  /\ Show(p, After(0))
  /\ cursor' = [cursor EXCEPT ![p] = Len(rows)]
  /\ UNCHANGED <<rows, ready, sent, worldVars, next, lagged, canAct, inbox, answer,
                 submits, others, restarts>>

(* play_connection subscribes before anything else. *)
Subscribe(p) ==
  /\ place[p] = "rendered"
  /\ Go(p, "connected")
  /\ next' = [next EXCEPT ![p] = Len(sent)]
  /\ UNCHANGED <<rows, ready, sent, worldVars, shown, cursor, lagged, canAct, inbox, answer, bounds>>

(* wait_for_opening: whether there is one to wait for, *)
LookForOpening(p) ==
  /\ place[p] = "connected"
  /\ Go(p, IF Spoken THEN "catchup" ELSE "joining")
  /\ UNCHANGED <<rows, ready, sent, worldVars, shown, cursor, next, lagged, canAct, inbox, answer,
                 bounds>>

(* and then the entry of the map: the first viewer makes it, one who comes *)
(* before it is removed gets its result, be it an old failure.             *)
JoinOpening(p) ==
  /\ place[p] = "joining"
  /\ \/ /\ opening \in {"none", "queueing", "queued"}
        /\ opening' = IF opening = "none" THEN "queueing" ELSE opening
        /\ Go(p, "opening")
        /\ UNCHANGED <<shown, cursor, next, lagged, canAct, inbox, answer>>
     \/ /\ opening = "opened" /\ UNCHANGED opening
        /\ Go(p, "catchup")
        /\ UNCHANGED <<shown, cursor, next, lagged, canAct, inbox, answer>>
     \/ opening = "failed" /\ UNCHANGED opening /\ ForgetPages({p})
  /\ UNCHANGED <<rows, ready, sent, queue, event, step, outcome, strays, lost, bounds>>

(* Every stored entry after the snapshot. *)
CatchUp(p) ==
  /\ place[p] = "catchup"
  /\ Show(p, After(cursor[p]))
  /\ Go(p, "enabling")
  /\ UNCHANGED <<rows, ready, sent, worldVars, cursor, next, lagged, canAct, inbox, answer, bounds>>

SubscribeAtLast(p) ==                        \* faulty: subscribes after catching up
  /\ place[p] = "enabling"
  /\ next' = [next EXCEPT ![p] = Len(sent)]
  /\ canAct' = [canAct EXCEPT ![p] = TRUE]
  /\ Go(p, "live")
  /\ UNCHANGED <<rows, ready, sent, worldVars, shown, cursor, lagged, inbox, answer, bounds>>

Enable(p) ==
  /\ place[p] = "enabling"
  /\ canAct' = [canAct EXCEPT ![p] = TRUE]
  /\ Go(p, "live")
  /\ UNCHANGED <<rows, ready, sent, worldVars, shown, cursor, next, lagged, inbox, answer, bounds>>

(* on_submit *)
Submit(p) ==
  /\ place[p] = "live"
  /\ canAct[p]
  /\ submits < MaxMessages
  /\ submits' = submits + 1
  /\ Show(p, <<0>>)
  /\ canAct' = [canAct EXCEPT ![p] = FALSE]
  /\ inbox' = [inbox EXCEPT ![p] = TRUE]
  /\ UNCHANGED <<rows, ready, sent, worldVars, place, cursor, next, lagged, answer, loads, others,
                 restarts>>

Receive(p) ==
  /\ place[p] = "live"
  /\ inbox[p]
  /\ inbox' = [inbox EXCEPT ![p] = FALSE]
  /\ Go(p, "sending")
  /\ UNCHANGED <<rows, ready, sent, worldVars, shown, cursor, next, lagged, canAct, answer, bounds>>

(* The next broadcast, or the notice that the buffer has wrapped.  While a *)
(* reply is awaited nothing is forwarded.                                  *)
Forward(p) ==
  /\ place[p] \in {"live", "flushing"}
  /\ next[p] < Len(sent)
  /\ IF Len(sent) - next[p] > Buffer
     THEN /\ lagged' = [lagged EXCEPT ![p] = TRUE]
          /\ next' = [next EXCEPT ![p] = Len(sent) - Buffer]
          /\ UNCHANGED shown
     ELSE /\ Show(p, <<sent[next[p] + 1]>>)
          /\ next' = [next EXCEPT ![p] = @ + 1]
          /\ UNCHANGED lagged
  /\ UNCHANGED <<rows, ready, sent, worldVars, place, cursor, canAct, inbox, answer, bounds>>

ShowReplyAtOnce(p) ==                        \* faulty: no send_ready_broadcasts
  /\ place[p] = "flushing"
  /\ IF answer[p] = 0 THEN UNCHANGED shown ELSE Show(p, <<answer[p]>>)
  /\ answer' = [answer EXCEPT ![p] = 0]
  /\ canAct' = [canAct EXCEPT ![p] = TRUE]
  /\ Go(p, "live")
  /\ UNCHANGED <<rows, ready, sent, worldVars, cursor, next, lagged, inbox, bounds>>

(* The reply after every broadcast that is ready. *)
ShowReply(p) ==
  /\ place[p] = "flushing"
  /\ next[p] = Len(sent)
  /\ IF answer[p] = 0 THEN UNCHANGED shown ELSE Show(p, <<answer[p]>>)
  /\ answer' = [answer EXCEPT ![p] = 0]
  /\ canAct' = [canAct EXCEPT ![p] = TRUE]
  /\ Go(p, "live")
  /\ UNCHANGED <<rows, ready, sent, worldVars, cursor, next, lagged, inbox, bounds>>

(* The browser leaves.  The connection notices only when it next uses the  *)
(* socket: a message it has read, or still reads, is queued all the same.  *)
Close(p) ==
  /\ place[p] # "closed"
  /\ ForgetPages({p})
  /\ \/ place[p] # "sending" /\ UNCHANGED strays
     \/ (place[p] = "sending" \/ inbox[p]) /\ strays' = strays + 1
  /\ event' = WithoutPage(event, p)
  /\ queue' = [i \in DOMAIN queue |-> WithoutPage(queue[i], p)]
  /\ UNCHANGED <<rows, ready, sent, step, outcome, opening, lost, bounds>>

-----------------------------------------------------------------------------
(* The world's queue and the task that resolves its events one by one. *)

QueueMessage(p) ==
  /\ place[p] = "sending"
  /\ Len(queue) < QueueCap
  /\ queue' = Append(queue, MessageOf(p))
  /\ Go(p, "waiting")
  /\ UNCHANGED <<rows, ready, sent, event, step, outcome, opening, strays, lost, shown, cursor, next,
                 lagged, canAct, inbox, answer, bounds>>

QueueStray ==
  /\ strays > 0
  /\ Len(queue) < QueueCap
  /\ queue' = Append(queue, MessageOf(Nobody))
  /\ strays' = strays - 1
  /\ UNCHANGED <<rows, ready, sent, event, step, outcome, opening, lost, pageVars, bounds>>

QueueOpening ==
  /\ opening = "queueing"
  /\ Len(queue) < QueueCap
  /\ queue' = Append(queue, Enter)
  /\ opening' = "queued"
  /\ UNCHANGED <<rows, ready, sent, event, step, outcome, strays, lost, pageVars, bounds>>

QueueOther ==
  /\ others < MaxOthers
  /\ Len(queue) < QueueCap
  /\ others' = others + 1
  /\ queue' = Append(queue, OtherPlayer)
  /\ UNCHANGED <<rows, ready, sent, event, step, outcome, opening, strays, lost, pageVars, loads,
                 submits, restarts>>

TakeEnterAlways ==                           \* faulty: no second look at the history
  /\ step = "idle"
  /\ queue # <<>>
  /\ event' = Head(queue)
  /\ queue' = Tail(queue)
  /\ step' = "turn"
  /\ IF event'.kind = "message" THEN Store("user") ELSE UNCHANGED rows
  /\ UNCHANGED <<ready, sent, outcome, opening, strays, lost, pageVars, bounds>>

(* A message is stored, if the store does, before it is resolved.  Nothing *)
(* is left to open for an Adventurer that is ready or has been spoken to.  *)
TakeEvent ==
  /\ step = "idle"
  /\ queue # <<>>
  /\ event' = Head(queue)
  /\ queue' = Tail(queue)
  /\ \/ event'.kind = "message" /\ Store("user") /\ step' = "turn" /\ UNCHANGED outcome
     \/ event'.kind = "message" /\ UNCHANGED rows /\ step' = "answer" /\ outcome' = Failed
     \/ event'.kind = "enter" /\ ~(ready \/ Spoken) /\ step' = "turn" /\ UNCHANGED <<rows, outcome>>
     \/ event'.kind = "enter" /\ (ready \/ Spoken) /\ step' = "answer" /\ UNCHANGED rows
        /\ outcome' \in {0, Failed}
     \/ event'.kind = "other" /\ step' = "turn" /\ UNCHANGED <<rows, outcome>>
  /\ UNCHANGED <<ready, sent, opening, strays, lost, pageVars, bounds>>

(* The tool ready_to_begin; its narration may follow or fail. *)
BeginPlay ==
  /\ step = "turn"
  /\ event.kind \in {"message", "enter"}
  /\ ~ready
  /\ ready' = TRUE
  /\ UNCHANGED <<rows, sent, worldVars, pageVars, bounds>>

(* deliver_narration: stored for everybody at the location, then sent. *)
StoreNarration ==
  /\ step = "turn"
  /\ Cardinality(Entries("narration")) < MaxNarrations
  /\ Store("narration")
  /\ step' = "stored"
  /\ UNCHANGED <<ready, sent, queue, event, outcome, opening, strays, lost, pageVars, bounds>>

BroadcastNarration ==
  /\ step = "stored"
  /\ sent' = Append(sent, Len(rows))
  /\ step' = "turn"
  /\ UNCHANGED <<rows, ready, queue, event, outcome, opening, strays, lost, pageVars, bounds>>

(* Storing it for another player at the location failed. *)
DeliveryFails ==
  /\ step = "stored"
  /\ lost' = lost \cup {Len(rows)}
  /\ step' = "answer"
  /\ outcome' = Failed
  /\ UNCHANGED <<rows, ready, sent, queue, event, opening, strays, pageVars, bounds>>

StoreReply ==
  /\ step = "turn"
  /\ event.kind \in {"message", "enter"}
  /\ Store("reply")
  /\ outcome' = Len(rows')
  /\ step' = "answer"
  /\ UNCHANGED <<ready, sent, queue, event, opening, strays, lost, pageVars, bounds>>

(* The turn of another player ends, or one of this player with an empty    *)
(* text, which is stored but never shown.                                  *)
EndQuietly ==
  /\ step = "turn"
  /\ step' = "answer"
  /\ outcome' = 0
  /\ UNCHANGED <<rows, ready, sent, queue, event, opening, strays, lost, pageVars, bounds>>

(* A turn fails, at any point or, in after_agent, with its reply stored. *)
TurnFails ==
  /\ step = "turn" \/ (step = "answer" /\ outcome > 0)
  /\ step' = "answer"
  /\ outcome' = Failed
  /\ lost' = IF outcome > 0 THEN lost \cup {outcome} ELSE lost
  /\ UNCHANGED <<rows, ready, sent, queue, event, opening, strays, pageVars, bounds>>

AnswerSuccess ==                             \* faulty: the page of a failed turn is forgotten
  /\ step = "answer"
  /\ event.kind # "enter"
  /\ event' = Idle /\ step' = "idle" /\ outcome' = 0
  /\ IF event.page = Nobody \/ outcome = Failed
     THEN UNCHANGED <<place, answer>>
     ELSE /\ Go(event.page, "flushing")
          /\ answer' = [answer EXCEPT ![event.page] = outcome]
  /\ UNCHANGED <<rows, ready, sent, queue, opening, strays, lost, shown, cursor, next, lagged, canAct,
                 inbox, bounds>>

(* The oneshot of a message; without an answer the page may act again. *)
AnswerMessage ==
  /\ step = "answer"
  /\ event.kind # "enter"
  /\ event' = Idle /\ step' = "idle" /\ outcome' = 0
  /\ IF event.page = Nobody
     THEN UNCHANGED <<place, answer>>
     ELSE /\ Go(event.page, "flushing")
          /\ answer' = [answer EXCEPT ![event.page] = IF outcome = Failed THEN 0 ELSE outcome]
  /\ UNCHANGED <<rows, ready, sent, queue, opening, strays, lost, shown, cursor, next, lagged, canAct,
                 inbox, bounds>>

Viewers == {p \in Page : place[p] = "opening"}

FinishOpeningSilently ==                     \* faulty: the viewers are not told
  /\ step = "answer"
  /\ event.kind = "enter"
  /\ event' = Idle /\ step' = "idle" /\ outcome' = 0
  /\ opening' = "opened"
  /\ UNCHANGED <<rows, ready, sent, queue, strays, lost, pageVars, bounds>>

(* The watch of an opening: its viewers catch up, or are told of the       *)
(* failure and disconnected.                                               *)
FinishOpening ==
  /\ step = "answer"
  /\ event.kind = "enter"
  /\ event' = Idle /\ step' = "idle" /\ outcome' = 0
  /\ IF outcome = Failed
     THEN opening' = "failed" /\ ForgetPages(Viewers)
     ELSE /\ opening' = "opened"
          /\ place' = [p \in Page |-> IF p \in Viewers THEN "catchup" ELSE place[p]]
          /\ UNCHANGED <<shown, cursor, next, lagged, canAct, inbox, answer>>
  /\ UNCHANGED <<rows, ready, sent, queue, strays, lost, bounds>>

(* The entry goes after its result is known; the next viewer may try anew. *)
RemoveOpening ==
  /\ opening \in {"opened", "failed"}
  /\ opening' = "none"
  /\ UNCHANGED <<rows, ready, sent, queue, event, step, outcome, strays, lost, pageVars, bounds>>

(* The process ends: the store is left, every page has lost its connection. *)
Restart ==
  /\ restarts < MaxRestarts
  /\ restarts' = restarts + 1
  /\ queue' = <<>> /\ event' = Idle /\ step' = "idle" /\ outcome' = 0
  /\ opening' = "none" /\ strays' = 0
  /\ sent' = <<>>
  /\ ForgetPages(Page)
  /\ UNCHANGED <<rows, ready, lost, loads, submits, others>>

-----------------------------------------------------------------------------
PageStep(p) ==
  \/ Subscribe(p) \/ LookForOpening(p) \/ JoinOpening(p) \/ CatchUp(p) \/ Enable(p)
  \/ Receive(p) \/ QueueMessage(p) \/ Forward(p) \/ ShowReply(p)

WorldStep ==
  \/ TakeEvent \/ BeginPlay \/ StoreNarration \/ BroadcastNarration \/ DeliveryFails
  \/ StoreReply \/ EndQuietly \/ TurnFails \/ AnswerMessage \/ FinishOpening

Next ==
  \/ \E p \in Page : PageStep(p) \/ Render(p) \/ Submit(p) \/ Close(p)
  \/ WorldStep
  \/ QueueStray \/ QueueOpening \/ RemoveOpening \/ QueueOther
  \/ Restart

Spec == Init /\ [][Next]_vars

(* tokio polls what is woken, and a model that was asked answers; nothing  *)
(* makes a player type, arrive or leave, or the process end.               *)
Fairness ==
  /\ \A p \in Page : WF_vars(PageStep(p))
  /\ WF_vars(WorldStep)
  /\ WF_vars(QueueStray)
  /\ WF_vars(QueueOpening)
  /\ WF_vars(RemoveOpening)

FairSpec == Spec /\ Fairness

-----------------------------------------------------------------------------
(* Every variable stays in its range, and the pages show rows there are.   *)
TypeOK ==
  /\ rows \in Seq(EntryKind) /\ ready \in BOOLEAN
  /\ queue \in Seq(Event) /\ Len(queue) <= QueueCap
  /\ event \in Event
  /\ step \in {"idle", "turn", "stored", "answer"}
  /\ outcome \in {Failed, 0} \cup DOMAIN rows
  /\ opening \in {"none", "queueing", "queued", "opened", "failed"}
  /\ strays \in Nat
  /\ lost \subseteq DOMAIN rows
  /\ sent \in Seq(DOMAIN rows)
  /\ place \in [Page -> Place]
  /\ shown \in [Page -> Seq({0} \cup DOMAIN rows)]
  /\ cursor \in [Page -> 0..Len(rows)]
  /\ next \in [Page -> 0..Len(sent)]
  /\ lagged \in [Page -> BOOLEAN]
  /\ canAct \in [Page -> BOOLEAN]
  /\ inbox \in [Page -> BOOLEAN]
  /\ answer \in [Page -> {0} \cup DOMAIN rows]
  /\ loads \in 0..MaxLoads /\ submits \in 0..MaxMessages
  /\ others \in 0..MaxOthers /\ restarts \in 0..MaxRestarts

ShownOn(p) == {shown[p][k] : k \in DOMAIN shown[p]} \ {0}

(* A page in use whose connection has forwarded all there is. *)
UpToDate(p) == place[p] = "live" /\ next[p] = Len(sent)

Undelivered == lost \cup (IF step = "stored" THEN {Len(rows)} ELSE {})

(* Whatever was narrated while the page was rendered, connected, waited    *)
(* for an opening, caught up or awaited a reply is on the page, or the     *)
(* page says that live messages were missed, or its delivery failed.       *)
NarrationsReach ==
  \A p \in Page : UpToDate(p) /\ ~lagged[p] =>
    Entries("narration") \subseteq ShownOn(p) \cup Undelivered

(* A reply, or a stored message, is on a page at most once: what the       *)
(* snapshot has, what the connection catches up and what it answers do not *)
(* overlap.                                                                *)
RepliesShownOnce ==
  \A p \in Page : \A j, k \in DOMAIN shown[p] :
    j < k /\ shown[p][j] = shown[p][k] /\ shown[p][j] # 0 =>
      rows[shown[p][j]] = "narration"

(* A reply never stands above the narrations its turn, or an earlier one,  *)
(* has led to: the guide's follow-up comes after the GM's text.            *)
NarrationBeforeReply ==
  \A p \in Page : \A k \in DOMAIN shown[p] :
    LET r == shown[p][k] IN
      r # 0 /\ rows[r] = "reply" /\ ~lagged[p] =>
        \A n \in Entries("narration") \ lost :
          n < r => \E j \in 1..(k - 1) : shown[p][j] = n

(* An opening is the first thing the agent says: an opening that was       *)
(* queued while another page's message was not yet answered says nothing,  *)
(* and no message is resolved while an opening is.                         *)
OpeningSpeaksFirst ==
  [][event.kind = "enter" /\ (Entries("reply"))' # Entries("reply") => ~Spoken]_vars

(* Events the world has still to resolve. *)
Outstanding == {event} \cup {queue[i] : i \in DOMAIN queue}

(* Nobody waits for what will not come: a page that may not act has a      *)
(* message on its way, in the queue or before the world, and a viewer's    *)
(* opening is queued or under way, also after failures, full queues and    *)
(* other pages that were closed.                                           *)
NobodyForgotten ==
  /\ \A p \in Page :
       /\ place[p] = "live" => canAct[p] \/ inbox[p]
       /\ place[p] = "waiting" => \E e \in Outstanding : e.page = p
       /\ place[p] = "opening" => opening \in {"queueing", "queued"}
  /\ opening = "queued" => \E e \in Outstanding : e.kind = "enter"

(* What a player submits is answered, unless the page is closed.  A full   *)
(* queue, a failing turn or another player's turns only delay it.          *)
SubmittedIsAnswered ==
  \A p \in Page : (inbox[p] \/ place[p] \in {"sending", "waiting", "flushing"}) ~>
                     (canAct[p] \/ place[p] = "closed")

(* Every viewer of a blank player's page gets to act, or is told that the  *)
(* opening failed.                                                         *)
ViewersGetIn ==
  \A p \in Page : place[p] \in {"joining", "opening"} ~> place[p] \in {"live", "closed"}

(* store.rs:983-985 and implementation_reference.md:155-157: the snapshot  *)
(* and the connection do not duplicate what was stored in between.  They   *)
(* do: a narration that is broadcast after the subscription and stored     *)
(* before the catching up comes through both.                              *)
NothingShownTwice ==
  \A p \in Page : \A j, k \in DOMAIN shown[p] :
    j < k /\ shown[p][j] # 0 => shown[p][j] # shown[p][k]
=============================================================================
