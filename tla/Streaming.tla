----------------------------- MODULE Streaming -----------------------------
(***************************************************************************)
(* One inference with mistral.rs (mistralrs_backend.rs): the answer comes  *)
(* in chunks, cut and interleaved in any way, and the backend puts it      *)
(* together again.  The library and the model are external: what they may  *)
(* send is modelled from what the code accepts.                            *)
(***************************************************************************)
EXTENDS Naturals, FiniteSets, SequencesExt

CONSTANTS
  Piece,         \* pieces of text, never cut
  CallId, ToolName,
  Answer,        \* what the model may answer: text, reasoning and tool calls
  Newline

(* The id tells the calls of an answer apart. *)
ASSUME AnswerAssumption ==
  /\ Answer \subseteq
       [text : Seq(Piece), reasoning : Seq(Piece),
        calls : Seq([id : CallId, name : ToolName, arguments : Seq(Piece)])]
  /\ \A a \in Answer : \A j, k \in DOMAIN a.calls : a.calls[j].id = a.calls[k].id => j = k

VARIABLES
  answer,        \* the answer being sent
  left,          \* what of it is not sent yet
  begun,         \* indices of the calls a delta was sent for
  content, reasoning, calls,     \* what is collected; calls is a BTreeMap by index
  stream         \* the stream is "off", "open", "done" or "failed"

streamVars == <<answer, left, begun, content, reasoning, calls, stream>>

Silence  == [text |-> <<>>, reasoning |-> <<>>, calls |-> <<>>]
NoCalls  == [k \in {} |-> Silence]

StreamInit ==
  /\ answer = Silence /\ left = Silence /\ begun = {}
  /\ content = <<>> /\ reasoning = <<>> /\ calls = NoCalls
  /\ stream = "off"

-----------------------------------------------------------------------------
(* assemble: prose beside tool calls joins the reasoning. *)
Joined(thought, prose) ==
  IF prose = <<>> THEN thought
  ELSE IF thought = <<>> THEN prose ELSE thought \o <<Newline>> \o prose

Assemble(prose, thought, toolCalls) ==
  IF toolCalls = <<>>
  THEN [content |-> prose, reasoning |-> thought, calls |-> <<>>]
  ELSE [content |-> <<>>, reasoning |-> Joined(thought, prose), calls |-> toolCalls]

(* What f holds for the numbers of a set, in their order. *)
InOrder(f, set) ==
  [k \in 1..Cardinality(set) |-> f[CHOOSE i \in set : Cardinality({j \in set : j <= i}) = k]]

IntoValues(map) == InOrder(map, DOMAIN map)

Response == Assemble(content, reasoning, IntoValues(calls))

(* append_tool_delta: a later delta may leave the name out. *)
Refused(delta) ==
  /\ delta.index \in DOMAIN calls
  /\ \/ calls[delta.index].id # delta.id
     \/ delta.name # "" /\ calls[delta.index].name # delta.name

AppendToolDelta(delta) ==
  IF delta.index \in DOMAIN calls
  THEN [calls EXCEPT ![delta.index].arguments = @ \o delta.arguments]
  ELSE [i \in DOMAIN calls \cup {delta.index} |->
          IF i \in DOMAIN calls THEN calls[i]
          ELSE [id |-> delta.id, name |-> delta.name, arguments |-> delta.arguments]]

-----------------------------------------------------------------------------
(* What was collected is dropped. *)
EndStream(how) ==
  /\ answer' = Silence /\ left' = Silence /\ begun' = {}
  /\ content' = <<>> /\ reasoning' = <<>> /\ calls' = NoCalls
  /\ stream' = how

OpenStream ==
  \E a \in Answer :
    /\ answer' = a /\ left' = a /\ begun' = {}
    /\ content' = <<>> /\ reasoning' = <<>> /\ calls' = NoCalls
    /\ stream' = "open"

(* What the next chunk brings of a text: nothing or a piece. *)
Cut(text) == {<<>>} \cup IF text = <<>> THEN {} ELSE {<<Head(text)>>}
Rest(text, piece) == SubSeq(text, Len(piece) + 1, Len(text))

(* The deltas the model may send for the k-th call: its id always, its     *)
(* name with the first at least.                                           *)
Deltas(k) ==
  [index : {k}, id : {answer.calls[k].id},
   name : {answer.calls[k].name} \cup (IF k \in begun THEN {""} ELSE {}),
   arguments : Cut(left.calls[k].arguments)]

Unsaid ==
  \/ left.text # <<>> \/ left.reasoning # <<>>
  \/ \E k \in DOMAIN left.calls : left.calls[k].arguments # <<>> \/ k \notin begun

DropsLastCalls(delta) == IF ~Unsaid' THEN calls ELSE AppendToolDelta(delta)  \* faulty: returns too early
AfterDelta(delta) == AppendToolDelta(delta)

(* A chunk with pieces of the text, of the reasoning and of one call; the  *)
(* last one finishes the response, what it brings included.                *)
Chunk ==
  /\ stream = "open"
  /\ \E prose \in Cut(left.text), thought \in Cut(left.reasoning) :
       /\ content' = content \o prose
       /\ reasoning' = reasoning \o thought
       /\ \/ /\ prose # <<>> \/ thought # <<>> \/ ~Unsaid
             /\ left' = [left EXCEPT !.text = Rest(@, prose), !.reasoning = Rest(@, thought)]
             /\ UNCHANGED <<calls, begun>>
          \/ \E k \in DOMAIN answer.calls : \E delta \in Deltas(k) :
               /\ delta.arguments # <<>> \/ k \notin begun
               /\ left' = [left EXCEPT !.text = Rest(@, prose), !.reasoning = Rest(@, thought),
                                       !.calls[k].arguments = Rest(@, delta.arguments)]
               /\ begun' = begun \cup {k}
               /\ ~Refused(delta)
               /\ calls' = AfterDelta(delta)
  /\ stream' = IF Unsaid' THEN "open" ELSE "done"
  /\ UNCHANGED answer

(* A delta that belongs to another call: its id or its name has changed.   *)
NeverRefused(delta) == FALSE                   \* faulty: the arguments are appended to whatever is there
Mixed(delta) == Refused(delta)

WrongDelta ==
  /\ stream = "open"
  /\ \E k \in begun : \E j \in DOMAIN answer.calls \ {k} :
       LET delta == [index |-> k, id |-> answer.calls[j].id, name |-> answer.calls[j].name,
                     arguments |-> SubSeq(answer.calls[j].arguments, 1, 1)]
       IN IF Mixed(delta)
          THEN EndStream("failed")
          ELSE /\ calls' = AppendToolDelta(delta)
               /\ UNCHANGED <<answer, left, begun, content, reasoning, stream>>

(* The stream ends without a final chunk, or brings an error. *)
StreamFails == stream = "open" /\ EndStream("failed")

StreamStep == Chunk \/ WrongDelta \/ StreamFails

-----------------------------------------------------------------------------
(* A response is the answer, however it was cut: nothing of the last chunk *)
(* is lost, calls stay apart and in order, prose is where replies are read *)
(* only if there is no call.                                               *)
ResponseIsAnswer ==
  stream = "done" => Response = Assemble(answer.text, answer.reasoning, answer.calls)
=============================================================================
