----------------------------- MODULE Recording -----------------------------
(***************************************************************************)
(* What is sent to the model and what is kept of it (context.rs, store.rs, *)
(* the replay command of main.rs), for one agent: recipes of segments that *)
(* refer to stored rows, the requests assembled from them, the inferences  *)
(* recorded with them, and requests rebuilt from a record later, while the *)
(* history grows, is compacted, and the program's prompts change with the  *)
(* next start.                                                             *)
(***************************************************************************)
EXTENDS Streaming

CONSTANTS
  Build,         \* the static prompts and tool definitions of one build after another
  Summarize,     \* compaction::PROMPT
  KeepTail,
  MaxRows,       \* bound: messages of the agent
  MaxInferences, \* bound: inferences recorded
  MaxTexts       \* bound: text rows when a request is begun

ASSUME RecordingAssumption == {KeepTail, MaxRows, MaxInferences, MaxTexts} \subseteq Nat

VARIABLES
  texts,         \* text rows
  rows,          \* message rows of the agent
  summaries,     \* summary rows of the agent
  inferences,    \* inference rows; sent stands for the hash of the input
  kept,          \* pending_compaction: the static context of the reply's request
  build,         \* the running one
  call           \* the completion under way

storeVars == <<texts, rows, summaries, inferences, kept>>
vars      == <<streamVars, storeVars, build, call>>

NoCall == [kind |-> "none", step |-> "none", recipe |-> <<>>, first |-> 0, split |-> 0,
           request |-> <<>>, response |-> <<>>, todo |-> <<>>]
NoJob  == [recipe |-> <<>>, sent |-> <<>>]

Text(id)          == [kind |-> "text", id |-> id]
Tools(id)         == [kind |-> "tools", id |-> id]
SummaryOf(id)     == [kind |-> "summary", id |-> id]
Messages(a, b)    == [kind |-> "messages", first |-> a, last |-> b]

Init ==
  /\ StreamInit
  /\ texts = <<>> /\ rows = <<>> /\ summaries = <<>> /\ inferences = <<>> /\ kept = NoJob
  /\ build = 1 /\ call = NoCall

-----------------------------------------------------------------------------
(* request_for_segments: every segment is read from the store.             *)
ReadOn(segment)   == SubSeq(rows, segment.first, Len(rows))     \* faulty: the range is open
ReadRange(segment) == SubSeq(rows, segment.first, segment.last)

Said(segment) ==
  CASE segment.kind = "text"     -> <<texts[segment.id]>>
    [] segment.kind = "summary"  -> <<summaries[segment.id].content>>
    [] segment.kind = "messages" -> ReadRange(segment)
    [] OTHER                     -> <<>>

Request(recipe) ==
  [messages |-> FlattenSeq([k \in DOMAIN recipe |-> Said(recipe[k])]),
   tools    |-> FlattenSeq([k \in DOMAIN recipe |->
                  IF recipe[k].kind = "tools" THEN <<texts[recipe[k].id]>> ELSE <<>>])]

(* latest_summary: the one that covers most; 0 if there is none.           *)
LatestSummary ==
  IF summaries = <<>> THEN 0
  ELSE CHOOSE k \in DOMAIN summaries : \A j \in DOMAIN summaries :
         \/ summaries[j].covers < summaries[k].covers
         \/ summaries[j].covers = summaries[k].covers /\ j <= k
Covered == IF LatestSummary = 0 THEN 0 ELSE summaries[LatestSummary].covers
Summary == IF LatestSummary = 0 THEN <<>> ELSE <<SummaryOf(LatestSummary)>>

(* tail_split *)
TailSplit(keep) == IF Len(rows) - keep > Covered THEN Len(rows) - keep ELSE Covered

StoreText(prose) == texts' = Append(texts, prose)

-----------------------------------------------------------------------------
(* complete_recorded: the static texts are stored anew for each request,   *)
BeginTurn ==
  /\ call = NoCall /\ kept = NoJob /\ stream = "off"
  /\ Len(inferences) < MaxInferences
  /\ Len(texts) < MaxTexts /\ StoreText(Build[build].system)
  /\ call' = [NoCall EXCEPT !.kind = "turn", !.step = "tools", !.recipe = <<Text(Len(texts) + 1)>>]
  /\ UNCHANGED <<streamVars, rows, summaries, inferences, kept, build>>

(* then the tools, *)
StoreTools ==
  /\ call.kind = "turn" /\ call.step = "tools"
  /\ StoreText(Build[build].tools)
  /\ call' = [call EXCEPT !.step = "summary", !.recipe = Append(@, Tools(Len(texts) + 1))]
  /\ UNCHANGED <<streamVars, rows, summaries, inferences, kept, build>>

(* then history_segments reads the summary, and after it the newest row.   *)
(* The fallback measures the context it has made in the same way.          *)
ReadSummary ==
  /\ call.kind \in {"turn", "measure"} /\ call.step = "summary"
  /\ call' = [call EXCEPT !.step = "range", !.recipe = @ \o Summary, !.first = Covered + 1]
  /\ UNCHANGED <<streamVars, storeVars, build>>

FromTheStart(first)  == 1                      \* faulty: summarized rows are sent raw, too
AfterSummary(first)  == first

ReadNewest ==
  /\ call.kind \in {"turn", "measure"} /\ call.step = "range"
  /\ LET first == AfterSummary(call.first) IN
     call' = [call EXCEPT !.step = "ask", !.first = 0,
                          !.recipe = IF first <= Len(rows)
                                     THEN Append(@, Messages(first, Len(rows))) ELSE @]
  /\ UNCHANGED <<streamVars, storeVars, build>>

(* summary_segments: the compaction prompt, the summary before it and the  *)
(* rows up to the tail, if any are left.                                   *)
SummarySegments(kind, keep) ==
  LET split == TailSplit(keep) IN
  IF split > Covered
  THEN [NoCall EXCEPT !.kind = kind, !.step = "ask", !.first = keep, !.split = split,
          !.recipe = <<Text(Len(texts) + 1)>> \o Summary \o <<Messages(Covered + 1, split)>>]
  ELSE [NoCall EXCEPT !.kind = kind, !.step = "nothing"]

BeginSummary ==
  /\ call = NoCall /\ kept # NoJob /\ stream = "off"
  /\ Len(inferences) < MaxInferences
  /\ Len(texts) < MaxTexts /\ StoreText(Summarize)
  /\ call' = SummarySegments("summary", KeepTail)
  /\ UNCHANGED <<streamVars, rows, summaries, inferences, kept, build>>

(* run_fallback, after the summary's request was rejected for its size:    *)
(* one pass after the other,                                               *)
Fallback(keep) == [NoCall EXCEPT !.kind = "pass", !.step = "split", !.first = keep]

BeginPass ==
  /\ call.kind = "pass" /\ call.step = "split"
  /\ Len(inferences) < MaxInferences
  /\ Len(texts) < MaxTexts /\ StoreText(Summarize)
  /\ call' = SummarySegments("pass", call.first)
  /\ UNCHANGED <<streamVars, rows, summaries, inferences, kept, build>>

(* with a longer tail when the pass is measured as too large for a request.*)
GrowTail ==
  /\ call.kind = "pass" /\ call.step = "ask"
  /\ call' = Fallback(call.first + 1)
  /\ UNCHANGED <<streamVars, storeVars, build>>

(* run_replay, in another process: the recorded recipe is asked again.     *)
BeginReplay ==
  /\ call = NoCall /\ stream = "off"
  /\ Len(inferences) < MaxInferences
  /\ \E k \in DOMAIN inferences :
       call' = [NoCall EXCEPT !.kind = "replay", !.step = "ask", !.recipe = inferences[k].recipe]
  /\ UNCHANGED <<streamVars, storeVars, build>>

-----------------------------------------------------------------------------
(* complete_recipe: the request is read, sent and then recorded with its   *)
(* outcome.                                                                *)
Ask ==
  /\ call.step = "ask" /\ call.kind # "measure"
  /\ OpenStream
  /\ call' = [call EXCEPT !.step = "sent", !.request = Request(call.recipe)]
  /\ UNCHANGED <<storeVars, build>>

Receive ==
  /\ StreamStep
  /\ UNCHANGED <<storeVars, build, call>>

LeaveStream == UNCHANGED streamVars            \* faulty: the answer is left to be taken again
CloseStream == EndStream("off")

Failed == [content |-> <<>>, reasoning |-> <<>>, calls |-> <<>>]

OfKind(recipe, kinds)  == InOrder(recipe, {k \in DOMAIN recipe : recipe[k].kind \in kinds})
TextOnly(recipe)       == OfKind(recipe, {"text"})       \* faulty: the tools are dropped
StaticSegments(recipe) == OfKind(recipe, {"text", "tools"})

Job == [recipe |-> StaticSegments(call.recipe), sent |-> call.request]

(* A rejection for its size makes a compaction owed, and the turn asks     *)
(* again when that is done; a summary's begins the fallback.               *)
RecordError ==
  /\ call.step = "sent" /\ stream = "failed"
  /\ inferences' = Append(inferences,
       [recipe |-> call.recipe, sent |-> call.request, outcome |-> Failed])
  /\ \/ UNCHANGED kept /\ call' = NoCall
     \/ call.kind = "turn" /\ kept' = Job /\ call' = NoCall
     \/ call.kind = "summary" /\ UNCHANGED kept /\ call' = Fallback(KeepTail)
  /\ CloseStream
  /\ UNCHANGED <<texts, rows, summaries, build>>

Record ==
  /\ call.step = "sent" /\ stream = "done"
  /\ inferences' = Append(inferences,
       [recipe |-> call.recipe, sent |-> call.request, outcome |-> Response])
  /\ call' = [call EXCEPT !.step = "recorded", !.response = Response]
  /\ CloseStream
  /\ UNCHANGED <<texts, rows, summaries, kept, build>>

AppendRow(role, body) ==
  /\ Len(rows) < MaxRows
  /\ rows' = Append(rows, [role |-> role, body |-> body])

(* append_reply_and_enqueue_compaction *)
StoreReply ==
  /\ call.kind = "turn" /\ call.step = "recorded" /\ call.response.calls = <<>>
  /\ AppendRow("assistant", call.response.content)
  /\ kept' \in {kept, Job}
  /\ call' = NoCall
  /\ UNCHANGED <<streamVars, texts, summaries, inferences, build>>

(* The message with the calls, and one result after the other; then the    *)
(* next request is put together.                                           *)
StoreCalls ==
  /\ call.kind = "turn" /\ call.step = "recorded" /\ call.response.calls # <<>>
  /\ AppendRow("assistant", call.response.calls)
  /\ call' = [NoCall EXCEPT !.kind = "turn", !.step = "results", !.todo = call.response.calls]
  /\ UNCHANGED <<streamVars, texts, summaries, inferences, kept, build>>

StoreResult ==
  /\ call.step = "results"
  /\ AppendRow("tool", Head(call.todo).id)
  /\ call' = IF Len(call.todo) = 1 THEN NoCall ELSE [call EXCEPT !.todo = Tail(@)]
  /\ UNCHANGED <<streamVars, texts, summaries, inferences, kept, build>>

SummaryRow == [covers |-> call.split, content |-> call.response.content,
               inference |-> Len(inferences)]

(* finish_compaction: the summary and the end of the job are one           *)
(* transaction.                                                            *)
StoreSummary ==
  /\ call.kind = "summary" /\ call.step = "recorded" /\ call.response.calls = <<>>
  /\ summaries' = Append(summaries, SummaryRow)
  /\ kept' = NoJob
  /\ call' = NoCall
  /\ UNCHANGED <<streamVars, texts, rows, inferences, build>>

(* append_summary: the job stays until the context that follows from the   *)
(* summary, put together with what the job has kept, is measured.          *)
StorePass ==
  /\ call.kind = "pass" /\ call.step = "recorded" /\ call.response.calls = <<>>
  /\ summaries' = Append(summaries, SummaryRow)
  /\ call' = [NoCall EXCEPT !.kind = "measure", !.step = "summary", !.recipe = kept.recipe]
  /\ UNCHANGED <<streamVars, texts, rows, inferences, kept, build>>

Measure ==
  /\ call.kind = "measure" /\ call.step = "ask"
  /\ call' = [call EXCEPT !.step = "measured", !.request = Request(call.recipe)]
  /\ UNCHANGED <<streamVars, storeVars, build>>

(* Measured as small, or nothing was left to summarize: the job ends.      *)
Retire ==
  /\ \/ call.kind = "summary" /\ call.step = "nothing"
     \/ call.kind = "measure" /\ call.step = "measured"
  /\ kept' = NoJob
  /\ call' = NoCall
  /\ UNCHANGED <<streamVars, texts, rows, summaries, inferences, build>>

(* Measured as smaller than before but not small.                          *)
NextPass ==
  /\ call.kind = "measure" /\ call.step = "measured"
  /\ call' = Fallback(KeepTail)
  /\ UNCHANGED <<streamVars, storeVars, build>>

(* Nothing left for a pass, measuring fails, or the context is no smaller. *)
GiveUp ==
  /\ \/ call.kind = "pass" /\ call.step \in {"nothing", "ask"}
     \/ call.kind = "measure" /\ call.step \in {"ask", "measured"}
  /\ call' = NoCall
  /\ UNCHANGED <<streamVars, storeVars, build>>

(* A summary that calls tools is refused; a replay is only shown. *)
Discard ==
  /\ call.step = "recorded"
  /\ call.kind = "replay" \/ (call.kind \in {"summary", "pass"} /\ call.response.calls # <<>>)
  /\ call' = NoCall
  /\ UNCHANGED <<streamVars, storeVars, build>>

(* A player's message, or the narration of another player's action.        *)
Write ==
  /\ AppendRow("system", Len(rows))
  /\ UNCHANGED <<streamVars, texts, summaries, inferences, kept, build, call>>

Restart ==
  /\ call # NoCall
  /\ call' = NoCall /\ build' \in {build, build + 1} \cap DOMAIN Build
  /\ CloseStream
  /\ UNCHANGED storeVars

Next ==
  \/ BeginTurn \/ StoreTools \/ ReadSummary \/ ReadNewest
  \/ BeginSummary \/ BeginPass \/ GrowTail \/ BeginReplay
  \/ Ask \/ Receive \/ RecordError \/ Record
  \/ StoreReply \/ StoreCalls \/ StoreResult \/ StoreSummary
  \/ StorePass \/ Measure \/ Retire \/ NextPass \/ GiveUp \/ Discard
  \/ Write \/ Restart

Spec == Init /\ [][Next]_vars

-----------------------------------------------------------------------------
(* The stream is open while a request is out and only then; a recipe       *)
(* refers to rows that exist.                                              *)
TypeOK ==
  /\ stream \in {"off", "open", "done", "failed"}
  /\ stream # "off" <=> call.step = "sent"
  /\ \A k \in DOMAIN inferences : \A s \in {inferences[k].recipe[j] : j \in DOMAIN inferences[k].recipe} :
       CASE s.kind \in {"text", "tools"} -> s.id \in DOMAIN texts
         [] s.kind = "summary"           -> s.id \in DOMAIN summaries
         [] OTHER                        -> 1 <= s.first /\ s.first <= s.last /\ s.last <= Len(rows)

(* Whatever was recorded can be rebuilt to the letter: no later message,   *)
(* summary, prompt or replay changes what its recipe stands for.           *)
ReplayIsExact ==
  \A k \in DOMAIN inferences : Request(inferences[k].recipe) = inferences[k].sent

(* Every request goes on with the first row its summary does not cover,    *)
(* and every summary is the answer to a recorded request that ended with   *)
(* the last row it covers.                                                 *)
RecipesConnect ==
  /\ \A k \in DOMAIN inferences :
       LET recipe == inferences[k].recipe
           before == {summaries[recipe[j].id].covers : j \in {i \in DOMAIN recipe : recipe[i].kind = "summary"}}
       IN \A j \in DOMAIN recipe : recipe[j].kind = "messages" =>
            IF before = {} THEN recipe[j].first = 1 ELSE {recipe[j].first - 1} = before
  /\ \A k \in DOMAIN summaries :
       LET record == inferences[summaries[k].inference]
       IN /\ record.outcome.content = summaries[k].content
          /\ record.recipe[Len(record.recipe)].last = summaries[k].covers

(* What the fallback measures is what the agent would be sent next: the    *)
(* static prompt and the tools of the very request the compaction is owed  *)
(* for, even if the program has others by now, then the newest summary,    *)
(* then rows from the first one it does not cover.                         *)
MeasuredAsSent ==
  call.step = "measured" =>
    \E last \in Covered..Len(rows) :
      call.request = [messages |-> <<kept.sent.messages[1], summaries[LatestSummary].content>>
                                     \o SubSeq(rows, Covered + 1, last),
                      tools    |-> kept.sent.tools]
=============================================================================
