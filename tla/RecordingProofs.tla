--------------------------- MODULE RecordingProofs ---------------------------
(***************************************************************************)
(* Theorems about Recording and, with it, Streaming: for any answers, any  *)
(* prompts and any number of rows.                                         *)
(***************************************************************************)
EXTENDS Recording, TLAPS, SequenceTheorems, FiniteSetTheorems

-----------------------------------------------------------------------------
(* Lists, whatever they hold. *)
Entries(s) == {s[k] : k \in DOMAIN s}
IsList(s)  == s \in Seq(Entries(s))

LEMMA ListFacts ==
  ASSUME NEW s, IsList(s)
  PROVE  Len(s) \in Nat /\ DOMAIN s = 1..Len(s)
BY DEF IsList

LEMMA SeqIsList ==
  ASSUME NEW S, NEW s \in Seq(S)
  PROVE  IsList(s)
<1>1. /\ Len(s) \in Nat /\ DOMAIN s = 1..Len(s) /\ s = [k \in 1..Len(s) |-> s[k]]
  OBVIOUS
<1>2. \A k \in 1..Len(s) : s[k] \in Entries(s)
  BY <1>1 DEF Entries
<1> QED BY <1>1, <1>2, IsASeq DEF IsList

LEMMA FunctionIsSeq ==
  ASSUME NEW S, NEW n \in Nat, NEW f, f = [k \in 1..n |-> f[k]], \A k \in 1..n : f[k] \in S
  PROVE  f \in Seq(S) /\ Len(f) = n
<1>1. f \in Seq(S)
  BY IsASeq
<1> QED BY <1>1

(* What comes first stays first. *)
LEMMA FirstStays ==
  ASSUME NEW S, NEW s \in Seq(S), NEW t \in Seq(S), Len(s) >= 1
  PROVE  s \o t \in Seq(S) /\ Len(s \o t) >= 1 /\ (s \o t)[1] = s[1]
<1>1. /\ s \o t \in Seq(S) /\ Len(s \o t) = Len(s) + Len(t) /\ Len(s) \in Nat /\ Len(t) \in Nat
  OBVIOUS
<1>2. 1 \in 1..Len(s)
  BY <1>1
<1>3. (s \o t)[1] = s[1]
  BY <1>1, <1>2, ConcatProperties
<1> QED BY <1>1, <1>3

(* An entry is added at the end, and what was there stays. *)
LEMMA AppendFacts ==
  ASSUME NEW s, IsList(s), NEW x
  PROVE  /\ IsList(Append(s, x))
         /\ Len(Append(s, x)) = Len(s) + 1
         /\ \A k \in 1..Len(s) : Append(s, x)[k] = s[k]
         /\ Append(s, x)[Len(s) + 1] = x
<1> DEFINE S == Entries(s) \cup {x}
<1>1. Entries(s) \subseteq S
  OBVIOUS
<1>2. s \in Seq(S)
  BY <1>1, SeqMonotonic DEF IsList
<1>3. Append(s, x) \in Seq(S)
  BY <1>2
<1>4. IsList(Append(s, x))
  BY <1>3, SeqIsList
<1> HIDE DEF S
<1> QED BY <1>2, <1>4, ListFacts

(* Tuples, grown by an entry. *)
LEMMA Pair ==
  ASSUME NEW S, NEW t \in Seq(S), Len(t) = 2, NEW a, NEW b,
         t[1] = a, t[2] = b
  PROVE  t = <<a, b>>
<1>1. t = [k \in 1..2 |-> t[k]]
  OBVIOUS
<1>2. <<a, b>> = [k \in 1..2 |-> IF k = 1 THEN a ELSE b]
  OBVIOUS
<1> QED BY <1>1, <1>2

LEMMA Triple ==
  ASSUME NEW S, NEW t \in Seq(S), Len(t) = 3, NEW a, NEW b, NEW c,
         t[1] = a, t[2] = b, t[3] = c
  PROVE  t = <<a, b, c>>
<1>1. t = [k \in 1..3 |-> t[k]]
  OBVIOUS
<1>2. <<a, b, c>> = [k \in 1..3 |-> IF k = 1 THEN a ELSE IF k = 2 THEN b ELSE c]
  OBVIOUS
<1> QED BY <1>1, <1>2

LEMMA Quadruple ==
  ASSUME NEW S, NEW t \in Seq(S), Len(t) = 4, NEW a, NEW b, NEW c, NEW d,
         t[1] = a, t[2] = b, t[3] = c, t[4] = d
  PROVE  t = <<a, b, c, d>>
<1>1. t = [k \in 1..4 |-> t[k]]
  OBVIOUS
<1>2. <<a, b, c, d>> = [k \in 1..4 |-> IF k = 1 THEN a ELSE IF k = 2 THEN b ELSE IF k = 3 THEN c ELSE d]
  OBVIOUS
<1> QED BY <1>1, <1>2

LEMMA Appended ==
  ASSUME NEW S, NEW s \in Seq(S), NEW x \in S, NEW t, t = Append(s, x)
  PROVE  /\ t \in Seq(S) /\ Len(t) = Len(s) + 1
         /\ \A k \in 1..Len(s) : t[k] = s[k]
         /\ t[Len(s) + 1] = x
OBVIOUS

LEMMA AppendTo1 ==
  ASSUME NEW S, NEW s \in Seq(S), Len(s) = 1, NEW x \in S
  PROVE  Append(s, x) = <<s[1], x>>
<1>1. PICK t : t = Append(s, x)
  OBVIOUS
<1>2. /\ t \in Seq(S) /\ Len(t) = Len(s) + 1
      /\ \A k \in 1..Len(s) : t[k] = s[k]
      /\ t[Len(s) + 1] = x
  BY <1>1, Appended
<1>3. 1 \in 1..Len(s) /\ Len(s) + 1 = 2
  OBVIOUS
<1>4. Len(t) = 2 /\ t[1] = s[1] /\ t[2] = x
  BY <1>2, <1>3
<1>5. t = <<s[1], x>>
  BY <1>2, <1>4, Pair
<1> QED BY <1>1, <1>5

LEMMA AppendTo2 ==
  ASSUME NEW S, NEW s \in Seq(S), Len(s) = 2, NEW x \in S
  PROVE  Append(s, x) = <<s[1], s[2], x>>
<1>1. PICK t : t = Append(s, x)
  OBVIOUS
<1>2. /\ t \in Seq(S) /\ Len(t) = Len(s) + 1
      /\ \A k \in 1..Len(s) : t[k] = s[k]
      /\ t[Len(s) + 1] = x
  BY <1>1, Appended
<1>3. 1 \in 1..Len(s) /\ 2 \in 1..Len(s) /\ Len(s) + 1 = 3
  OBVIOUS
<1>4. Len(t) = 3 /\ t[1] = s[1] /\ t[2] = s[2] /\ t[3] = x
  BY <1>2, <1>3
<1>5. t = <<s[1], s[2], x>>
  BY <1>2, <1>4, Triple
<1> QED BY <1>1, <1>5

LEMMA AppendTo3 ==
  ASSUME NEW S, NEW s \in Seq(S), Len(s) = 3, NEW x \in S
  PROVE  Append(s, x) = <<s[1], s[2], s[3], x>>
<1>1. PICK t : t = Append(s, x)
  OBVIOUS
<1>2. /\ t \in Seq(S) /\ Len(t) = Len(s) + 1
      /\ \A k \in 1..Len(s) : t[k] = s[k]
      /\ t[Len(s) + 1] = x
  BY <1>1, Appended
<1>3. 1 \in 1..Len(s) /\ 2 \in 1..Len(s) /\ 3 \in 1..Len(s) /\ Len(s) + 1 = 4
  OBVIOUS
<1>4. Len(t) = 4 /\ t[1] = s[1] /\ t[2] = s[2] /\ t[3] = s[3] /\ t[4] = x
  BY <1>2, <1>3
<1>5. t = <<s[1], s[2], s[3], x>>
  BY <1>2, <1>4, Quadruple
<1> QED BY <1>1, <1>5

LEMMA Tuples ==
  ASSUME NEW a, NEW b, NEW c
  PROVE  /\ Append(<<a>>, b) = <<a, b>>
         /\ Append(<<a, b>>, c) = <<a, b, c>>
         /\ <<a>> \o <<b>> = <<a, b>>
         /\ <<a, b>> \o <<c>> = <<a, b, c>>
         /\ <<a>> \o <<>> = <<a>> /\ <<a, b>> \o <<>> = <<a, b>>
         /\ <<a>> \o <<>> \o <<b>> = <<a, b>>
         /\ <<a>> \o <<b>> \o <<c>> = <<a, b, c>>
<1> DEFINE S     == {a, b, c}
           one   == <<a>>
           two   == <<a, b>>
<1>1. a \in S /\ b \in S /\ c \in S
  OBVIOUS
<1> HIDE DEF S
<1>2. one \in Seq(S) /\ Len(one) = 1 /\ one[1] = a
  BY <1>1
<1>3. two \in Seq(S) /\ Len(two) = 2 /\ two[1] = a /\ two[2] = b
  BY <1>1
<1> HIDE DEF one, two
<1>4. Append(one, b) = <<a, b>> /\ Append(two, c) = <<a, b, c>>
  BY <1>1, <1>2, <1>3, AppendTo1, AppendTo2
<1>5. Append(one, b) = one \o <<b>> /\ Append(two, c) = two \o <<c>>
  BY <1>1, <1>2, <1>3, AppendIsConcat
<1>6. one \o <<>> = one /\ two \o <<>> = two
  BY <1>2, <1>3, ConcatEmptySeq
<1> QED BY <1>4, <1>5, <1>6, Zenon DEF one, two

LEMMA ThreeAndOne ==
  ASSUME NEW a, NEW b, NEW c, NEW d
  PROVE  Append(<<a, b, c>>, d) = <<a, b, c, d>>
<1> DEFINE S     == {a, b, c, d}
           three == <<a, b, c>>
<1>1. a \in S /\ b \in S /\ c \in S /\ d \in S
  OBVIOUS
<1> HIDE DEF S
<1>2. three \in Seq(S) /\ Len(three) = 3 /\ three[1] = a /\ three[2] = b /\ three[3] = c
  BY <1>1
<1> HIDE DEF three
<1>3. Append(three, d) = <<a, b, c, d>>
  BY <1>1, <1>2, AppendTo3
<1> QED BY <1>3, Zenon DEF three

-----------------------------------------------------------------------------
(* InOrder goes through the members of a set in ascending order: through   *)
(* those of 1..n one by one.                                               *)

LEMMA RankOfNumber ==
  ASSUME NEW n \in Nat, NEW i \in 1..n
  PROVE  Cardinality({j \in 1..n : j <= i}) = i
<1>1. {j \in 1..n : j <= i} = 1..i
  OBVIOUS
<1>2. Cardinality(1..i) = i
  BY FS_Interval
<1> QED BY <1>1, <1>2

LEMMA InOrderWhole ==
  ASSUME NEW n \in Nat, NEW f
  PROVE  InOrder(f, 1..n) = [k \in 1..n |-> f[k]]
<1>1. Cardinality(1..n) = n
  BY FS_Interval
<1>2. \A k \in 1..n : (CHOOSE i \in 1..n : Cardinality({j \in 1..n : j <= i}) = k) = k
  BY RankOfNumber
<1>3. InOrder(f, 1..n)
        = [k \in 1..n |-> f[CHOOSE i \in 1..n : Cardinality({j \in 1..n : j <= i}) = k]]
  BY <1>1 DEF InOrder
<1> QED BY <1>2, <1>3

-----------------------------------------------------------------------------
(* The texts of an answer arrive in pieces and are joined again. *)

LEMMA PieceJoins ==
  ASSUME NEW got \in Seq(Piece), NEW text \in Seq(Piece), NEW piece \in Cut(text)
  PROVE  /\ piece \in Seq(Piece) /\ got \o piece \in Seq(Piece) /\ Rest(text, piece) \in Seq(Piece)
         /\ (got \o piece) \o Rest(text, piece) = got \o text
<1>1. CASE piece = <<>>
  <2>1. Rest(text, piece) = text
    BY <1>1, SubSeqFull DEF Rest
  <2> QED BY <1>1, <2>1
<1>2. CASE text # <<>> /\ piece = <<Head(text)>>
  <2>1. Rest(text, piece) = Tail(text) /\ Head(text) \in Piece /\ Tail(text) \in Seq(Piece)
    BY <1>2, TailIsSubSeq, HeadTailProperties DEF Rest
  <2>2. piece \in Seq(Piece)
    BY <1>2, <2>1
  <2>3. piece \o Tail(text) = text
    BY <1>2, <2>1, <2>2
  <2>4. (got \o piece) \o Tail(text) = got \o (piece \o Tail(text))
    BY <2>1, <2>2, ConcatAssociative
  <2>5. got \o piece \in Seq(Piece)
    BY <2>2
  <2> QED BY <2>1, <2>2, <2>3, <2>4, <2>5
<1> QED BY <1>1, <1>2 DEF Cut

-----------------------------------------------------------------------------
(* While a stream is open, what was collected and what is left make up the *)
(* answer, text by text and call by call.                                  *)
CallSet == [id : CallId, name : ToolName, arguments : Seq(Piece)]

Matches(k) ==
  /\ calls[k].id = answer.calls[k].id /\ calls[k].name = answer.calls[k].name
  /\ calls[k].arguments \o left.calls[k].arguments = answer.calls[k].arguments

Collected ==
  /\ answer \in Answer
  /\ left \in [text : Seq(Piece), reasoning : Seq(Piece), calls : Seq(CallSet)]
  /\ DOMAIN left.calls = DOMAIN answer.calls
  /\ content \in Seq(Piece) /\ content \o left.text = answer.text
  /\ reasoning \in Seq(Piece) /\ reasoning \o left.reasoning = answer.reasoning
  /\ begun \subseteq DOMAIN answer.calls
  /\ calls \in [begun -> CallSet]
  /\ \A k \in begun : Matches(k)
  /\ \A k \in DOMAIN answer.calls \ begun : left.calls[k].arguments = answer.calls[k].arguments

StreamInv ==
  /\ stream \in {"off", "open", "done", "failed"}
  /\ stream \in {"open", "done"} => Collected
  /\ stream = "done" => ~Unsaid

LEMMA AnswerFacts ==
  ASSUME NEW a \in Answer
  PROVE  a \in [text : Seq(Piece), reasoning : Seq(Piece), calls : Seq(CallSet)]
BY AnswerAssumption DEF CallSet

LEMMA Opened ==
  ASSUME OpenStream
  PROVE  StreamInv' /\ stream' = "open"
<1>1. PICK a \in Answer :
        /\ answer' = a /\ left' = a /\ begun' = {}
        /\ content' = <<>> /\ reasoning' = <<>> /\ calls' = NoCalls
        /\ stream' = "open"
  BY DEF OpenStream
<1>2. a.text \in Seq(Piece) /\ a.reasoning \in Seq(Piece)
  BY AnswerFacts
<1>3. <<>> \o a.text = a.text /\ <<>> \o a.reasoning = a.reasoning
  BY <1>2, ConcatEmptySeq
<1>4. NoCalls \in [{} -> CallSet]
  BY DEF NoCalls
<1>5. Collected'
  BY <1>1, <1>2, <1>3, <1>4, AnswerFacts DEF Collected
<1> QED BY <1>1, <1>5 DEF StreamInv

LEMMA Ended ==
  ASSUME NEW how \in {"off", "failed"}, EndStream(how)
  PROVE  StreamInv' /\ stream' = how
BY DEF EndStream, StreamInv

(* A delta of a call adds to that call and to no other. *)
LEMMA DeltaKept ==
  ASSUME Collected, NEW k \in DOMAIN answer.calls, NEW delta \in Deltas(k), ~Refused(delta)
  PROVE  LET new == AfterDelta(delta) IN
         /\ new \in [begun \cup {k} -> CallSet]
         /\ \A i \in begun \ {k} : new[i] = calls[i]
         /\ new[k].id = answer.calls[k].id /\ new[k].name = answer.calls[k].name
         /\ new[k].arguments \o Rest(left.calls[k].arguments, delta.arguments)
              = answer.calls[k].arguments
<1> DEFINE args == left.calls[k].arguments
           new  == AfterDelta(delta)
<1>1. left.calls \in Seq(CallSet) /\ left.calls[k] \in CallSet /\ args \in Seq(Piece)
  <2>1. left.calls \in Seq(CallSet) /\ k \in DOMAIN left.calls
    BY DEF Collected
  <2>2. left.calls[k] \in CallSet
    BY <2>1
  <2> QED BY <2>1, <2>2 DEF CallSet
<1>2. answer.calls[k] \in CallSet
  <2>1. answer.calls \in Seq(CallSet)
    BY AnswerFacts DEF Collected
  <2> QED BY <2>1
<1>3. /\ delta.index = k /\ delta.id = answer.calls[k].id
      /\ delta.name = answer.calls[k].name \/ (k \in begun /\ delta.name = "")
      /\ delta.arguments \in Cut(args)
  <2>1. /\ delta.index = k /\ delta.id = answer.calls[k].id
        /\ delta.name \in {answer.calls[k].name} \cup (IF k \in begun THEN {""} ELSE {})
        /\ delta.arguments \in Cut(args)
    BY DEF Deltas
  <2> HIDE DEF args
  <2> QED BY <2>1
<1>4. DOMAIN calls = begun
  BY DEF Collected
<1> HIDE DEF args
<1>5. CASE k \in begun
  <2>1. calls[k] \in CallSet /\ Matches(k)
    BY <1>5 DEF Collected
  <2>2. new = [calls EXCEPT ![k].arguments = @ \o delta.arguments]
    BY <1>3, <1>4, <1>5 DEF AfterDelta, AppendToolDelta
  <2>3. calls[k].arguments \in Seq(Piece)
    BY <2>1 DEF CallSet
  <2>4. /\ calls[k].arguments \o delta.arguments \in Seq(Piece)
        /\ (calls[k].arguments \o delta.arguments) \o Rest(args, delta.arguments)
             = calls[k].arguments \o args
    BY <2>3, <1>1, <1>3, PieceJoins
  <2>5. /\ calls[k].id = answer.calls[k].id /\ calls[k].name = answer.calls[k].name
        /\ calls[k].arguments \o args = answer.calls[k].arguments
    BY <2>1 DEF Matches, args
  <2> DEFINE joined == calls[k].arguments \o delta.arguments
  <2>6. new[k] = [calls[k] EXCEPT !.arguments = joined]
    BY <2>2, <1>4, <1>5
  <2> HIDE DEF joined, new
  <2>7. joined \in Seq(Piece) /\ joined \o Rest(args, delta.arguments) = calls[k].arguments \o args
    BY <2>4 DEF joined
  <2>8. new[k] \in CallSet /\ new[k].id = calls[k].id /\ new[k].name = calls[k].name
        /\ new[k].arguments = joined
    BY <2>6, <2>7, <2>1 DEF CallSet
  <2>9. /\ calls \in [begun -> CallSet]
        /\ DOMAIN new = begun /\ \A i \in begun \ {k} : new[i] = calls[i]
        /\ new = [i \in begun |-> new[i]]
    BY <2>2, <1>4 DEF new, Collected
  <2>10. new \in [begun \cup {k} -> CallSet]
    BY <2>8, <2>9, <1>5
  <2> QED BY <2>5, <2>7, <2>8, <2>9, <2>10 DEF args, new
<1>6. CASE k \notin begun
  <2>1. args = answer.calls[k].arguments /\ delta.name = answer.calls[k].name
    BY <1>3, <1>6 DEF Collected, args
  <2>2. new = [i \in begun \cup {k} |->
                 IF i \in begun THEN calls[i]
                 ELSE [id |-> delta.id, name |-> delta.name, arguments |-> delta.arguments]]
    BY <1>3, <1>4, <1>6 DEF AfterDelta, AppendToolDelta
  <2>3. <<>> \in Seq(Piece) /\ <<>> \o delta.arguments = delta.arguments /\ <<>> \o args = args
        /\ delta.arguments \in Seq(Piece)
    <3>1. delta.arguments \in Seq(Piece)
      BY <1>1, <1>3, PieceJoins
    <3> QED BY <3>1, <1>1, ConcatEmptySeq
  <2>4. delta.arguments \o Rest(args, delta.arguments) = args
    <3>1. (<<>> \o delta.arguments) \o Rest(args, delta.arguments) = <<>> \o args
      BY <1>1, <1>3, <2>3, PieceJoins
    <3> QED BY <3>1, <2>3
  <2>5. [id |-> delta.id, name |-> delta.name, arguments |-> delta.arguments] \in CallSet
    <3>1. delta.id \in CallId /\ delta.name \in ToolName
      BY <1>2, <1>3, <2>1 DEF CallSet
    <3> QED BY <3>1, <2>3 DEF CallSet
  <2>6. calls \in [begun -> CallSet]
    BY DEF Collected
  <2> DEFINE first == [id |-> delta.id, name |-> delta.name, arguments |-> delta.arguments]
  <2>7. first.id = delta.id /\ first.name = delta.name /\ first.arguments = delta.arguments
    OBVIOUS
  <2> HIDE DEF new, first
  <2>8. new[k] = first /\ \A i \in begun : new[i] = calls[i]
    BY <2>2, <1>6 DEF first
  <2>9. new \in [begun \cup {k} -> CallSet]
    BY <2>2, <2>5, <2>6 DEF first
  <2> QED BY <1>3, <1>6, <2>1, <2>4, <2>7, <2>8, <2>9 DEF new, args
<1> QED BY <1>5, <1>6

(* A chunk moves pieces from what is left to what is collected. *)
LEMMA ChunkCollects ==
  ASSUME Collected, Chunk
  PROVE  StreamInv' /\ stream' \in {"open", "done"}
<1>1. PICK prose \in Cut(left.text), thought \in Cut(left.reasoning) :
        /\ content' = content \o prose
        /\ reasoning' = reasoning \o thought
        /\ \/ /\ left' = [left EXCEPT !.text = Rest(@, prose), !.reasoning = Rest(@, thought)]
              /\ UNCHANGED <<calls, begun>>
           \/ \E k \in DOMAIN answer.calls : \E delta \in Deltas(k) :
                /\ left' = [left EXCEPT !.text = Rest(@, prose), !.reasoning = Rest(@, thought),
                                        !.calls[k].arguments = Rest(@, delta.arguments)]
                /\ begun' = begun \cup {k}
                /\ ~Refused(delta)
                /\ calls' = AfterDelta(delta)
  BY DEF Chunk
<1>2. answer' = answer /\ stream' \in {"open", "done"} /\ (stream' = "done" => ~Unsaid')
  BY DEF Chunk
<1>3. /\ left \in [text : Seq(Piece), reasoning : Seq(Piece), calls : Seq(CallSet)]
      /\ left.text \in Seq(Piece) /\ left.reasoning \in Seq(Piece) /\ left.calls \in Seq(CallSet)
      /\ DOMAIN left.calls = DOMAIN answer.calls
  BY DEF Collected
<1>4. /\ Rest(left.text, prose) \in Seq(Piece) /\ Rest(left.reasoning, thought) \in Seq(Piece)
      /\ content \o prose \in Seq(Piece) /\ reasoning \o thought \in Seq(Piece)
      /\ (content \o prose) \o Rest(left.text, prose) = answer.text
      /\ (reasoning \o thought) \o Rest(left.reasoning, thought) = answer.reasoning
  <2>1. /\ content \in Seq(Piece) /\ content \o left.text = answer.text
        /\ reasoning \in Seq(Piece) /\ reasoning \o left.reasoning = answer.reasoning
    BY DEF Collected
  <2> QED BY <2>1, <1>3, PieceJoins
<1>5. Collected'
  <2>1. CASE /\ left' = [left EXCEPT !.text = Rest(@, prose), !.reasoning = Rest(@, thought)]
             /\ UNCHANGED <<calls, begun>>
    <3>1. /\ left' \in [text : Seq(Piece), reasoning : Seq(Piece), calls : Seq(CallSet)]
          /\ left'.text = Rest(left.text, prose) /\ left'.reasoning = Rest(left.reasoning, thought)
          /\ left'.calls = left.calls
      BY <2>1, <1>3, <1>4
    <3> QED BY <3>1, <2>1, <1>1, <1>2, <1>4 DEF Collected, Matches
  <2>2. CASE \E k \in DOMAIN answer.calls : \E delta \in Deltas(k) :
               /\ left' = [left EXCEPT !.text = Rest(@, prose), !.reasoning = Rest(@, thought),
                                       !.calls[k].arguments = Rest(@, delta.arguments)]
               /\ begun' = begun \cup {k}
               /\ ~Refused(delta)
               /\ calls' = AfterDelta(delta)
    <3>1. PICK k \in DOMAIN answer.calls : \E delta \in Deltas(k) :
               /\ left' = [left EXCEPT !.text = Rest(@, prose), !.reasoning = Rest(@, thought),
                                       !.calls[k].arguments = Rest(@, delta.arguments)]
               /\ begun' = begun \cup {k}
               /\ ~Refused(delta)
               /\ calls' = AfterDelta(delta)
      BY <2>2
    <3>2. PICK delta \in Deltas(k) :
               /\ left' = [left EXCEPT !.text = Rest(@, prose), !.reasoning = Rest(@, thought),
                                       !.calls[k].arguments = Rest(@, delta.arguments)]
               /\ begun' = begun \cup {k}
               /\ ~Refused(delta)
               /\ calls' = AfterDelta(delta)
      BY <3>1
    <3> DEFINE args == Rest(left.calls[k].arguments, delta.arguments)
    <3>3. args \in Seq(Piece)
      <4>1. left.calls[k] \in CallSet
        BY <1>3
      <4>2. delta.arguments \in Cut(left.calls[k].arguments)
        BY DEF Deltas
      <4>3. left.calls[k].arguments \in Seq(Piece)
        BY <4>1 DEF CallSet
      <4> HIDE DEF args
      <4> QED BY <4>2, <4>3, PieceJoins DEF args
    <3>4. /\ left'.text = Rest(left.text, prose) /\ left'.reasoning = Rest(left.reasoning, thought)
          /\ left'.calls = [left.calls EXCEPT ![k].arguments = args]
          /\ left' \in [text : Seq(Piece), reasoning : Seq(Piece), calls : {left'.calls}]
      BY <3>2, <1>3, <1>4
    <3> HIDE DEF args
    <3>5. /\ left'.calls \in Seq(CallSet) /\ DOMAIN left'.calls = DOMAIN left.calls
          /\ left'.calls[k].arguments = args
          /\ \A i \in DOMAIN left.calls \ {k} : left'.calls[i] = left.calls[i]
      <4>1. left.calls[k] \in CallSet
        BY <1>3
      <4> DEFINE call1 == [left.calls[k] EXCEPT !.arguments = args]
      <4>2. call1 \in CallSet /\ call1.arguments = args
        BY <4>1, <3>3 DEF CallSet
      <4>3. left'.calls = [left.calls EXCEPT ![k] = call1]
        BY <3>4
      <4> HIDE DEF call1
      <4> QED BY <4>2, <4>3, <1>3
    <3>6. left' \in [text : Seq(Piece), reasoning : Seq(Piece), calls : Seq(CallSet)]
      BY <3>4, <3>5
    <3>7. /\ calls' \in [begun \cup {k} -> CallSet]
          /\ \A i \in begun \ {k} : calls'[i] = calls[i]
          /\ calls'[k].id = answer.calls[k].id /\ calls'[k].name = answer.calls[k].name
          /\ calls'[k].arguments \o args = answer.calls[k].arguments
      BY <3>2, DeltaKept DEF args
    <3>8. \A i \in begun' : Matches(i)'
      <4> TAKE i \in begun'
      <4>1. CASE i = k
        BY <4>1, <3>5, <3>7, <1>2 DEF Matches
      <4>2. CASE i # k
        <5>1. i \in begun /\ Matches(i) /\ i \in DOMAIN left.calls
          BY <4>2, <3>2, <1>3 DEF Collected
        <5>2. calls'[i] = calls[i] /\ left'.calls[i] = left.calls[i]
          BY <4>2, <5>1, <3>5, <3>7
        <5> QED BY <5>1, <5>2, <1>2 DEF Matches
      <4> QED BY <4>1, <4>2
    <3>9. \A i \in DOMAIN answer.calls \ begun' : left'.calls[i].arguments = answer.calls[i].arguments
      BY <3>2, <3>5, <1>3 DEF Collected
    <3> QED BY <1>1, <1>2, <1>3, <1>4, <3>2, <3>4, <3>5, <3>6, <3>7, <3>8, <3>9 DEF Collected
  <2> QED BY <1>1, <2>1, <2>2
<1> QED BY <1>2, <1>5 DEF StreamInv

(* The delta of another call has another id: it is refused. *)
LEMMA WrongDeltaEnds ==
  ASSUME Collected, WrongDelta
  PROVE  StreamInv' /\ stream' = "failed"
<1>0. PICK k \in begun : \E j \in DOMAIN answer.calls \ {k} :
        LET delta == [index |-> k, id |-> answer.calls[j].id, name |-> answer.calls[j].name,
                      arguments |-> SubSeq(answer.calls[j].arguments, 1, 1)]
        IN IF Mixed(delta)
           THEN EndStream("failed")
           ELSE /\ calls' = AppendToolDelta(delta)
                /\ UNCHANGED <<answer, left, begun, content, reasoning, stream>>
  BY DEF WrongDelta
<1>1. PICK j \in DOMAIN answer.calls \ {k} :
        LET delta == [index |-> k, id |-> answer.calls[j].id, name |-> answer.calls[j].name,
                      arguments |-> SubSeq(answer.calls[j].arguments, 1, 1)]
        IN IF Mixed(delta)
           THEN EndStream("failed")
           ELSE /\ calls' = AppendToolDelta(delta)
                /\ UNCHANGED <<answer, left, begun, content, reasoning, stream>>
  BY <1>0
<1> DEFINE delta == [index |-> k, id |-> answer.calls[j].id, name |-> answer.calls[j].name,
                     arguments |-> SubSeq(answer.calls[j].arguments, 1, 1)]
<1>2. delta.index = k /\ delta.id = answer.calls[j].id
  OBVIOUS
<1>3. IF Mixed(delta)
      THEN EndStream("failed")
      ELSE /\ calls' = AppendToolDelta(delta)
           /\ UNCHANGED <<answer, left, begun, content, reasoning, stream>>
  BY <1>1
<1> HIDE DEF delta
<1>4. k \in DOMAIN calls /\ calls[k].id = answer.calls[k].id /\ k \in DOMAIN answer.calls
  BY DEF Collected, Matches
<1>5. answer.calls[j].id # answer.calls[k].id
  BY <1>4, AnswerAssumption DEF Collected
<1>6. Mixed(delta)
  BY <1>2, <1>4, <1>5 DEF Mixed, Refused
<1> QED BY <1>3, <1>6, Ended

LEMMA StreamInvariance ==
  ASSUME StreamInv, StreamStep
  PROVE  StreamInv' /\ stream = "open" /\ stream' \in {"open", "done", "failed"}
<1>1. stream = "open" /\ Collected
  BY DEF StreamStep, Chunk, WrongDelta, StreamFails, StreamInv
<1> QED BY <1>1, ChunkCollects, WrongDeltaEnds, Ended DEF StreamStep, StreamFails

(* Nothing is left when the response is put together. *)
LEMMA Answered ==
  ASSUME StreamInv
  PROVE  ResponseIsAnswer
<1> SUFFICES ASSUME stream = "done"
             PROVE  Response = Assemble(answer.text, answer.reasoning, answer.calls)
  BY DEF ResponseIsAnswer
<1>1. Collected /\ ~Unsaid
  BY DEF StreamInv
<1>2. /\ left.text = <<>> /\ left.reasoning = <<>>
      /\ \A k \in DOMAIN left.calls : left.calls[k].arguments = <<>> /\ k \in begun
  BY <1>1 DEF Unsaid
<1>3. /\ content \in Seq(Piece) /\ content \o left.text = answer.text
      /\ reasoning \in Seq(Piece) /\ reasoning \o left.reasoning = answer.reasoning
  BY <1>1 DEF Collected
<1>4. content = answer.text /\ reasoning = answer.reasoning
  BY <1>2, <1>3, ConcatEmptySeq
<1>5. begun = DOMAIN answer.calls /\ DOMAIN left.calls = DOMAIN answer.calls
  BY <1>1, <1>2 DEF Collected
<1>6. answer.calls \in Seq(CallSet)
  BY <1>1, AnswerFacts DEF Collected
<1>7. PICK n \in Nat : DOMAIN answer.calls = 1..n /\ answer.calls = [k \in 1..n |-> answer.calls[k]]
  BY <1>6
<1>8. calls \in [1..n -> CallSet]
  BY <1>1, <1>5, <1>7 DEF Collected
<1>9. \A k \in 1..n : calls[k] = answer.calls[k]
  <2> TAKE k \in 1..n
  <2>1. calls[k] \in CallSet /\ answer.calls[k] \in CallSet
    BY <1>6, <1>7, <1>8
  <2>2. Matches(k) /\ left.calls[k].arguments = <<>>
    BY <1>1, <1>2, <1>5, <1>7 DEF Collected
  <2>3. calls[k].arguments \in Seq(Piece)
    BY <2>1 DEF CallSet
  <2>4. calls[k].arguments = answer.calls[k].arguments
    BY <2>2, <2>3, ConcatEmptySeq DEF Matches
  <2> QED BY <2>1, <2>2, <2>4 DEF Matches, CallSet
<1>10. calls = answer.calls
  BY <1>7, <1>8, <1>9
<1>11. IntoValues(calls) = answer.calls
  BY <1>7, <1>10, InOrderWhole DEF IntoValues
<1> QED BY <1>4, <1>11 DEF Response

-----------------------------------------------------------------------------
(* A recipe refers to rows there are and goes on with the first row that   *)
(* its summary does not cover; a compaction's ends with the row before the *)
(* tail.                                                                   *)
TurnRecipe(r) ==
  \E i, j \in DOMAIN texts :
    \/ r = <<Text(i), Tools(j)>>
    \/ \E b \in DOMAIN rows : r = <<Text(i), Tools(j), Messages(1, b)>>
    \/ \E k \in DOMAIN summaries :
         \/ r = <<Text(i), Tools(j), SummaryOf(k)>>
         \/ \E b \in DOMAIN rows :
              /\ summaries[k].covers < b
              /\ r = <<Text(i), Tools(j), SummaryOf(k), Messages(summaries[k].covers + 1, b)>>

TaskRecipe(r, split) ==
  /\ split \in DOMAIN rows
  /\ \E i \in DOMAIN texts :
       \/ r = <<Text(i), Messages(1, split)>>
       \/ \E k \in DOMAIN summaries :
            /\ summaries[k].covers < split
            /\ r = <<Text(i), SummaryOf(k), Messages(summaries[k].covers + 1, split)>>

Recipe(r) == TurnRecipe(r) \/ \E split \in DOMAIN rows : TaskRecipe(r, split)

Lists == IsList(texts) /\ IsList(rows) /\ IsList(summaries) /\ IsList(inferences)

(* Every summary covers more than the one before it. *)
SummariesGrow ==
  /\ \A k \in DOMAIN summaries : summaries[k].covers \in DOMAIN rows
  /\ \A j, k \in DOMAIN summaries : j < k => summaries[j].covers < summaries[k].covers

SummariesRecorded ==
  \A k \in DOMAIN summaries :
    LET n == summaries[k].inference IN
    /\ n \in DOMAIN inferences
    /\ inferences[n].outcome.content = summaries[k].content
    /\ TaskRecipe(inferences[n].recipe, summaries[k].covers)

RecordsHold ==
  \A k \in DOMAIN inferences :
    /\ Recipe(inferences[k].recipe)
    /\ inferences[k].sent = Request(inferences[k].recipe)

Assembling ==
  /\ call.step = "tools" => \E i \in DOMAIN texts : call.recipe = <<Text(i)>>
  /\ call.step = "summary" => \E i, j \in DOMAIN texts : call.recipe = <<Text(i), Tools(j)>>
  /\ call.step = "range" =>
       \E i, j \in DOMAIN texts :
         \/ call.recipe = <<Text(i), Tools(j)>> /\ call.first = 1
         \/ \E k \in DOMAIN summaries :
              /\ call.recipe = <<Text(i), Tools(j), SummaryOf(k)>>
              /\ call.first = summaries[k].covers + 1
  /\ call.step \in {"tools", "summary", "range"} => call.kind \in {"turn", "measure"}

Assembled ==
  /\ call.step \in {"ask", "sent", "recorded", "measured"} =>
       /\ Recipe(call.recipe)
       /\ call.kind \in {"turn", "measure"} => TurnRecipe(call.recipe)
       /\ call.kind \in {"summary", "pass"} =>
            TaskRecipe(call.recipe, call.split) /\ Covered < call.split
  /\ call.step \in {"sent", "recorded", "measured"} => call.request = Request(call.recipe)
  /\ call.step = "recorded" /\ call.kind \in {"summary", "pass"} =>
       /\ inferences # <<>>
       /\ inferences[Len(inferences)].recipe = call.recipe
       /\ inferences[Len(inferences)].outcome = call.response

(* A job keeps the prompt and the tools of the request it was made for.    *)
KeepsStatic(i, j) ==
  /\ kept.recipe = <<Text(i), Tools(j)>>
  /\ kept.sent.messages[1] = texts[i] /\ kept.sent.tools = <<texts[j]>>

(* The fallback measures with them and with the newest summary. *)
MeasuredRecipe(i, j, last) ==
  IF Covered < last
  THEN Append(<<Text(i), Tools(j), SummaryOf(Len(summaries))>>, Messages(Covered + 1, last))
  ELSE <<Text(i), Tools(j), SummaryOf(Len(summaries))>>

Measuring(i, j) ==
  /\ KeepsStatic(i, j)
  /\ call.step = "summary" => call.recipe = <<Text(i), Tools(j)>>
  /\ call.step = "range" => /\ call.recipe = <<Text(i), Tools(j), SummaryOf(Len(summaries))>>
                            /\ call.first = Covered + 1
  /\ call.step \in {"ask", "measured"} =>
       \E last \in Covered..Len(rows) : call.recipe = MeasuredRecipe(i, j, last)

MeasureInv ==
  /\ call.kind = "measure" =>
       /\ call.step \in {"summary", "range", "ask", "measured"}
       /\ summaries # <<>>
       /\ \E i, j \in DOMAIN texts : Measuring(i, j)
  /\ call.step = "measured" => call.kind = "measure"

(* A summary is written for a job that is there. *)
JobOfCall ==
  /\ call.kind \in {"summary", "pass", "measure"} => kept # NoJob
  /\ call.kind = "pass" => call.first \in Nat

CallInv ==
  /\ DOMAIN call = DOMAIN NoCall
  /\ call.kind = "none" => call = NoCall
  /\ Assembling /\ Assembled /\ MeasureInv /\ JobOfCall

KeptInv == kept # NoJob => \E i, j \in DOMAIN texts : KeepsStatic(i, j)

StreamOfCall == stream # "off" <=> call.step = "sent"

StoreInv == Lists /\ SummariesGrow /\ SummariesRecorded /\ RecordsHold

Inv == StreamInv /\ StreamOfCall /\ StoreInv /\ CallInv /\ KeptInv

-----------------------------------------------------------------------------
(* What a recipe refers to is there to stay. *)

Refers(s) ==
  \/ \E i \in DOMAIN texts : s = Text(i) \/ s = Tools(i)
  \/ \E k \in DOMAIN summaries : s = SummaryOf(k)
  \/ \E a, b \in DOMAIN rows : a <= b /\ s = Messages(a, b)

LEMMA RecipeRefers ==
  ASSUME Lists, SummariesGrow, NEW r, Recipe(r)
  PROVE  \A j \in DOMAIN r : Refers(r[j])
<1>1. \A k \in DOMAIN summaries : summaries[k].covers \in DOMAIN rows
  BY DEF SummariesGrow
<1>2. DOMAIN rows = 1..Len(rows) /\ Len(rows) \in Nat
  BY ListFacts DEF Lists
<1>3. \A b \in DOMAIN rows : 1 \in DOMAIN rows /\ 1 <= b
  BY <1>2
<1>4. \A k \in DOMAIN summaries, b \in DOMAIN rows : summaries[k].covers < b =>
        summaries[k].covers + 1 \in DOMAIN rows /\ summaries[k].covers + 1 <= b
  BY <1>1, <1>2
<1>5. CASE TurnRecipe(r)
  <2>1. PICK i \in DOMAIN texts, j \in DOMAIN texts :
          \/ r = <<Text(i), Tools(j)>>
          \/ \E b \in DOMAIN rows : r = <<Text(i), Tools(j), Messages(1, b)>>
          \/ \E k \in DOMAIN summaries :
               \/ r = <<Text(i), Tools(j), SummaryOf(k)>>
               \/ \E b \in DOMAIN rows :
                    /\ summaries[k].covers < b
                    /\ r = <<Text(i), Tools(j), SummaryOf(k), Messages(summaries[k].covers + 1, b)>>
    BY <1>5 DEF TurnRecipe
  <2>2. Refers(Text(i)) /\ Refers(Tools(j))
    BY DEF Refers
  <2>3. \A k \in DOMAIN summaries : Refers(SummaryOf(k))
    BY DEF Refers
  <2>4. \A b \in DOMAIN rows : Refers(Messages(1, b))
    BY <1>3 DEF Refers
  <2>5. \A k \in DOMAIN summaries, b \in DOMAIN rows : summaries[k].covers < b =>
          Refers(Messages(summaries[k].covers + 1, b))
    BY <1>4 DEF Refers
  <2> QED BY <2>1, <2>2, <2>3, <2>4, <2>5
<1>6. CASE \E split \in DOMAIN rows : TaskRecipe(r, split)
  <2>1. PICK split \in DOMAIN rows, i \in DOMAIN texts :
          \/ r = <<Text(i), Messages(1, split)>>
          \/ \E k \in DOMAIN summaries :
               /\ summaries[k].covers < split
               /\ r = <<Text(i), SummaryOf(k), Messages(summaries[k].covers + 1, split)>>
    BY <1>6 DEF TaskRecipe
  <2>2. Refers(Text(i)) /\ Refers(Messages(1, split))
    BY <1>3 DEF Refers
  <2>3. \A k \in DOMAIN summaries : Refers(SummaryOf(k))
    BY DEF Refers
  <2>4. \A k \in DOMAIN summaries : summaries[k].covers < split =>
          Refers(Messages(summaries[k].covers + 1, split))
    BY <1>4 DEF Refers
  <2> QED BY <2>1, <2>2, <2>3, <2>4
<1> QED BY <1>5, <1>6 DEF Recipe

(* Rows are only ever added. *)
Extends(s, t) ==
  /\ IsList(s) /\ IsList(t) /\ Len(s) <= Len(t)
  /\ \A k \in 1..Len(s) : t[k] = s[k]

Grown ==
  /\ Extends(texts, texts') /\ Extends(rows, rows') /\ Extends(summaries, summaries')

LEMMA ExtendsFacts ==
  ASSUME NEW s, NEW t, Extends(s, t)
  PROVE  DOMAIN s \subseteq DOMAIN t /\ \A k \in DOMAIN s : t[k] = s[k]
<1>1. /\ DOMAIN s = 1..Len(s) /\ Len(s) \in Nat
      /\ DOMAIN t = 1..Len(t) /\ Len(t) \in Nat
  BY ListFacts DEF Extends
<1> QED BY <1>1 DEF Extends

LEMMA AppendExtends ==
  ASSUME NEW s, IsList(s), NEW x
  PROVE  Extends(s, Append(s, x))
BY AppendFacts, ListFacts DEF Extends

LEMMA SameExtends ==
  ASSUME NEW s, IsList(s)
  PROVE  Extends(s, s)
BY ListFacts DEF Extends

(* request_for_segments gives the same for as long as rows are added. *)
LEMMA RequestStays ==
  ASSUME Grown, NEW r, \A j \in DOMAIN r : Refers(r[j])
  PROVE  Request(r)' = Request(r)
<1>1. /\ DOMAIN texts \subseteq DOMAIN texts' /\ \A k \in DOMAIN texts : texts'[k] = texts[k]
      /\ DOMAIN summaries \subseteq DOMAIN summaries'
      /\ \A k \in DOMAIN summaries : summaries'[k] = summaries[k]
      /\ IsList(rows) /\ IsList(rows') /\ Len(rows) <= Len(rows')
      /\ \A k \in 1..Len(rows) : rows'[k] = rows[k]
  BY ExtendsFacts DEF Grown, Extends
<1>2. \A j \in DOMAIN r : r[j].kind \in {"text", "tools"} => texts'[r[j].id] = texts[r[j].id]
  <2> TAKE j \in DOMAIN r
  <2>1. Refers(r[j])
    OBVIOUS
  <2> QED BY <1>1, <2>1 DEF Refers, Text, Tools, SummaryOf, Messages
<1>3. \A j \in DOMAIN r : r[j].kind = "summary" => summaries'[r[j].id] = summaries[r[j].id]
  <2> TAKE j \in DOMAIN r
  <2>1. Refers(r[j])
    OBVIOUS
  <2> QED BY <1>1, <2>1 DEF Refers, Text, Tools, SummaryOf, Messages
<1>4. \A j \in DOMAIN r : r[j].kind = "messages" =>
        SubSeq(rows', r[j].first, r[j].last) = SubSeq(rows, r[j].first, r[j].last)
  <2> SUFFICES ASSUME NEW j \in DOMAIN r, r[j].kind = "messages"
               PROVE  SubSeq(rows', r[j].first, r[j].last) = SubSeq(rows, r[j].first, r[j].last)
    OBVIOUS
  <2>1. Refers(r[j])
    OBVIOUS
  <2>2. PICK a \in DOMAIN rows, b \in DOMAIN rows : a <= b /\ r[j] = Messages(a, b)
    BY <2>1 DEF Refers, Text, Tools, SummaryOf
  <2>3. r[j].first = a /\ r[j].last = b
    BY <2>2 DEF Messages
  <2>4. /\ DOMAIN rows = 1..Len(rows) /\ Len(rows) \in Nat /\ Len(rows') \in Nat
        /\ rows \in Seq(Entries(rows)) /\ rows' \in Seq(Entries(rows'))
    BY <1>1, ListFacts DEF IsList
  <2>5. a \in 1..Len(rows) /\ b \in 1..Len(rows) /\ b <= Len(rows')
    BY <2>4, <1>1
  <2>6. SubSeq(rows, a, b) = [k \in 1..(b - a + 1) |-> rows[a + k - 1]]
    BY <2>4, <2>5
  <2>7. SubSeq(rows', a, b) = [k \in 1..(b - a + 1) |-> rows'[a + k - 1]]
    BY <2>4, <2>5
  <2>8. \A k \in 1..(b - a + 1) : rows'[a + k - 1] = rows[a + k - 1]
    <3> TAKE k \in 1..(b - a + 1)
    <3>1. a + k - 1 \in 1..Len(rows)
      BY <2>4, <2>5
    <3> QED BY <3>1, <1>1
  <2> QED BY <2>3, <2>6, <2>7, <2>8
<1>5. \A j \in DOMAIN r : Said(r[j])' = Said(r[j])
  BY <1>2, <1>3, <1>4 DEF Said, ReadRange
<1>6. [j \in DOMAIN r |-> Said(r[j])]' = [j \in DOMAIN r |-> Said(r[j])]
  BY <1>5
<1>7. [j \in DOMAIN r |-> IF r[j].kind = "tools" THEN <<texts[r[j].id]>> ELSE <<>>]'
        = [j \in DOMAIN r |-> IF r[j].kind = "tools" THEN <<texts[r[j].id]>> ELSE <<>>]
  BY <1>2
<1> DEFINE said    == [j \in DOMAIN r |-> Said(r[j])]
           offered == [j \in DOMAIN r |-> IF r[j].kind = "tools" THEN <<texts[r[j].id]>> ELSE <<>>]
<1>8. Request(r) = [messages |-> FlattenSeq(said), tools |-> FlattenSeq(offered)]
  BY DEF Request
<1>9. Request(r)' = [messages |-> FlattenSeq(said'), tools |-> FlattenSeq(offered')]
  BY DEF Request
<1> HIDE DEF said, offered
<1>10. said' = said /\ offered' = offered
  BY <1>6, <1>7 DEF said, offered
<1> QED BY <1>8, <1>9, <1>10

LEMMA RecipesStay ==
  ASSUME Grown
  PROVE  /\ \A r : TurnRecipe(r) => TurnRecipe(r)'
         /\ \A r, split : TaskRecipe(r, split) => TaskRecipe(r, split)'
         /\ \A r : Recipe(r) => Recipe(r)'
<1>1. /\ DOMAIN texts \subseteq DOMAIN texts' /\ DOMAIN rows \subseteq DOMAIN rows'
      /\ DOMAIN summaries \subseteq DOMAIN summaries'
      /\ \A k \in DOMAIN summaries : summaries'[k] = summaries[k]
  BY ExtendsFacts DEF Grown
<1>2. \A r : TurnRecipe(r) => TurnRecipe(r)'
  BY <1>1 DEF TurnRecipe
<1>3. \A r, split : TaskRecipe(r, split) => TaskRecipe(r, split)'
  BY <1>1 DEF TaskRecipe
<1> QED BY <1>1, <1>2, <1>3 DEF Recipe

-----------------------------------------------------------------------------
(* What the steps leave alone. *)

(* latest_summary is the newest one. *)
LEMMA LatestSummaryFacts ==
  ASSUME Lists, SummariesGrow
  PROVE  /\ summaries = <<>> => Covered = 0 /\ Summary = <<>>
         /\ summaries # <<>> =>
              /\ Len(summaries) \in DOMAIN summaries
              /\ Covered = summaries[Len(summaries)].covers
              /\ Summary = <<SummaryOf(Len(summaries))>>
<1>1. CASE summaries = <<>>
  BY <1>1 DEF Covered, Summary, LatestSummary
<1>2. CASE summaries # <<>>
  <2> DEFINE n == Len(summaries)
  <2>1. DOMAIN summaries = 1..n /\ n \in Nat \ {0}
    BY <1>2 DEF Lists, IsList
  <2>2. \A k \in 1..n : summaries[k].covers \in Nat
    BY <2>1, ListFacts DEF SummariesGrow, Lists
  <2>3. \A j, k \in 1..n : j < k => summaries[j].covers < summaries[k].covers
    BY <2>1 DEF SummariesGrow
  <2> HIDE DEF n
  <2>4. n \in 1..n
    BY <2>1
  <2>5. \A j \in 1..n : \/ summaries[j].covers < summaries[n].covers
                        \/ summaries[j].covers = summaries[n].covers /\ j <= n
    <3> TAKE j \in 1..n
    <3>1. j = n \/ j < n
      BY <2>1
    <3> QED BY <3>1, <2>1, <2>3, <2>4
  <2>6. \A k \in 1..n : (\A j \in 1..n : \/ summaries[j].covers < summaries[k].covers
                                         \/ summaries[j].covers = summaries[k].covers /\ j <= k)
                        => k = n
    <3> TAKE k \in 1..n
    <3>1. k = n \/ k < n
      BY <2>1
    <3> QED BY <3>1, <2>2, <2>3, <2>4
  <2>7. LatestSummary = n
    BY <1>2, <2>1, <2>4, <2>5, <2>6 DEF LatestSummary
  <2>8. n # 0
    BY <2>1
  <2> QED BY <1>2, <2>1, <2>4, <2>7, <2>8 DEF Covered, Summary, n
<1> QED BY <1>1, <1>2

LEMMA CoveredIsRow ==
  ASSUME Lists, SummariesGrow
  PROVE  Covered \in 0..Len(rows) /\ Len(rows) \in Nat
<1>1. DOMAIN rows = 1..Len(rows) /\ Len(rows) \in Nat
  BY ListFacts DEF Lists
<1>2. CASE summaries = <<>>
  BY <1>1, <1>2, LatestSummaryFacts
<1>3. CASE summaries # <<>>
  <2>1. Covered \in DOMAIN rows
    BY <1>3, LatestSummaryFacts DEF SummariesGrow
  <2> QED BY <1>1, <2>1
<1> QED BY <1>2, <1>3

LEMMA RecordsStay ==
  ASSUME Lists, SummariesGrow, RecordsHold, Grown, UNCHANGED inferences
  PROVE  RecordsHold'
<1> SUFFICES ASSUME NEW k \in DOMAIN inferences
             PROVE  /\ Recipe(inferences[k].recipe)'
                    /\ (inferences[k].sent = Request(inferences[k].recipe))'
  BY DEF RecordsHold
<1>1. PICK r : r = inferences[k].recipe /\ r = inferences'[k].recipe
  OBVIOUS
<1>2. Recipe(r) /\ inferences[k].sent = Request(r)
  BY <1>1 DEF RecordsHold
<1>3. Recipe(r)' /\ Request(r)' = Request(r)
  BY <1>2, RecipesStay, RequestStays, RecipeRefers
<1> QED BY <1>1, <1>2, <1>3

LEMMA StoreKept ==
  ASSUME StoreInv, Grown, UNCHANGED <<summaries, inferences>>
  PROVE  StoreInv'
<1>1. Lists'
  BY DEF StoreInv, Lists, Grown, Extends
<1>2. SummariesGrow'
  BY ExtendsFacts DEF StoreInv, SummariesGrow, Grown
<1>3. SummariesRecorded'
  BY RecipesStay DEF StoreInv, SummariesRecorded
<1>4. RecordsHold'
  BY RecordsStay DEF StoreInv
<1> QED BY <1>1, <1>2, <1>3, <1>4 DEF StoreInv

LEMMA StoreRecords ==
  ASSUME StoreInv, UNCHANGED <<texts, rows, summaries>>, NEW x,
         Recipe(x.recipe), x.sent = Request(x.recipe),
         inferences' = Append(inferences, x)
  PROVE  StoreInv'
<1>1. /\ IsList(inferences) /\ IsList(inferences')
      /\ Len(inferences) \in Nat
      /\ DOMAIN inferences = 1..Len(inferences) /\ DOMAIN inferences' = 1..(Len(inferences) + 1)
      /\ \A k \in DOMAIN inferences : inferences'[k] = inferences[k]
      /\ inferences'[Len(inferences) + 1] = x
  BY AppendFacts, ListFacts DEF StoreInv, Lists
<1>2. Lists' /\ SummariesGrow'
  BY <1>1 DEF StoreInv, Lists, SummariesGrow
<1>3. SummariesRecorded'
  BY <1>1 DEF StoreInv, SummariesRecorded, TaskRecipe
<1>4. RecordsHold'
  <2>1. \A r : Recipe(r)' = Recipe(r) /\ Request(r)' = Request(r)
    BY DEF Recipe, TurnRecipe, TaskRecipe, Request, Said, ReadRange
  <2> SUFFICES ASSUME NEW k \in DOMAIN inferences'
               PROVE  /\ Recipe(inferences[k].recipe)'
                      /\ (inferences[k].sent = Request(inferences[k].recipe))'
    BY DEF RecordsHold
  <2>2. PICK r, sent : r = inferences'[k].recipe /\ sent = inferences'[k].sent
    OBVIOUS
  <2>3. k \in DOMAIN inferences \/ k = Len(inferences) + 1
    BY <1>1
  <2>4. Recipe(r) /\ sent = Request(r)
    BY <1>1, <2>2, <2>3 DEF StoreInv, RecordsHold
  <2> QED BY <2>1, <2>2, <2>4
<1> QED BY <1>2, <1>3, <1>4 DEF StoreInv

LEMMA GrownText ==
  ASSUME Lists, NEW prose, StoreText(prose), UNCHANGED <<rows, summaries>>
  PROVE  /\ Grown
         /\ Len(texts) + 1 \in DOMAIN texts'
         /\ DOMAIN texts \subseteq DOMAIN texts'
<1>1. Grown
  BY AppendExtends, SameExtends DEF Lists, Grown, StoreText
<1>2. Len(texts') = Len(texts) + 1 /\ Len(texts) \in Nat /\ DOMAIN texts' = 1..Len(texts')
  BY AppendFacts, ListFacts DEF Lists, StoreText
<1> QED BY <1>1, <1>2, ExtendsFacts DEF Grown

LEMMA GrownRow ==
  ASSUME Lists, NEW role, NEW body, AppendRow(role, body), UNCHANGED <<texts, summaries>>
  PROVE  Grown
BY AppendExtends, SameExtends DEF Lists, Grown, AppendRow

LEMMA GrownNot ==
  ASSUME Lists, UNCHANGED <<texts, rows, summaries>>
  PROVE  Grown
BY SameExtends DEF Lists, Grown

(* The call under way and the owed compaction, when rows are added. *)
LEMMA CallKept ==
  ASSUME StoreInv, CallInv, Grown, UNCHANGED <<summaries, inferences, kept, call>>
  PROVE  CallInv'
<1>1. /\ DOMAIN texts \subseteq DOMAIN texts' /\ DOMAIN rows \subseteq DOMAIN rows'
      /\ \A k \in DOMAIN texts : texts'[k] = texts[k]
  BY ExtendsFacts DEF Grown
<1>2. Covered' = Covered
  BY DEF Covered, LatestSummary
<1>3. PICK r : r = call.recipe /\ r = call'.recipe
  BY DEF CallInv
<1>4. Recipe(r) => Request(r)' = Request(r)
  BY RequestStays, RecipeRefers DEF StoreInv
<1>5. Assembling'
  BY <1>1 DEF CallInv, Assembling
<1>6. Assembled'
  BY <1>2, <1>3, <1>4, RecipesStay DEF CallInv, Assembled
<1>7. MeasureInv'
  <2>1. Covered..Len(rows) \subseteq Covered..Len(rows') /\ Covered \in Nat
    BY LatestSummaryFacts, ListFacts, CoveredIsRow DEF Grown, Extends, StoreInv
  <2>2. \A i, j, last : MeasuredRecipe(i, j, last)' = MeasuredRecipe(i, j, last)
    BY <1>2 DEF MeasuredRecipe
  <2>3. \A i, j \in DOMAIN texts : Measuring(i, j) => Measuring(i, j)'
    BY <1>1, <1>2, <2>1, <2>2 DEF Measuring, KeepsStatic
  <2> QED BY <1>1, <2>3 DEF CallInv, MeasureInv
<1>8. JobOfCall'
  BY DEF CallInv, JobOfCall
<1> QED BY <1>5, <1>6, <1>7, <1>8 DEF CallInv

LEMMA KeptKept ==
  ASSUME KeptInv, Grown, UNCHANGED kept
  PROVE  KeptInv'
<1>1. DOMAIN texts \subseteq DOMAIN texts' /\ \A k \in DOMAIN texts : texts'[k] = texts[k]
  BY ExtendsFacts DEF Grown
<1> QED BY <1>1 DEF KeptInv, KeepsStatic

LEMMA NoCallHolds ==
  ASSUME call = NoCall
  PROVE  CallInv
BY DEF CallInv, NoCall, Assembling, Assembled, MeasureInv, JobOfCall

-----------------------------------------------------------------------------
(* The static prompt and the tools of a turn's request. *)

(* The segments of a recipe, joined: FlattenSeq for as many as there are. *)
LEMMA JoinedSegments ==
  ASSUME NEW S, NEW s \in Seq(Seq(S)), Len(s) \in {2, 3, 4}
  PROVE  /\ Len(s) = 2 => FlattenSeq(s) = s[1] \o s[2]
         /\ Len(s) = 3 => FlattenSeq(s) = (s[1] \o s[2]) \o s[3]
         /\ Len(s) = 4 => FlattenSeq(s) = ((s[1] \o s[2]) \o s[3]) \o s[4]
<1> DEFINE n == Len(s)
           Joins(g) == g = [i \in 1..n |-> IF i = 1 THEN s[i] ELSE g[i - 1] \o s[i]]
           joined == [i \in 1..n |-> IF i = 1 THEN s[1]
                                     ELSE IF i = 2 THEN s[1] \o s[2]
                                     ELSE IF i = 3 THEN (s[1] \o s[2]) \o s[3]
                                     ELSE ((s[1] \o s[2]) \o s[3]) \o s[4]]
<1>0. n = 2 \/ n = 3 \/ n = 4
  OBVIOUS
<1> HIDE DEF n
<1>1. Joins(joined)
  <2>1. \A i \in 1..n : (i = 1 \/ i = 2 \/ i = 3 \/ i = 4) /\ (i # 1 => i - 1 \in 1..n)
    BY <1>0
  <2>2. \A i \in 1..n : joined[i] = IF i = 1 THEN s[i] ELSE joined[i - 1] \o s[i]
    BY <2>1
  <2> QED BY <2>2
<1>2. PICK f : f = CHOOSE g : Joins(g)
  OBVIOUS
<1>3. Joins(f)
  BY <1>1, <1>2, Zenon
<1>4. FlattenSeq(s) = f[n]
  <2>1. n # 0
    BY <1>0
  <2> QED BY <2>1, <1>2, Zenon DEF FlattenSeq, n
<1>5. \A i \in 1..n : f[i] = IF i = 1 THEN s[i] ELSE f[i - 1] \o s[i]
  BY <1>3
<1> HIDE DEF Joins, joined
<1>6. \A i, j \in 1..n : i = j + 1 => f[i] = f[j] \o s[i]
  <2> SUFFICES ASSUME NEW i \in 1..n, NEW j \in 1..n, i = j + 1
               PROVE  f[i] = f[j] \o s[i]
    OBVIOUS
  <2>1. i # 1 /\ i - 1 = j
    BY <1>0
  <2> QED BY <1>5, <2>1
<1>7. 1 \in 1..n /\ 2 \in 1..n /\ (n # 2 => 3 \in 1..n) /\ (n = 4 => 3 \in 1..n /\ 4 \in 1..n)
  BY <1>0
<1>8. 2 = 1 + 1 /\ 3 = 2 + 1 /\ 4 = 3 + 1
  OBVIOUS
<1>9. f[1] = s[1] /\ f[2] = f[1] \o s[2]
  BY <1>5, <1>6, <1>7, <1>8
<1>10. n # 2 => f[3] = f[2] \o s[3]
  BY <1>6, <1>7, <1>8
<1>11. n = 4 => f[4] = f[3] \o s[4]
  BY <1>6, <1>7, <1>8
<1>12. n = 2 => f[n] = s[1] \o s[2]
  BY <1>9
<1>13. n = 3 => f[n] = (s[1] \o s[2]) \o s[3]
  <2>1. n = 3 => n # 2
    OBVIOUS
  <2> QED BY <2>1, <1>9, <1>10
<1>14. n = 4 => f[n] = ((s[1] \o s[2]) \o s[3]) \o s[4]
  <2>1. n = 4 => n # 2
    OBVIOUS
  <2> QED BY <2>1, <1>9, <1>10, <1>11
<1> QED BY <1>4, <1>12, <1>13, <1>14 DEF n

(* All that is said by anybody in what an agent is sent. *)
Spoken == Entries(texts) \cup Entries(rows) \cup {summaries[k].content : k \in DOMAIN summaries}

LEMMA SaidIsList ==
  ASSUME Lists, NEW s, Refers(s)
  PROVE  Said(s) \in Seq(Spoken)
<1>1. CASE \E i \in DOMAIN texts : s = Text(i) \/ s = Tools(i)
  <2>1. PICK i \in DOMAIN texts : s = Text(i) \/ s = Tools(i)
    BY <1>1
  <2>2. texts[i] \in Spoken
    BY DEF Spoken, Entries
  <2>3. <<>> \in Seq(Spoken) /\ <<texts[i]>> \in Seq(Spoken)
    BY <2>2
  <2> QED BY <2>1, <2>3 DEF Said, Text, Tools
<1>2. CASE \E k \in DOMAIN summaries : s = SummaryOf(k)
  <2>1. PICK k \in DOMAIN summaries : s = SummaryOf(k)
    BY <1>2
  <2>2. summaries[k].content \in Spoken
    BY DEF Spoken
  <2>3. Said(s) = <<summaries[k].content>>
    BY <2>1 DEF Said, SummaryOf
  <2> QED BY <2>2, <2>3
<1>3. CASE \E a, b \in DOMAIN rows : a <= b /\ s = Messages(a, b)
  <2>1. PICK a \in DOMAIN rows, b \in DOMAIN rows : a <= b /\ s = Messages(a, b)
    BY <1>3
  <2>2. Said(s) = SubSeq(rows, a, b)
    BY <2>1 DEF Said, ReadRange, Messages
  <2>3. Entries(rows) \subseteq Spoken
    BY DEF Spoken
  <2>4. rows \in Seq(Spoken)
    BY <2>3, SeqMonotonic DEF Lists, IsList
  <2>5. DOMAIN rows = 1..Len(rows) /\ Len(rows) \in Nat
    BY ListFacts DEF Lists
  <2>6. a \in 1..(Len(rows) + 1) /\ b \in 0..Len(rows)
    BY <2>5
  <2> QED BY <2>2, <2>4, <2>6, SubSeqProperties
<1> QED BY <1>1, <1>2, <1>3 DEF Refers

(* The first of what a turn sends is the prompt, the tools are the ones it *)
(* stored, and both are its static segments.                               *)
TurnShape(r, n, i, j) ==
  /\ DOMAIN r = 1..n /\ r = [k \in 1..n |-> r[k]] /\ r[1] = Text(i) /\ r[2] = Tools(j)
  /\ \A k \in 1..n : Refers(r[k])
  /\ \A k \in 1..n : k # 1 /\ k # 2 => r[k].kind \in {"summary", "messages"}

(* All that it says. *)
TurnSays(r, n, i) ==
  /\ n = 2 => Request(r).messages = <<texts[i]>>
  /\ n = 3 => Request(r).messages = <<texts[i]>> \o Said(r[3])
  /\ n = 4 => Request(r).messages = (<<texts[i]>> \o Said(r[3])) \o Said(r[4])

LEMMA TurnRequest ==
  ASSUME Lists, NEW r, NEW n \in {2, 3, 4}, NEW i \in DOMAIN texts, NEW j \in DOMAIN texts,
         TurnShape(r, n, i, j)
  PROVE  /\ StaticSegments(r) = <<Text(i), Tools(j)>>
         /\ Request(r).messages[1] = texts[i]
         /\ TurnSays(r, n, i)
         /\ Request(r).tools = <<texts[j]>>
<1>0. /\ DOMAIN r = 1..n /\ r = [k \in 1..n |-> r[k]] /\ r[1] = Text(i) /\ r[2] = Tools(j)
      /\ \A k \in 1..n : Refers(r[k])
      /\ \A k \in 1..n : k # 1 /\ k # 2 => r[k].kind \in {"summary", "messages"}
  BY DEF TurnShape
<1>1. /\ n \in Nat /\ 1 \in 1..n /\ 2 \in 1..n /\ n \in Int
      /\ (n = 3 => 3 \in 1..n) /\ (n = 4 => 3 \in 1..n /\ 4 \in 1..n)
  OBVIOUS
<1>2. r[1].kind = "text" /\ r[1].id = i /\ r[2].kind = "tools" /\ r[2].id = j
  BY <1>0 DEF Text, Tools
<1>3. StaticSegments(r) = <<Text(i), Tools(j)>>
  <2>1. {k \in DOMAIN r : r[k].kind \in {"text", "tools"}} = 1..2
    BY <1>0, <1>1, <1>2
  <2>2. InOrder(r, 1..2) = [k \in 1..2 |-> r[k]]
    <3>1. PICK m \in Nat : m = 2
      OBVIOUS
    <3>2. InOrder(r, 1..m) = [k \in 1..m |-> r[k]]
      BY InOrderWhole
    <3> QED BY <3>1, <3>2
  <2>3. [k \in 1..2 |-> r[k]] = <<r[1], r[2]>>
    OBVIOUS
  <2> QED BY <1>0, <2>1, <2>2, <2>3 DEF StaticSegments, OfKind
<1> DEFINE said    == [k \in DOMAIN r |-> Said(r[k])]
           offered == [k \in DOMAIN r |-> IF r[k].kind = "tools" THEN <<texts[r[k].id]>> ELSE <<>>]
<1>4. texts[i] \in Spoken /\ texts[j] \in Spoken
  BY DEF Spoken, Entries
<1>5. said \in Seq(Seq(Spoken)) /\ Len(said) = n
  <2>1. \A k \in 1..n : Said(r[k]) \in Seq(Spoken)
    BY <1>0, SaidIsList
  <2>2. said = [k \in 1..n |-> said[k]] /\ \A k \in 1..n : said[k] \in Seq(Spoken)
    BY <1>0, <2>1
  <2> HIDE DEF said
  <2> QED BY <1>1, <2>2, FunctionIsSeq
<1>6. offered \in Seq(Seq(Spoken)) /\ Len(offered) = n
  <2>1. <<>> \in Seq(Spoken) /\ <<texts[j]>> \in Seq(Spoken)
    BY <1>4
  <2>2. \A k \in 1..n : r[k].kind = "tools" => k = 2
    BY <1>0, <1>2
  <2>3. \A k \in 1..n : offered[k] \in Seq(Spoken)
    BY <1>0, <1>2, <2>1, <2>2
  <2>4. offered = [k \in 1..n |-> offered[k]]
    BY <1>0
  <2> HIDE DEF offered
  <2> QED BY <1>1, <2>3, <2>4, FunctionIsSeq
<1>7. said[1] = <<texts[i]>> /\ said[2] = <<>>
  BY <1>0, <1>1, <1>2 DEF Said
<1>8. /\ offered[1] = <<>> /\ offered[2] = <<texts[j]>>
      /\ (n = 3 => offered[3] = <<>>) /\ (n = 4 => offered[3] = <<>> /\ offered[4] = <<>>)
  <2>1. \A k \in 1..n : k # 1 /\ k # 2 => r[k].kind # "tools"
    BY <1>0
  <2>2. \A k \in 1..n : k # 2 => offered[k] = <<>>
    BY <1>0, <1>2, <2>1
  <2>3. offered[2] = <<texts[j]>>
    BY <1>0, <1>1, <1>2
  <2>4. 1 # 2 /\ 3 # 2 /\ 4 # 2
    OBVIOUS
  <2> HIDE DEF offered
  <2> QED BY <1>1, <2>2, <2>3, <2>4
<1>9. Request(r).messages = FlattenSeq(said) /\ Request(r).tools = FlattenSeq(offered)
  BY DEF Request
<1>10. (n = 3 => said[3] \in Seq(Spoken)) /\ (n = 4 => said[3] \in Seq(Spoken) /\ said[4] \in Seq(Spoken))
  BY <1>0, <1>1, SaidIsList
<1>11. (n = 3 => said[3] = Said(r[3])) /\ (n = 4 => said[3] = Said(r[3]) /\ said[4] = Said(r[4]))
  BY <1>0, <1>1
<1> HIDE DEF said, offered
<1>12. /\ n = 2 => FlattenSeq(said) = said[1] \o said[2]
       /\ n = 3 => FlattenSeq(said) = (said[1] \o said[2]) \o said[3]
       /\ n = 4 => FlattenSeq(said) = ((said[1] \o said[2]) \o said[3]) \o said[4]
  BY <1>5, JoinedSegments
<1>13. /\ n = 2 => FlattenSeq(offered) = offered[1] \o offered[2]
       /\ n = 3 => FlattenSeq(offered) = (offered[1] \o offered[2]) \o offered[3]
       /\ n = 4 => FlattenSeq(offered) = ((offered[1] \o offered[2]) \o offered[3]) \o offered[4]
  BY <1>6, JoinedSegments
<1>14. \A x : <<>> \o <<x>> = <<x>> /\ <<x>> \o <<>> = <<x>>
  OBVIOUS
<1>15. FlattenSeq(offered) = <<texts[j]>>
  BY <1>8, <1>13, <1>14
<1>16. /\ n = 2 => FlattenSeq(said) = <<texts[i]>>
       /\ n = 3 => FlattenSeq(said) = <<texts[i]>> \o said[3]
       /\ n = 4 => FlattenSeq(said) = (<<texts[i]>> \o said[3]) \o said[4]
       /\ FlattenSeq(said)[1] = texts[i]
  <2> DEFINE first == <<texts[i]>>
  <2>1. first \in Seq(Spoken) /\ Len(first) = 1 /\ first[1] = texts[i]
    BY <1>4
  <2> HIDE DEF first
  <2>2. said[1] \o said[2] = first
    BY <1>7, <1>14 DEF first
  <2>3. \A x \in Seq(Spoken) : /\ first \o x \in Seq(Spoken) /\ Len(first \o x) >= 1
                               /\ (first \o x)[1] = texts[i]
    <3> TAKE x \in Seq(Spoken)
    <3>1. Len(first) >= 1
      BY <2>1
    <3> QED BY <2>1, <3>1, FirstStays
  <2>4. \A x, y \in Seq(Spoken) : ((first \o x) \o y)[1] = texts[i]
    BY <2>3, FirstStays
  <2>5. CASE n = 2
    <3>1. n # 3 /\ n # 4
      BY <2>5
    <3>2. FlattenSeq(said) = first /\ first[1] = texts[i]
      BY <2>5, <1>12, <2>1, <2>2
    <3> QED BY <3>1, <3>2, Zenon DEF first
  <2>6. CASE n = 3
    <3>1. n # 2
      BY <2>6
    <3>2. FlattenSeq(said) = first \o said[3] /\ said[3] \in Seq(Spoken)
      BY <2>6, <1>10, <1>12, <2>2, Zenon
    <3>3. n # 4
      BY <2>6
    <3> QED BY <3>1, <3>2, <3>3, <2>3, Zenon DEF first
  <2>7. CASE n = 4
    <3>1. n # 2
      BY <2>7
    <3>3. FlattenSeq(said) = (first \o said[3]) \o said[4]
      BY <2>7, <1>12, <2>2, Zenon
    <3>2. said[3] \in Seq(Spoken) /\ said[4] \in Seq(Spoken)
      BY <2>7, <1>10
    <3>4. n # 3
      BY <2>7
    <3> QED BY <3>1, <3>2, <3>3, <3>4, <2>4, Zenon DEF first
  <2> QED BY <2>5, <2>6, <2>7
<1> QED BY <1>3, <1>9, <1>15, <1>16, <1>11, Zenon DEF TurnSays

LEMMA TurnIsStatic ==
  ASSUME Lists, SummariesGrow, NEW r, TurnRecipe(r)
  PROVE  \E i, j \in DOMAIN texts :
           /\ StaticSegments(r) = <<Text(i), Tools(j)>>
           /\ Request(r).messages[1] = texts[i] /\ Request(r).tools = <<texts[j]>>
<1>1. PICK i \in DOMAIN texts, j \in DOMAIN texts :
        \/ r = <<Text(i), Tools(j)>>
        \/ \E b \in DOMAIN rows : r = <<Text(i), Tools(j), Messages(1, b)>>
        \/ \E k \in DOMAIN summaries :
             \/ r = <<Text(i), Tools(j), SummaryOf(k)>>
             \/ \E b \in DOMAIN rows :
                  /\ summaries[k].covers < b
                  /\ r = <<Text(i), Tools(j), SummaryOf(k), Messages(summaries[k].covers + 1, b)>>
  BY DEF TurnRecipe
<1>2. \A x : (\E b : x = Messages(1, b)) \/ (\E a, b : x = Messages(a, b)) \/ (\E k : x = SummaryOf(k))
               => x.kind \in {"summary", "messages"}
  BY DEF Messages, SummaryOf
<1>3. PICK n \in {2, 3, 4} :
        /\ DOMAIN r = 1..n /\ r = [k \in 1..n |-> r[k]] /\ r[1] = Text(i) /\ r[2] = Tools(j)
        /\ \A k \in 1..n : k # 1 /\ k # 2 => r[k].kind \in {"summary", "messages"}
  <2>1. CASE r = <<Text(i), Tools(j)>>
    <3>1. /\ DOMAIN r = 1..2 /\ r = [k \in 1..2 |-> r[k]] /\ r[1] = Text(i) /\ r[2] = Tools(j)
          /\ \A k \in 1..2 : k = 1 \/ k = 2
      BY <2>1
    <3> QED BY <3>1
  <2>2. CASE \E x : x.kind \in {"summary", "messages"} /\ r = <<Text(i), Tools(j), x>>
    <3>1. PICK x : x.kind \in {"summary", "messages"} /\ r = <<Text(i), Tools(j), x>>
      BY <2>2
    <3>2. /\ DOMAIN r = 1..3 /\ r = [k \in 1..3 |-> r[k]] /\ r[1] = Text(i) /\ r[2] = Tools(j)
          /\ r[3] = x /\ \A k \in 1..3 : k = 1 \/ k = 2 \/ k = 3
      BY <3>1
    <3> QED BY <3>1, <3>2
  <2>3. CASE \E x, y : /\ x.kind \in {"summary", "messages"} /\ y.kind \in {"summary", "messages"}
                       /\ r = <<Text(i), Tools(j), x, y>>
    <3>1. PICK x, y : /\ x.kind \in {"summary", "messages"} /\ y.kind \in {"summary", "messages"}
                      /\ r = <<Text(i), Tools(j), x, y>>
      BY <2>3
    <3>2. /\ DOMAIN r = 1..4 /\ r = [k \in 1..4 |-> r[k]] /\ r[1] = Text(i) /\ r[2] = Tools(j)
          /\ r[3] = x /\ r[4] = y /\ \A k \in 1..4 : k = 1 \/ k = 2 \/ k = 3 \/ k = 4
      BY <3>1
    <3> QED BY <3>1, <3>2
  <2> QED BY <1>1, <1>2, <2>1, <2>2, <2>3
<1>4. \A k \in 1..n : Refers(r[k])
  BY <1>3, RecipeRefers DEF Recipe
<1>5. /\ StaticSegments(r) = <<Text(i), Tools(j)>>
      /\ Request(r).messages[1] = texts[i]
      /\ Request(r).tools = <<texts[j]>>
  <2>1. TurnShape(r, n, i, j)
    BY <1>3, <1>4 DEF TurnShape
  <2> QED BY <2>1, TurnRequest
<1> QED BY <1>5

-----------------------------------------------------------------------------
(* Every step preserves the invariant. *)

LEMMA StartFacts ==
  ASSUME Init
  PROVE  Inv
<1>1. StreamInv /\ StreamOfCall
  BY DEF Init, StreamInit, StreamInv, StreamOfCall, NoCall
<1>2. IsList(<<>>)
  BY EmptySeq DEF IsList
<1>3. StoreInv
  BY <1>2 DEF Init, StoreInv, Lists, SummariesGrow, SummariesRecorded, RecordsHold
<1>4. CallInv /\ KeptInv
  BY NoCallHolds DEF Init, KeptInv
<1> QED BY <1>1, <1>3, <1>4 DEF Inv

LEMMA StreamKept ==
  ASSUME StreamInv, UNCHANGED streamVars
  PROVE  StreamInv'
BY DEF StreamInv, streamVars, Collected, Matches, Unsaid

LEMMA BeginTurnStep ==
  ASSUME Inv, BeginTurn
  PROVE  Inv'
<1>1. /\ stream = "off" /\ UNCHANGED streamVars /\ UNCHANGED <<rows, summaries, inferences, kept>>
      /\ StoreText(Build[build].system)
      /\ call' = [NoCall EXCEPT !.kind = "turn", !.step = "tools", !.recipe = <<Text(Len(texts) + 1)>>]
  BY DEF BeginTurn
<1>2. Grown /\ Len(texts) + 1 \in DOMAIN texts'
  BY <1>1, GrownText DEF Inv, StoreInv
<1>3. StoreInv' /\ KeptInv'
  BY <1>1, <1>2, StoreKept, KeptKept DEF Inv
<1>4. StreamInv' /\ stream' = "off"
  BY <1>1, StreamKept DEF Inv, streamVars
<1>5. /\ DOMAIN call' = DOMAIN NoCall /\ call'.kind = "turn" /\ call'.step = "tools"
      /\ call'.recipe = <<Text(Len(texts) + 1)>>
  BY <1>1 DEF NoCall
<1>6. CallInv' /\ StreamOfCall'
  BY <1>2, <1>4, <1>5 DEF CallInv, Assembling, Assembled, MeasureInv, JobOfCall, StreamOfCall
<1> QED BY <1>3, <1>4, <1>6 DEF Inv

LEMMA StoreToolsStep ==
  ASSUME Inv, StoreTools
  PROVE  Inv'
<1>1. /\ call.kind = "turn" /\ call.step = "tools"
      /\ UNCHANGED streamVars /\ UNCHANGED <<rows, summaries, inferences, kept>>
      /\ StoreText(Build[build].tools)
      /\ call' = [call EXCEPT !.step = "summary", !.recipe = Append(@, Tools(Len(texts) + 1))]
  BY DEF StoreTools
<1>2. Grown /\ Len(texts) + 1 \in DOMAIN texts' /\ DOMAIN texts \subseteq DOMAIN texts'
  BY <1>1, GrownText DEF Inv, StoreInv
<1>3. StoreInv' /\ KeptInv'
  BY <1>1, <1>2, StoreKept, KeptKept DEF Inv
<1>4. StreamInv' /\ stream' = "off"
  BY <1>1, StreamKept DEF Inv, streamVars, StreamOfCall
<1>5. DOMAIN call = DOMAIN NoCall
  BY DEF Inv, CallInv
<1>6. /\ DOMAIN call' = DOMAIN NoCall /\ call'.kind = "turn" /\ call'.step = "summary"
      /\ call'.recipe = Append(call.recipe, Tools(Len(texts) + 1))
  BY <1>1, <1>5 DEF NoCall
<1>7. PICK i \in DOMAIN texts : call.recipe = <<Text(i)>>
  BY <1>1 DEF Inv, CallInv, Assembling
<1>8. call'.recipe = <<Text(i), Tools(Len(texts) + 1)>>
  BY <1>6, <1>7, Tuples, Zenon
<1>9. CallInv' /\ StreamOfCall'
  BY <1>2, <1>4, <1>6, <1>8 DEF CallInv, Assembling, Assembled, MeasureInv, JobOfCall, StreamOfCall
<1> QED BY <1>3, <1>4, <1>9 DEF Inv

LEMMA ReadSummaryStep ==
  ASSUME Inv, ReadSummary
  PROVE  Inv'
<1>1. /\ call.kind \in {"turn", "measure"} /\ call.step = "summary"
      /\ UNCHANGED streamVars /\ UNCHANGED <<texts, rows, summaries, inferences, kept>>
      /\ call' = [call EXCEPT !.step = "range", !.recipe = @ \o Summary, !.first = Covered + 1]
  BY DEF ReadSummary, storeVars
<1>2. Grown
  BY <1>1, GrownNot DEF Inv, StoreInv
<1>3. StoreInv' /\ KeptInv'
  BY <1>1, <1>2, StoreKept, KeptKept DEF Inv
<1>4. StreamInv' /\ stream' = "off"
  BY <1>1, StreamKept DEF Inv, streamVars, StreamOfCall
<1>5. DOMAIN call = DOMAIN NoCall
  BY DEF Inv, CallInv
<1>6. /\ DOMAIN call' = DOMAIN NoCall /\ call'.kind = call.kind /\ call'.step = "range"
      /\ call'.recipe = call.recipe \o Summary /\ call'.first = Covered + 1
  BY <1>1, <1>5 DEF NoCall
<1>7. PICK i \in DOMAIN texts, j \in DOMAIN texts :
        /\ call.recipe = <<Text(i), Tools(j)>>
        /\ call.kind = "measure" => KeepsStatic(i, j) /\ summaries # <<>>
  <2>1. CASE call.kind = "turn"
    BY <1>1, <2>1 DEF Inv, CallInv, Assembling
  <2>2. CASE call.kind = "measure"
    BY <1>1, <2>2 DEF Inv, CallInv, MeasureInv, Measuring
  <2> QED BY <1>1, <2>1, <2>2
<1> DEFINE n == Len(summaries)
<1>8. summaries # <<>> => /\ n \in DOMAIN summaries /\ Covered = summaries[n].covers
                           /\ Summary = <<SummaryOf(n)>>
  BY LatestSummaryFacts DEF Inv, StoreInv
<1>9. n' = n /\ Covered' = Covered
  BY <1>1 DEF Covered, LatestSummary
<1> HIDE DEF n
<1>10. \/ summaries = <<>> /\ call'.recipe = <<Text(i), Tools(j)>> /\ call'.first = 1
      \/ /\ n \in DOMAIN summaries
         /\ call'.recipe = <<Text(i), Tools(j), SummaryOf(n)>>
         /\ call'.first = summaries[n].covers + 1 /\ call'.first = Covered + 1
  <2>1. CASE summaries = <<>>
    <3>1. Covered = 0 /\ Summary = <<>>
      BY <2>1, LatestSummaryFacts DEF Inv, StoreInv
    <3> QED BY <2>1, <3>1, <1>6, <1>7
  <2>2. CASE summaries # <<>>
    <3>1. n \in DOMAIN summaries /\ Covered = summaries[n].covers /\ Summary = <<SummaryOf(n)>>
      BY <2>2, <1>8
    <3>2. call'.recipe = <<Text(i), Tools(j), SummaryOf(n)>>
      BY <3>1, <1>6, <1>7, Tuples, Zenon
    <3> QED BY <3>1, <3>2, <1>6
  <2> QED BY <2>1, <2>2
<1>11. Assembling' /\ Assembled' /\ StreamOfCall'
  BY <1>1, <1>4, <1>6, <1>10 DEF Assembling, Assembled, StreamOfCall
<1>12. MeasureInv'
  <2>1. CASE call.kind = "measure"
    <3>1. Measuring(i, j)'
      BY <2>1, <1>1, <1>6, <1>7, <1>10, <1>9 DEF Measuring, KeepsStatic, n
    <3> QED BY <2>1, <3>1, <1>1, <1>6, <1>7 DEF MeasureInv
  <2>2. CASE call.kind # "measure"
    BY <2>2, <1>6 DEF MeasureInv
  <2> QED BY <2>1, <2>2
<1>13. CallInv'
  BY <1>1, <1>6, <1>11, <1>12 DEF Inv, CallInv, JobOfCall
<1> QED BY <1>3, <1>4, <1>11, <1>13 DEF Inv

LEMMA ReadNewestStep ==
  ASSUME Inv, ReadNewest
  PROVE  Inv'
<1>1. /\ call.kind \in {"turn", "measure"} /\ call.step = "range"
      /\ UNCHANGED streamVars /\ UNCHANGED <<texts, rows, summaries, inferences, kept>>
      /\ call' = [call EXCEPT !.step = "ask", !.first = 0,
                    !.recipe = IF call.first <= Len(rows)
                               THEN Append(@, Messages(call.first, Len(rows))) ELSE @]
  BY DEF ReadNewest, storeVars, AfterSummary
<1>2. Grown
  BY <1>1, GrownNot DEF Inv, StoreInv
<1>3. StoreInv' /\ KeptInv'
  BY <1>1, <1>2, StoreKept, KeptKept DEF Inv
<1>4. StreamInv' /\ stream' = "off"
  BY <1>1, StreamKept DEF Inv, streamVars, StreamOfCall
<1>5. DOMAIN call = DOMAIN NoCall
  BY DEF Inv, CallInv
<1>6. /\ DOMAIN call' = DOMAIN NoCall /\ call'.kind = call.kind /\ call'.step = "ask"
      /\ call'.recipe = IF call.first <= Len(rows)
                        THEN Append(call.recipe, Messages(call.first, Len(rows))) ELSE call.recipe
  BY <1>1, <1>5 DEF NoCall
<1>7. PICK i \in DOMAIN texts, j \in DOMAIN texts :
        \/ call.recipe = <<Text(i), Tools(j)>> /\ call.first = 1
        \/ \E k \in DOMAIN summaries : /\ call.recipe = <<Text(i), Tools(j), SummaryOf(k)>>
                                       /\ call.first = summaries[k].covers + 1
  BY <1>1 DEF Inv, CallInv, Assembling
<1>8. /\ DOMAIN rows = 1..Len(rows) /\ Len(rows) \in Nat
      /\ \A k \in DOMAIN summaries : summaries[k].covers \in Nat
  BY ListFacts DEF Inv, StoreInv, Lists, SummariesGrow
<1> DEFINE new == IF call.first <= Len(rows)
                  THEN Append(call.recipe, Messages(call.first, Len(rows))) ELSE call.recipe
<1>9. TurnRecipe(new)
  <2>1. CASE call.recipe = <<Text(i), Tools(j)>> /\ call.first = 1
    <3>1. CASE 1 <= Len(rows)
      <4>1. new = <<Text(i), Tools(j), Messages(1, Len(rows))>>
        <5>1. new = Append(<<Text(i), Tools(j)>>, Messages(1, Len(rows)))
          BY <2>1, <3>1, Zenon
        <5> QED BY <5>1, Tuples, Zenon
      <4>2. Len(rows) \in DOMAIN rows
        BY <3>1, <1>8
      <4> QED BY <4>1, <4>2 DEF TurnRecipe
    <3>2. CASE ~(1 <= Len(rows))
      <4>1. new = <<Text(i), Tools(j)>>
        BY <2>1, <3>2, Zenon
      <4> HIDE DEF new
      <4> QED BY <4>1 DEF TurnRecipe
    <3> QED BY <3>1, <3>2
  <2>2. ASSUME NEW k \in DOMAIN summaries,
               call.recipe = <<Text(i), Tools(j), SummaryOf(k)>>, call.first = summaries[k].covers + 1
        PROVE  TurnRecipe(new)
    <3>1. CASE call.first <= Len(rows)
      <4>1. new = <<Text(i), Tools(j), SummaryOf(k), Messages(summaries[k].covers + 1, Len(rows))>>
        <5>1. new = Append(<<Text(i), Tools(j), SummaryOf(k)>>,
                           Messages(summaries[k].covers + 1, Len(rows)))
          BY <2>2, <3>1, Zenon
        <5> QED BY <5>1, ThreeAndOne, Zenon
      <4>2. Len(rows) \in DOMAIN rows /\ summaries[k].covers < Len(rows)
        BY <2>2, <3>1, <1>8
      <4> QED BY <4>1, <4>2 DEF TurnRecipe
    <3>2. CASE ~(call.first <= Len(rows))
      <4>1. new = <<Text(i), Tools(j), SummaryOf(k)>>
        BY <2>2, <3>2, Zenon
      <4> HIDE DEF new
      <4> QED BY <4>1 DEF TurnRecipe
    <3> QED BY <3>1, <3>2
  <2> QED BY <1>7, <2>1, <2>2
<1> HIDE DEF new
<1>10. PICK r : r = new /\ r = call'.recipe
  BY <1>6 DEF new
<1>11. TurnRecipe(r)'
  BY <1>1, <1>9, <1>10 DEF TurnRecipe
<1>12. Assembled'
  BY <1>1, <1>6, <1>10, <1>11 DEF Assembled, Recipe
<1>13. Assembling' /\ StreamOfCall'
  BY <1>4, <1>6 DEF Assembling, StreamOfCall
<1>14. MeasureInv'
  <2>1. CASE call.kind = "measure"
    <3>1. PICK a \in DOMAIN texts, b \in DOMAIN texts :
            /\ KeepsStatic(a, b)
            /\ call.recipe = <<Text(a), Tools(b), SummaryOf(Len(summaries))>>
            /\ call.first = Covered + 1
      BY <1>1, <2>1 DEF Inv, CallInv, MeasureInv, Measuring
    <3>2. Covered \in 0..Len(rows) /\ Len(rows) \in Nat
      BY CoveredIsRow DEF Inv, StoreInv
    <3>3. \E last \in Covered..Len(rows) : new = MeasuredRecipe(a, b, last)
      <4>1. CASE Covered < Len(rows)
        <5>1. call.first <= Len(rows)
          BY <3>1, <3>2, <4>1
        <5>2. new = MeasuredRecipe(a, b, Len(rows))
          BY <3>1, <4>1, <5>1, Zenon DEF new, MeasuredRecipe
        <5>3. Len(rows) \in Covered..Len(rows)
          BY <3>2
        <5> QED BY <5>2, <5>3
      <4>2. CASE ~(Covered < Len(rows))
        <5>1. ~(call.first <= Len(rows)) /\ ~(Covered < Covered)
          BY <3>1, <3>2, <4>2
        <5>2. new = MeasuredRecipe(a, b, Covered)
          BY <3>1, <5>1, Zenon DEF new, MeasuredRecipe
        <5>3. Covered \in Covered..Len(rows)
          BY <3>2
        <5> QED BY <5>2, <5>3
      <4> QED BY <4>1, <4>2
    <3>4. \A last : MeasuredRecipe(a, b, last)' = MeasuredRecipe(a, b, last)
      BY <1>1 DEF MeasuredRecipe, Covered, LatestSummary
    <3>5. Covered' = Covered /\ rows' = rows /\ texts' = texts
      BY <1>1 DEF Covered, LatestSummary
    <3>6. Measuring(a, b)'
      BY <1>1, <1>6, <1>10, <3>1, <3>3, <3>4, <3>5 DEF Measuring, KeepsStatic
    <3>7. summaries # <<>>
      BY <2>1 DEF Inv, CallInv, MeasureInv
    <3> QED BY <2>1, <1>1, <1>6, <3>5, <3>6, <3>7 DEF MeasureInv
  <2>2. CASE call.kind # "measure"
    BY <2>2, <1>6 DEF MeasureInv
  <2> QED BY <2>1, <2>2
<1>15. CallInv'
  BY <1>1, <1>6, <1>12, <1>13, <1>14 DEF Inv, CallInv, JobOfCall
<1> QED BY <1>3, <1>4, <1>13, <1>15 DEF Inv

LEMMA CallEnds ==
  ASSUME call' = NoCall, stream' = "off"
  PROVE  CallInv' /\ StreamOfCall'
BY DEF CallInv, NoCall, Assembling, Assembled, MeasureInv, JobOfCall, StreamOfCall

(* summary_segments: a request for all rows up to the tail, or none. *)
LEMMA SegmentsHold ==
  ASSUME Inv, NEW kind \in {"summary", "pass"}, NEW keep \in Nat,
         stream = "off", kept # NoJob, StoreText(Summarize), call' = SummarySegments(kind, keep),
         UNCHANGED streamVars, UNCHANGED <<rows, summaries, inferences, kept>>
  PROVE  Inv'
<1> DEFINE tail == TailSplit(keep)
<1>1. Grown /\ Len(texts) + 1 \in DOMAIN texts'
  BY GrownText DEF Inv, StoreInv
<1>2. StoreInv' /\ KeptInv'
  BY <1>1, StoreKept, KeptKept DEF Inv
<1>3. StreamInv' /\ stream' = "off"
  BY StreamKept DEF Inv, streamVars
<1>4. CASE ~(tail > Covered)
  <2>1. call' = [NoCall EXCEPT !.kind = kind, !.step = "nothing"]
    BY <1>4 DEF SummarySegments
  <2>2. /\ DOMAIN call' = DOMAIN NoCall /\ call'.kind = kind /\ call'.step = "nothing"
        /\ call'.first = 0
    BY <2>1 DEF NoCall
  <2>3. CallInv' /\ StreamOfCall'
    BY <1>3, <2>2 DEF CallInv, Assembling, Assembled, MeasureInv, JobOfCall, StreamOfCall
  <2> QED BY <1>2, <1>3, <2>3 DEF Inv
<1>5. SUFFICES ASSUME tail > Covered
                PROVE  Inv'
  BY <1>4
<1>6. call' = [NoCall EXCEPT !.kind = kind, !.step = "ask", !.first = keep, !.split = tail,
                  !.recipe = <<Text(Len(texts) + 1)>> \o Summary \o <<Messages(Covered + 1, tail)>>]
  BY <1>5 DEF SummarySegments
<1>7. /\ DOMAIN call' = DOMAIN NoCall /\ call'.kind = kind /\ call'.step = "ask"
       /\ call'.split = tail /\ call'.first = keep
       /\ call'.recipe = <<Text(Len(texts) + 1)>> \o Summary \o <<Messages(Covered + 1, tail)>>
  <2>1. PICK recipe : recipe = <<Text(Len(texts) + 1)>> \o Summary \o <<Messages(Covered + 1, tail)>>
    OBVIOUS
  <2>2. PICK split : split = tail
    OBVIOUS
  <2>3. call' = [NoCall EXCEPT !.kind = kind, !.step = "ask", !.first = keep, !.split = split,
                   !.recipe = recipe]
    BY <1>6, <2>1, <2>2
  <2>4. /\ DOMAIN call' = DOMAIN NoCall /\ call'.kind = kind /\ call'.step = "ask"
        /\ call'.split = split /\ call'.first = keep /\ call'.recipe = recipe
    BY <2>3 DEF NoCall
  <2> QED BY <2>1, <2>2, <2>4
<1>8. Covered \in Nat /\ tail \in DOMAIN rows
  <2>1. DOMAIN rows = 1..Len(rows) /\ Len(rows) \in Nat /\ Covered \in 0..Len(rows)
    BY CoveredIsRow, ListFacts DEF Inv, StoreInv, Lists
  <2>2. tail = Len(rows) - keep
    <3>1. tail = Len(rows) - keep \/ tail = Covered
      BY Zenon DEF TailSplit
    <3>2. ~(Covered > Covered)
      BY <2>1
    <3> QED BY <1>5, <3>1, <3>2, Zenon
  <2> QED BY <1>5, <2>1, <2>2
<1> HIDE DEF tail
<1>9. PICK r, split : r = call'.recipe /\ split = tail
  OBVIOUS
<1>10. split \in DOMAIN rows' /\ Covered < split /\ Covered' = Covered
  BY <1>8, <1>9, <1>5 DEF Covered, LatestSummary
<1>11. TaskRecipe(r, split)'
  <2>1. CASE summaries = <<>>
    <3>1. Covered = 0 /\ Summary = <<>>
      BY <2>1, LatestSummaryFacts DEF Inv, StoreInv
    <3>2. Messages(Covered + 1, tail) = Messages(1, split)
      BY <3>1, <1>9
    <3>3. r = <<Text(Len(texts) + 1), Messages(1, split)>>
      <4>1. r = <<Text(Len(texts) + 1)>> \o <<>> \o <<Messages(1, split)>>
        BY <3>1, <3>2, <1>7, <1>9
      <4> QED BY <4>1, Tuples, Zenon
    <3> QED BY <3>3, <1>1, <1>10 DEF TaskRecipe
  <2>2. CASE summaries # <<>>
    <3>1. PICK k \in DOMAIN summaries : Covered = summaries[k].covers /\ Summary = <<SummaryOf(k)>>
      BY <2>2, LatestSummaryFacts DEF Inv, StoreInv
    <3>2. r = <<Text(Len(texts) + 1), SummaryOf(k), Messages(summaries[k].covers + 1, split)>>
      <4>1. r = <<Text(Len(texts) + 1)>> \o <<SummaryOf(k)>>
                  \o <<Messages(summaries[k].covers + 1, split)>>
        BY <3>1, <1>7, <1>9
      <4> QED BY <4>1, Tuples, Zenon
    <3> QED BY <3>1, <3>2, <1>1, <1>10 DEF TaskRecipe
  <2> QED BY <2>1, <2>2
<1>12. Assembled'
  BY <1>9, <1>10, <1>11, <1>7 DEF Assembled, Recipe
<1>13. CallInv' /\ StreamOfCall'
  BY <1>3, <1>7, <1>12 DEF CallInv, Assembling, MeasureInv, JobOfCall, StreamOfCall
<1> QED BY <1>2, <1>3, <1>13 DEF Inv

LEMMA BeginSummaryStep ==
  ASSUME Inv, BeginSummary
  PROVE  Inv'
BY SegmentsHold, RecordingAssumption DEF BeginSummary

LEMMA BeginPassStep ==
  ASSUME Inv, BeginPass
  PROVE  Inv'
<1>1. /\ call.kind = "pass" /\ call.step = "split"
      /\ UNCHANGED streamVars /\ UNCHANGED <<rows, summaries, inferences, kept>>
      /\ StoreText(Summarize) /\ call' = SummarySegments("pass", call.first)
  BY DEF BeginPass
<1>2. stream = "off" /\ kept # NoJob /\ call.first \in Nat
  BY <1>1 DEF Inv, StreamOfCall, CallInv, JobOfCall
<1> QED BY <1>1, <1>2, SegmentsHold

(* Between two passes. *)
LEMMA FallbackHolds ==
  ASSUME NEW keep \in Nat, call' = Fallback(keep), stream' = "off", kept' # NoJob
  PROVE  CallInv' /\ StreamOfCall'
<1>1. /\ DOMAIN call' = DOMAIN NoCall /\ call'.kind = "pass" /\ call'.step = "split"
      /\ call'.first = keep
  BY DEF Fallback, NoCall
<1> QED BY <1>1 DEF CallInv, Assembling, Assembled, MeasureInv, JobOfCall, StreamOfCall

(* A step of a task that changes nothing that is stored. *)
LEMMA TaskStep ==
  ASSUME Inv, call.step # "sent", UNCHANGED streamVars,
         UNCHANGED <<texts, rows, summaries, inferences, kept>>,
         \/ call' = NoCall
         \/ kept # NoJob /\ \E keep \in Nat : call' = Fallback(keep)
  PROVE  Inv'
<1>1. Grown
  BY GrownNot DEF Inv, StoreInv
<1>2. StoreInv' /\ KeptInv'
  BY <1>1, StoreKept, KeptKept DEF Inv
<1>3. StreamInv' /\ stream' = "off"
  BY StreamKept DEF Inv, streamVars, StreamOfCall
<1>4. CallInv' /\ StreamOfCall'
  BY <1>3, CallEnds, FallbackHolds
<1> QED BY <1>2, <1>3, <1>4 DEF Inv

LEMMA GrowTailStep ==
  ASSUME Inv, GrowTail
  PROVE  Inv'
<1>1. kept # NoJob /\ call.first + 1 \in Nat /\ call.step # "sent"
  BY DEF GrowTail, Inv, CallInv, JobOfCall
<1> QED BY <1>1, TaskStep DEF GrowTail, storeVars

LEMMA NextPassStep ==
  ASSUME Inv, NextPass
  PROVE  Inv'
<1>1. kept # NoJob /\ KeepTail \in Nat /\ call.step # "sent"
  BY RecordingAssumption DEF NextPass, Inv, CallInv, JobOfCall
<1> QED BY <1>1, TaskStep DEF NextPass, storeVars

LEMMA GiveUpStep ==
  ASSUME Inv, GiveUp
  PROVE  Inv'
<1>1. call.step # "sent"
  BY DEF GiveUp
<1> QED BY <1>1, TaskStep DEF GiveUp, storeVars

LEMMA RetireStep ==
  ASSUME Inv, Retire
  PROVE  Inv'
<1>1. /\ call.step # "sent" /\ call' = NoCall /\ kept' = NoJob
      /\ UNCHANGED streamVars /\ UNCHANGED <<texts, rows, summaries, inferences>>
  BY DEF Retire
<1>2. Grown
  BY <1>1, GrownNot DEF Inv, StoreInv
<1>3. StoreInv' /\ KeptInv'
  BY <1>1, <1>2, StoreKept DEF Inv, KeptInv
<1>4. StreamInv' /\ stream' = "off"
  BY <1>1, StreamKept DEF Inv, streamVars, StreamOfCall
<1> QED BY <1>1, <1>3, <1>4, CallEnds DEF Inv

LEMMA MeasureStep ==
  ASSUME Inv, Measure
  PROVE  Inv'
<1>1. /\ call.kind = "measure" /\ call.step = "ask"
      /\ UNCHANGED streamVars /\ UNCHANGED <<texts, rows, summaries, inferences, kept>>
      /\ call' = [call EXCEPT !.step = "measured", !.request = Request(call.recipe)]
  BY DEF Measure, storeVars
<1>2. Grown
  BY <1>1, GrownNot DEF Inv, StoreInv
<1>3. StoreInv' /\ KeptInv'
  BY <1>1, <1>2, StoreKept, KeptKept DEF Inv
<1>4. StreamInv' /\ stream' = "off"
  BY <1>1, StreamKept DEF Inv, streamVars, StreamOfCall
<1>5. DOMAIN call = DOMAIN NoCall /\ Assembled /\ MeasureInv /\ JobOfCall
  BY DEF Inv, CallInv
<1>6. PICK r : r = call.recipe
  OBVIOUS
<1>7. /\ DOMAIN call' = DOMAIN NoCall /\ call'.kind = "measure" /\ call'.step = "measured"
      /\ call'.recipe = r /\ call'.request = Request(r)
  BY <1>1, <1>5, <1>6 DEF NoCall
<1>8. Recipe(r) /\ TurnRecipe(r)
  BY <1>1, <1>5, <1>6 DEF Assembled
<1>9. Recipe(r)' /\ Request(r)' = Request(r) /\ TurnRecipe(r)'
  BY <1>2, <1>8, RecipesStay, RequestStays, RecipeRefers DEF Inv, StoreInv
<1>10. Assembling' /\ Assembled' /\ StreamOfCall'
  BY <1>4, <1>7, <1>9 DEF Assembling, Assembled, StreamOfCall
<1>11. MeasureInv'
  <2>1. PICK i \in DOMAIN texts, j \in DOMAIN texts :
          /\ KeepsStatic(i, j)
          /\ \E last \in Covered..Len(rows) : r = MeasuredRecipe(i, j, last)
    BY <1>1, <1>5, <1>6 DEF MeasureInv, Measuring
  <2>2. Covered' = Covered /\ \A last : MeasuredRecipe(i, j, last)' = MeasuredRecipe(i, j, last)
    BY <1>1 DEF MeasuredRecipe, Covered, LatestSummary
  <2>3. Measuring(i, j)'
    BY <1>1, <1>7, <2>1, <2>2 DEF Measuring, KeepsStatic
  <2> QED BY <1>1, <1>5, <1>7, <2>3 DEF MeasureInv
<1>12. CallInv'
  BY <1>1, <1>5, <1>7, <1>10, <1>11 DEF CallInv, JobOfCall
<1> QED BY <1>3, <1>4, <1>10, <1>12 DEF Inv

LEMMA BeginReplayStep ==
  ASSUME Inv, BeginReplay
  PROVE  Inv'
<1>1. PICK k \in DOMAIN inferences :
        /\ stream = "off" /\ UNCHANGED streamVars
        /\ UNCHANGED <<texts, rows, summaries, inferences, kept>>
        /\ call' = [NoCall EXCEPT !.kind = "replay", !.step = "ask", !.recipe = inferences[k].recipe]
  BY DEF BeginReplay, storeVars
<1>2. Grown
  BY <1>1, GrownNot DEF Inv, StoreInv
<1>3. StoreInv' /\ KeptInv'
  BY <1>1, <1>2, StoreKept, KeptKept DEF Inv
<1>4. StreamInv' /\ stream' = "off"
  BY <1>1, StreamKept DEF Inv, streamVars
<1>5. PICK r : r = inferences[k].recipe
  OBVIOUS
<1>6. /\ DOMAIN call' = DOMAIN NoCall /\ call'.kind = "replay" /\ call'.step = "ask"
      /\ call'.recipe = r
  BY <1>1, <1>5 DEF NoCall
<1>7. Recipe(r)'
  BY <1>2, <1>5, RecipesStay DEF Inv, StoreInv, RecordsHold
<1>8. CallInv' /\ StreamOfCall'
  BY <1>4, <1>6, <1>7 DEF CallInv, Assembling, Assembled, MeasureInv, JobOfCall, StreamOfCall
<1> QED BY <1>3, <1>4, <1>8 DEF Inv

LEMMA AskStep ==
  ASSUME Inv, Ask
  PROVE  Inv'
<1>1. /\ call.step = "ask" /\ call.kind # "measure" /\ OpenStream
      /\ UNCHANGED <<texts, rows, summaries, inferences, kept>>
      /\ call' = [call EXCEPT !.step = "sent", !.request = Request(call.recipe)]
  BY DEF Ask, storeVars
<1>2. Grown
  BY <1>1, GrownNot DEF Inv, StoreInv
<1>3. StoreInv' /\ KeptInv'
  BY <1>1, <1>2, StoreKept, KeptKept DEF Inv
<1>4. StreamInv' /\ stream' = "open"
  BY <1>1, Opened
<1>5. DOMAIN call = DOMAIN NoCall /\ Assembled /\ call.kind # "none"
  BY <1>1 DEF Inv, CallInv, NoCall
<1>6. PICK r, split, first : r = call.recipe /\ split = call.split /\ first = call.first
  OBVIOUS
<1>7. /\ DOMAIN call' = DOMAIN NoCall /\ call'.kind = call.kind /\ call'.step = "sent"
      /\ call'.recipe = r /\ call'.split = split /\ call'.first = first /\ call'.request = Request(r)
  BY <1>1, <1>5, <1>6 DEF NoCall
<1>8. /\ Recipe(r)
      /\ call.kind = "turn" => TurnRecipe(r)
      /\ call.kind \in {"summary", "pass"} => TaskRecipe(r, split) /\ Covered < split
  BY <1>1, <1>5, <1>6 DEF Assembled
<1>9. /\ Recipe(r)' /\ Request(r)' = Request(r) /\ Covered' = Covered
      /\ TurnRecipe(r) => TurnRecipe(r)'
      /\ TaskRecipe(r, split) => TaskRecipe(r, split)'
  BY <1>1, <1>2, <1>8, RecipesStay, RequestStays, RecipeRefers
     DEF Inv, StoreInv, Covered, LatestSummary
<1>10. CallInv' /\ StreamOfCall'
  <2>1. Assembling' /\ Assembled' /\ StreamOfCall'
    BY <1>1, <1>4, <1>5, <1>7, <1>8, <1>9 DEF Assembling, Assembled, StreamOfCall
  <2>2. MeasureInv' /\ JobOfCall'
    BY <1>1, <1>6, <1>7 DEF Inv, CallInv, MeasureInv, JobOfCall
  <2> QED BY <1>5, <1>7, <2>1, <2>2 DEF CallInv
<1> QED BY <1>3, <1>4, <1>10 DEF Inv

LEMMA ReceiveStep ==
  ASSUME Inv, Receive
  PROVE  Inv'
<1>1. StreamStep /\ UNCHANGED <<texts, rows, summaries, inferences, kept, call>>
  BY DEF Receive, storeVars
<1>2. Grown
  BY <1>1, GrownNot DEF Inv, StoreInv
<1>3. StoreInv' /\ CallInv' /\ KeptInv'
  BY <1>1, <1>2, StoreKept, CallKept, KeptKept DEF Inv
<1>4. StreamInv' /\ stream = "open" /\ stream' \in {"open", "done", "failed"}
  BY <1>1, StreamInvariance DEF Inv
<1>5. StreamOfCall'
  BY <1>1, <1>4 DEF Inv, StreamOfCall
<1> QED BY <1>3, <1>4, <1>5 DEF Inv

(* The job of a turn keeps its prompt and its tools. *)
LEMMA JobHolds ==
  ASSUME Lists, SummariesGrow, Assembled, Grown,
         call.kind = "turn", call.step \in {"sent", "recorded"}, kept' = Job
  PROVE  KeptInv'
<1>1. TurnRecipe(call.recipe) /\ call.request = Request(call.recipe)
  BY DEF Assembled
<1>2. PICK i \in DOMAIN texts, j \in DOMAIN texts :
        /\ StaticSegments(call.recipe) = <<Text(i), Tools(j)>>
        /\ Request(call.recipe).messages[1] = texts[i] /\ Request(call.recipe).tools = <<texts[j]>>
  BY <1>1, TurnIsStatic
<1>3. /\ kept'.recipe = <<Text(i), Tools(j)>>
      /\ kept'.sent.messages[1] = texts[i] /\ kept'.sent.tools = <<texts[j]>>
  BY <1>1, <1>2 DEF Job
<1>4. i \in DOMAIN texts' /\ j \in DOMAIN texts' /\ texts'[i] = texts[i] /\ texts'[j] = texts[j]
  BY ExtendsFacts DEF Grown
<1> QED BY <1>3, <1>4 DEF KeptInv, KeepsStatic

LEMMA RecordErrorStep ==
  ASSUME Inv, RecordError
  PROVE  Inv'
<1>1. /\ call.step = "sent" /\ EndStream("off")
      /\ UNCHANGED <<texts, rows, summaries>>
      /\ \/ kept' = kept /\ call' = NoCall
         \/ call.kind = "turn" /\ kept' = Job /\ call' = NoCall
         \/ call.kind = "summary" /\ kept' = kept /\ call' = Fallback(KeepTail)
      /\ inferences' = Append(inferences,
           [recipe |-> call.recipe, sent |-> call.request, outcome |-> Failed])
  BY DEF RecordError, CloseStream
<1>2. Grown
  BY <1>1, GrownNot DEF Inv, StoreInv
<1>3. Lists /\ SummariesGrow /\ Assembled
  BY DEF Inv, StoreInv, CallInv
<1>4. StoreInv'
  <2> DEFINE x == [recipe |-> call.recipe, sent |-> call.request, outcome |-> Failed]
  <2>1. Recipe(x.recipe) /\ x.sent = Request(x.recipe)
    BY <1>1, <1>3 DEF Assembled
  <2>2. inferences' = Append(inferences, x)
    BY <1>1
  <2> HIDE DEF x
  <2> QED BY <1>1, <2>1, <2>2, StoreRecords DEF Inv
<1>5. KeptInv'
  BY <1>1, <1>2, <1>3, JobHolds, KeptKept DEF Inv
<1>6. StreamInv' /\ stream' = "off"
  BY <1>1, Ended
<1>7. call.kind = "summary" => kept # NoJob
  BY DEF Inv, CallInv, JobOfCall
<1>8. CallInv' /\ StreamOfCall'
  BY <1>1, <1>6, <1>7, CallEnds, FallbackHolds, RecordingAssumption
<1> QED BY <1>4, <1>5, <1>6, <1>8 DEF Inv

LEMMA RecordStep ==
  ASSUME Inv, Record
  PROVE  Inv'
<1>1. /\ call.step = "sent" /\ EndStream("off")
      /\ UNCHANGED <<texts, rows, summaries, kept>>
      /\ call' = [call EXCEPT !.step = "recorded", !.response = Response]
      /\ inferences' = Append(inferences,
           [recipe |-> call.recipe, sent |-> call.request, outcome |-> Response])
  BY DEF Record, CloseStream
<1>2. Grown
  BY <1>1, GrownNot DEF Inv, StoreInv
<1>3. /\ Lists /\ SummariesGrow /\ Assembled /\ call.kind # "none" /\ call.kind # "measure"
      /\ DOMAIN call = DOMAIN NoCall
  BY <1>1 DEF Inv, StoreInv, CallInv, MeasureInv, NoCall
<1>4. PICK r, split, first, response :
        r = call.recipe /\ split = call.split /\ first = call.first /\ response = Response
  OBVIOUS
<1>5. /\ Recipe(r) /\ call.request = Request(r)
      /\ call.kind = "turn" => TurnRecipe(r)
      /\ call.kind \in {"summary", "pass"} => TaskRecipe(r, split) /\ Covered < split
  BY <1>1, <1>3, <1>4 DEF Assembled
<1>6. PICK x : x = [recipe |-> r, sent |-> Request(r), outcome |-> response]
  OBVIOUS
<1>7. inferences' = Append(inferences, x)
  BY <1>1, <1>4, <1>5, <1>6
<1>8. StoreInv'
  <2>1. Recipe(x.recipe) /\ x.sent = Request(x.recipe)
    BY <1>5, <1>6
  <2> QED BY <1>1, <1>7, <2>1, StoreRecords DEF Inv
<1>9. /\ inferences' # <<>>
      /\ inferences'[Len(inferences')].recipe = r
      /\ inferences'[Len(inferences')].outcome = response
  <2>1. Len(inferences') = Len(inferences) + 1 /\ inferences'[Len(inferences) + 1] = x
    BY <1>3, <1>7, AppendFacts DEF Lists
  <2>2. inferences' # <<>>
    BY <1>3, <2>1, ListFacts DEF Lists
  <2> QED BY <1>6, <2>1, <2>2
<1>10. /\ DOMAIN call' = DOMAIN NoCall /\ call'.kind = call.kind /\ call'.step = "recorded"
       /\ call'.recipe = r /\ call'.split = split /\ call'.request = Request(r)
       /\ call'.first = first /\ call'.response = response
  BY <1>1, <1>3, <1>4, <1>5 DEF NoCall
<1>11. /\ Recipe(r)' /\ Request(r)' = Request(r) /\ Covered' = Covered
       /\ TurnRecipe(r) => TurnRecipe(r)'
       /\ TaskRecipe(r, split) => TaskRecipe(r, split)'
  BY <1>1, <1>2, <1>3, <1>5, RecipesStay, RequestStays, RecipeRefers DEF Covered, LatestSummary
<1>12. KeptInv'
  BY <1>1, <1>2, KeptKept DEF Inv
<1>13. StreamInv' /\ stream' = "off"
  BY <1>1, Ended
<1>14. Assembled'
  BY <1>3, <1>5, <1>9, <1>10, <1>11 DEF Assembled
<1>15. CallInv' /\ StreamOfCall'
  <2>1. MeasureInv' /\ JobOfCall'
    BY <1>1, <1>3, <1>4, <1>10 DEF Inv, CallInv, MeasureInv, JobOfCall
  <2> QED BY <1>3, <1>10, <1>13, <1>14, <2>1 DEF CallInv, Assembling, StreamOfCall
<1> QED BY <1>8, <1>12, <1>13, <1>15 DEF Inv

LEMMA StoreReplyStep ==
  ASSUME Inv, StoreReply
  PROVE  Inv'
<1>1. /\ call.kind = "turn" /\ call.step = "recorded"
      /\ AppendRow("assistant", call.response.content)
      /\ kept' = kept \/ kept' = Job
      /\ call' = NoCall
      /\ UNCHANGED streamVars /\ UNCHANGED <<texts, summaries, inferences>>
  BY DEF StoreReply
<1>2. Grown
  BY <1>1, GrownRow DEF Inv, StoreInv
<1>3. StoreInv' /\ KeptInv'
  BY <1>1, <1>2, StoreKept, KeptKept, JobHolds DEF Inv, StoreInv, CallInv
<1>4. StreamInv' /\ stream' = "off"
  BY <1>1, StreamKept DEF Inv, streamVars, StreamOfCall
<1> QED BY <1>1, <1>3, <1>4, CallEnds DEF Inv

LEMMA StoreCallsStep ==
  ASSUME Inv, StoreCalls
  PROVE  Inv'
<1>1. /\ call.step = "recorded"
      /\ AppendRow("assistant", call.response.calls)
      /\ call' = [NoCall EXCEPT !.kind = "turn", !.step = "results", !.todo = call.response.calls]
      /\ UNCHANGED streamVars /\ UNCHANGED <<texts, summaries, inferences, kept>>
  BY DEF StoreCalls
<1>2. Grown
  BY <1>1, GrownRow DEF Inv, StoreInv
<1>3. StoreInv' /\ KeptInv'
  BY <1>1, <1>2, StoreKept, KeptKept DEF Inv
<1>4. StreamInv' /\ stream' = "off"
  BY <1>1, StreamKept DEF Inv, streamVars, StreamOfCall
<1>5. DOMAIN call' = DOMAIN NoCall /\ call'.kind = "turn" /\ call'.step = "results"
  BY <1>1 DEF NoCall
<1>6. CallInv' /\ StreamOfCall'
  BY <1>4, <1>5 DEF CallInv, Assembling, Assembled, MeasureInv, JobOfCall, StreamOfCall
<1> QED BY <1>3, <1>4, <1>6 DEF Inv

LEMMA StoreResultStep ==
  ASSUME Inv, StoreResult
  PROVE  Inv'
<1>1. /\ call.step = "results"
      /\ AppendRow("tool", Head(call.todo).id)
      /\ call' = NoCall \/ call' = [call EXCEPT !.todo = Tail(@)]
      /\ UNCHANGED streamVars /\ UNCHANGED <<texts, summaries, inferences, kept>>
  BY DEF StoreResult
<1>2. Grown
  BY <1>1, GrownRow DEF Inv, StoreInv
<1>3. StoreInv' /\ KeptInv'
  BY <1>1, <1>2, StoreKept, KeptKept DEF Inv
<1>4. StreamInv' /\ stream' = "off"
  BY <1>1, StreamKept DEF Inv, streamVars, StreamOfCall
<1>5. CASE call' = NoCall
  BY <1>3, <1>4, <1>5, CallEnds DEF Inv
<1>6. CASE call' = [call EXCEPT !.todo = Tail(@)]
  <2>1. DOMAIN call = DOMAIN NoCall /\ call.kind # "none" /\ call.kind # "measure" /\ JobOfCall
    BY <1>1 DEF Inv, CallInv, MeasureInv, NoCall
  <2>2. /\ DOMAIN call' = DOMAIN NoCall /\ call'.kind = call.kind /\ call'.step = "results"
        /\ call'.first = call.first
    BY <1>1, <1>6, <2>1 DEF NoCall
  <2>3. CallInv' /\ StreamOfCall'
    BY <1>1, <1>4, <2>1, <2>2 DEF CallInv, Assembling, Assembled, MeasureInv, JobOfCall, StreamOfCall
  <2> QED BY <1>3, <1>4, <2>3 DEF Inv
<1> QED BY <1>1, <1>5, <1>6

(* A summary is appended, by a finished job or by a pass. *)
LEMMA SummaryAppended ==
  ASSUME Inv, call.kind \in {"summary", "pass"}, call.step = "recorded",
         summaries' = Append(summaries, SummaryRow), UNCHANGED <<texts, rows, inferences>>
  PROVE  StoreInv' /\ Grown
<1>1. /\ summaries' = Append(summaries, [covers |-> call.split, content |-> call.response.content,
                                         inference |-> Len(inferences)])
      /\ UNCHANGED <<texts, rows, inferences>>
  BY DEF SummaryRow
<1>2. Lists /\ SummariesGrow /\ SummariesRecorded /\ RecordsHold /\ Assembled
  BY DEF Inv, StoreInv, CallInv
<1>3. /\ TaskRecipe(call.recipe, call.split) /\ Covered < call.split
      /\ inferences # <<>>
      /\ inferences[Len(inferences)].recipe = call.recipe
      /\ inferences[Len(inferences)].outcome = call.response
  BY <1>2 DEF Assembled
<1> DEFINE n == Len(summaries)
<1>4. PICK x : x = [covers |-> call.split, content |-> call.response.content,
                    inference |-> Len(inferences)]
  OBVIOUS
<1>5. /\ summaries' = Append(summaries, x) /\ IsList(summaries')
      /\ DOMAIN summaries = 1..n /\ DOMAIN summaries' = 1..(n + 1) /\ n \in Nat
      /\ \A k \in 1..n : summaries'[k] = summaries[k]
      /\ summaries'[n + 1] = x
  BY <1>1, <1>2, <1>4, AppendFacts, ListFacts DEF Lists
<1>6. Grown
  BY <1>1, <1>2, <1>5, AppendExtends, SameExtends DEF Grown, Lists
<1>7. Lists'
  BY <1>1, <1>2, <1>5 DEF Lists
<1>8. DOMAIN rows = 1..Len(rows) /\ Len(rows) \in Nat /\ x.covers = call.split /\ x.covers \in DOMAIN rows
  BY <1>2, <1>3, <1>4, ListFacts DEF Lists, TaskRecipe
<1> HIDE DEF n
<1>9. \A k \in 1..n : summaries[k].covers < x.covers
  <2> SUFFICES ASSUME NEW k \in 1..n
               PROVE  summaries[k].covers < x.covers
    OBVIOUS
  <2>1. summaries # <<>>
    BY <1>5 DEF n
  <2>2. n \in 1..n /\ summaries[n].covers < x.covers
    BY <2>1, <1>2, <1>3, <1>5, <1>8, LatestSummaryFacts DEF n
  <2>3. k = n \/ summaries[k].covers < summaries[n].covers
    <3>1. k = n \/ k < n
      BY <1>5
    <3> QED BY <3>1, <2>2, <1>2, <1>5 DEF SummariesGrow
  <2>4. summaries[k].covers \in Nat /\ summaries[n].covers \in Nat
    <3>1. summaries[k].covers \in 1..Len(rows) /\ summaries[n].covers \in 1..Len(rows)
      BY <2>2, <1>2, <1>5, <1>8 DEF SummariesGrow
    <3> QED BY <3>1, <1>8
  <2> QED BY <2>2, <2>3, <2>4, <1>8
<1>10. SummariesGrow'
  <2>1. \A k \in DOMAIN summaries' : summaries'[k].covers \in DOMAIN rows'
    <3> TAKE k \in DOMAIN summaries'
    <3>1. k \in 1..n \/ k = n + 1
      BY <1>5
    <3> QED BY <3>1, <1>1, <1>2, <1>5, <1>8 DEF SummariesGrow
  <2>2. \A j, k \in DOMAIN summaries' : j < k => summaries'[j].covers < summaries'[k].covers
    <3> SUFFICES ASSUME NEW j \in DOMAIN summaries', NEW k \in DOMAIN summaries', j < k
                 PROVE  summaries'[j].covers < summaries'[k].covers
      OBVIOUS
    <3>1. j \in 1..n /\ (k \in 1..n \/ k = n + 1)
      BY <1>5
    <3> QED BY <3>1, <1>2, <1>5, <1>9 DEF SummariesGrow
  <2> QED BY <2>1, <2>2 DEF SummariesGrow
<1>11. SummariesRecorded'
  <2> SUFFICES ASSUME NEW k \in DOMAIN summaries'
               PROVE  /\ summaries'[k].inference \in DOMAIN inferences'
                      /\ inferences'[summaries'[k].inference].outcome.content = summaries'[k].content
                      /\ TaskRecipe(inferences[summaries[k].inference].recipe, summaries[k].covers)'
    BY DEF SummariesRecorded
  <2>1. PICK m, r, split : /\ m = summaries'[k].inference /\ r = inferences[m].recipe
                           /\ split = summaries'[k].covers
    OBVIOUS
  <2>2. /\ m \in DOMAIN inferences /\ inferences[m].outcome.content = summaries'[k].content
        /\ TaskRecipe(r, split)
    <3>1. CASE k \in 1..n
      BY <3>1, <2>1, <1>2, <1>5 DEF SummariesRecorded
    <3>2. CASE k = n + 1
      <4>1. DOMAIN inferences = 1..Len(inferences) /\ Len(inferences) \in Nat \ {0}
        BY <1>2, <1>3, ListFacts DEF Lists, IsList
      <4>2. m = Len(inferences) /\ split = call.split /\ summaries'[k].content = call.response.content
        BY <3>2, <2>1, <1>4, <1>5
      <4> QED BY <4>1, <4>2, <2>1, <1>3
    <3> QED BY <3>1, <3>2, <1>5
  <2>3. TaskRecipe(r, split)'
    BY <2>2, <1>6, RecipesStay
  <2> QED BY <2>1, <2>2, <2>3, <1>1
<1>12. RecordsHold'
  BY <1>1, <1>2, <1>6, RecordsStay
<1> QED BY <1>6, <1>7, <1>10, <1>11, <1>12 DEF StoreInv

LEMMA StoreSummaryStep ==
  ASSUME Inv, StoreSummary
  PROVE  Inv'
<1>1. /\ call.step = "recorded" /\ kept' = NoJob /\ call' = NoCall
      /\ UNCHANGED streamVars
  BY DEF StoreSummary
<1>2. StoreInv'
  BY SummaryAppended DEF StoreSummary
<1>3. StreamInv' /\ stream' = "off" /\ KeptInv'
  BY <1>1, StreamKept DEF Inv, streamVars, StreamOfCall, KeptInv
<1> QED BY <1>1, <1>2, <1>3, CallEnds DEF Inv

LEMMA StorePassStep ==
  ASSUME Inv, StorePass
  PROVE  Inv'
<1>1. /\ call.kind = "pass" /\ call.step = "recorded"
      /\ summaries' = Append(summaries, SummaryRow)
      /\ call' = [NoCall EXCEPT !.kind = "measure", !.step = "summary", !.recipe = kept.recipe]
      /\ UNCHANGED streamVars /\ UNCHANGED <<texts, rows, inferences, kept>>
  BY DEF StorePass
<1>2. StoreInv' /\ Grown
  BY <1>1, SummaryAppended
<1>3. StreamInv' /\ stream' = "off" /\ KeptInv'
  BY <1>1, <1>2, StreamKept, KeptKept DEF Inv, streamVars, StreamOfCall
<1>4. kept # NoJob
  BY <1>1 DEF Inv, CallInv, JobOfCall
<1>5. PICK i \in DOMAIN texts, j \in DOMAIN texts : KeepsStatic(i, j)
  BY <1>4 DEF Inv, KeptInv
<1>6. /\ DOMAIN call' = DOMAIN NoCall /\ call'.kind = "measure" /\ call'.step = "summary"
      /\ call'.recipe = <<Text(i), Tools(j)>>
  BY <1>1, <1>5 DEF NoCall, KeepsStatic
<1>7. Measuring(i, j)' /\ i \in DOMAIN texts' /\ j \in DOMAIN texts'
  BY <1>1, <1>5, <1>6 DEF Measuring, KeepsStatic
<1>8. summaries' # <<>>
  <2>1. IsList(summaries)
    BY DEF Inv, StoreInv, Lists
  <2>2. Len(summaries') = Len(summaries) + 1 /\ Len(summaries) \in Nat
    BY <1>1, <2>1, AppendFacts, ListFacts
  <2> QED BY <2>2
<1>9. CallInv' /\ StreamOfCall'
  BY <1>1, <1>3, <1>4, <1>6, <1>7, <1>8
     DEF CallInv, Assembling, Assembled, MeasureInv, JobOfCall, StreamOfCall
<1> QED BY <1>2, <1>3, <1>9 DEF Inv

LEMMA DiscardStep ==
  ASSUME Inv, Discard
  PROVE  Inv'
<1>1. /\ call.step = "recorded" /\ call' = NoCall
      /\ UNCHANGED streamVars /\ UNCHANGED <<texts, rows, summaries, inferences, kept>>
  BY DEF Discard, storeVars
<1>2. Grown
  BY <1>1, GrownNot DEF Inv, StoreInv
<1>3. StoreInv' /\ KeptInv'
  BY <1>1, <1>2, StoreKept, KeptKept DEF Inv
<1>4. StreamInv' /\ stream' = "off"
  BY <1>1, StreamKept DEF Inv, streamVars, StreamOfCall
<1> QED BY <1>1, <1>3, <1>4, CallEnds DEF Inv

LEMMA WriteStep ==
  ASSUME Inv, Write
  PROVE  Inv'
<1>1. /\ AppendRow("system", Len(rows))
      /\ UNCHANGED streamVars /\ UNCHANGED <<texts, summaries, inferences, kept, call>>
  BY DEF Write
<1>2. Grown
  BY <1>1, GrownRow DEF Inv, StoreInv
<1>3. StoreInv' /\ CallInv' /\ KeptInv'
  BY <1>1, <1>2, StoreKept, CallKept, KeptKept DEF Inv
<1>4. StreamInv' /\ StreamOfCall'
  BY <1>1, StreamKept DEF Inv, streamVars, StreamOfCall
<1> QED BY <1>3, <1>4 DEF Inv

LEMMA RestartStep ==
  ASSUME Inv, Restart
  PROVE  Inv'
<1>1. /\ call' = NoCall /\ EndStream("off")
      /\ UNCHANGED <<texts, rows, summaries, inferences, kept>>
  BY DEF Restart, CloseStream, storeVars
<1>2. Grown
  BY <1>1, GrownNot DEF Inv, StoreInv
<1>3. StoreInv' /\ KeptInv'
  BY <1>1, <1>2, StoreKept, KeptKept DEF Inv
<1>4. StreamInv' /\ stream' = "off"
  BY <1>1, Ended
<1> QED BY <1>1, <1>3, <1>4, CallEnds DEF Inv

LEMMA StutterStep ==
  ASSUME Inv, UNCHANGED vars
  PROVE  Inv'
<1>1. UNCHANGED streamVars /\ UNCHANGED <<texts, rows, summaries, inferences, kept, call>>
  BY DEF vars, storeVars
<1>2. Grown
  BY <1>1, GrownNot DEF Inv, StoreInv
<1>3. StoreInv' /\ CallInv' /\ KeptInv'
  BY <1>1, <1>2, StoreKept, CallKept, KeptKept DEF Inv
<1>4. StreamInv' /\ StreamOfCall'
  BY <1>1, StreamKept DEF Inv, streamVars, StreamOfCall
<1> QED BY <1>3, <1>4 DEF Inv

(* What every state satisfies: the invariant is inductive. *)
THEOREM Invariance == Spec => []Inv
<1>1. Init => Inv
  BY StartFacts
<1>2. Inv /\ [Next]_vars => Inv'
  <2> SUFFICES ASSUME Inv, [Next]_vars
               PROVE  Inv'
    OBVIOUS
  <2> QED BY BeginTurnStep, StoreToolsStep, ReadSummaryStep, ReadNewestStep, BeginSummaryStep,
             BeginPassStep, GrowTailStep, BeginReplayStep, AskStep, ReceiveStep, RecordErrorStep,
             RecordStep, StoreReplyStep, StoreCallsStep, StoreResultStep, StoreSummaryStep,
             StorePassStep, MeasureStep, RetireStep, NextPassStep, GiveUpStep, DiscardStep, WriteStep, RestartStep, StutterStep DEF Next
<1> QED BY <1>1, <1>2, PTL DEF Spec

(* The stream of the model is open while a request is out and only then,   *)
(* and whatever a recorded recipe refers to exists.                        *)
THEOREM Typing == Spec => []TypeOK
<1>1. Inv => TypeOK
  <2> SUFFICES ASSUME Inv
               PROVE  TypeOK
    OBVIOUS
  <2>1. stream \in {"off", "open", "done", "failed"} /\ (stream # "off" <=> call.step = "sent")
    BY DEF Inv, StreamInv, StreamOfCall
  <2>2. ASSUME NEW k \in DOMAIN inferences,
               NEW s \in {inferences[k].recipe[j] : j \in DOMAIN inferences[k].recipe}
        PROVE  CASE s.kind \in {"text", "tools"} -> s.id \in DOMAIN texts
                 [] s.kind = "summary"           -> s.id \in DOMAIN summaries
                 [] OTHER -> 1 <= s.first /\ s.first <= s.last /\ s.last <= Len(rows)
    <3>1. Refers(s)
      BY RecipeRefers DEF Inv, StoreInv, RecordsHold
    <3>2. DOMAIN rows = 1..Len(rows) /\ Len(rows) \in Nat
      BY ListFacts DEF Inv, StoreInv, Lists
    <3> QED BY <3>1, <3>2 DEF Refers, Text, Tools, SummaryOf, Messages
  <2> QED BY <2>1, <2>2 DEF TypeOK
<1> QED BY <1>1, Invariance, PTL

(* However the model's answer is cut into chunks, the response put         *)
(* together from them is the answer.                                       *)
THEOREM Answers == Spec => []ResponseIsAnswer
<1>1. Inv => ResponseIsAnswer
  BY Answered DEF Inv
<1> QED BY <1>1, Invariance, PTL

(* A recorded recipe gives the request that was sent, whatever was stored  *)
(* since.                                                                  *)
THEOREM Replays == Spec => []ReplayIsExact
<1>1. Inv => ReplayIsExact
  BY DEF Inv, StoreInv, RecordsHold, ReplayIsExact
<1> QED BY <1>1, Invariance, PTL

(* A recipe's rows follow on its summary, or are all there are. *)
GoesOnFromStart(r) ==
  \A j \in DOMAIN r : r[j].kind # "summary" /\ (r[j].kind = "messages" => r[j].first = 1)

GoesOnFrom(r, m) ==
  /\ \E j \in DOMAIN r : r[j].kind = "summary"
  /\ \A j \in DOMAIN r : /\ r[j].kind = "summary" => r[j].id = m
                         /\ r[j].kind = "messages" => r[j].first = summaries[m].covers + 1

LEMMA RecipeGoesOn ==
  ASSUME NEW r, Recipe(r)
  PROVE  GoesOnFromStart(r) \/ \E m \in DOMAIN summaries : GoesOnFrom(r, m)
<1>1. \A i, a, b : /\ Text(i).kind = "text" /\ Tools(i).kind = "tools"
                   /\ SummaryOf(i).kind = "summary" /\ SummaryOf(i).id = i
                   /\ Messages(a, b).kind = "messages" /\ Messages(a, b).first = a
  BY DEF Text, Tools, SummaryOf, Messages
<1>2. CASE \E i, j, b : \/ r = <<Text(i), Tools(j)>>
                        \/ r = <<Text(i), Tools(j), Messages(1, b)>>
                        \/ r = <<Text(i), Messages(1, b)>>
  BY <1>1, <1>2 DEF GoesOnFromStart
<1>3. ASSUME NEW m \in DOMAIN summaries, NEW i, NEW j, NEW b,
             \/ r = <<Text(i), Tools(j), SummaryOf(m)>>
             \/ r = <<Text(i), Tools(j), SummaryOf(m), Messages(summaries[m].covers + 1, b)>>
             \/ r = <<Text(i), SummaryOf(m), Messages(summaries[m].covers + 1, b)>>
      PROVE  GoesOnFrom(r, m)
  BY <1>1, <1>3 DEF GoesOnFrom
<1> QED BY <1>2, <1>3 DEF Recipe, TurnRecipe, TaskRecipe

(* Every request goes on where its summary ends, and every summary is the  *)
(* answer to the request for just the rows it covers.                      *)
THEOREM Connected == Spec => []RecipesConnect
<1>1. Inv => RecipesConnect
  <2> SUFFICES ASSUME Inv
               PROVE  RecipesConnect
    OBVIOUS
  <2>1. ASSUME NEW k \in DOMAIN summaries
        PROVE  LET record == inferences[summaries[k].inference]
               IN /\ record.outcome.content = summaries[k].content
                  /\ record.recipe[Len(record.recipe)].last = summaries[k].covers
    <3> DEFINE record == inferences[summaries[k].inference]
               split  == summaries[k].covers
    <3>1. record.outcome.content = summaries[k].content /\ TaskRecipe(record.recipe, split)
      BY DEF Inv, StoreInv, SummariesRecorded
    <3> HIDE DEF record, split
    <3>2. PICK r : r = record.recipe
      OBVIOUS
    <3>3. \/ \E x : r = <<x, Messages(1, split)>>
          \/ \E x, y, a : r = <<x, y, Messages(a, split)>>
      BY <3>1, <3>2 DEF TaskRecipe
    <3>4. r[Len(r)].last = split
      <4>1. \A a : Messages(a, split).last = split
        BY DEF Messages
      <4>2. \A x, y : Len(<<x, y>>) = 2 /\ <<x, y>>[2] = y
        OBVIOUS
      <4>3. \A x, y, z : Len(<<x, y, z>>) = 3 /\ <<x, y, z>>[3] = z
        OBVIOUS
      <4> QED BY <3>3, <4>1, <4>2, <4>3
    <3> QED BY <3>1, <3>2, <3>4 DEF record, split
  <2>2. ASSUME NEW k \in DOMAIN inferences
        PROVE  LET recipe == inferences[k].recipe
                   before == {summaries[recipe[j].id].covers :
                                j \in {i \in DOMAIN recipe : recipe[i].kind = "summary"}}
               IN \A j \in DOMAIN recipe : recipe[j].kind = "messages" =>
                    IF before = {} THEN recipe[j].first = 1 ELSE {recipe[j].first - 1} = before
    <3> DEFINE r == inferences[k].recipe
               before == {summaries[r[j].id].covers : j \in {i \in DOMAIN r : r[i].kind = "summary"}}
    <3>1. Recipe(r)
      BY DEF Inv, StoreInv, RecordsHold
    <3> HIDE DEF r
    <3>2. \A m \in DOMAIN summaries : summaries[m].covers \in Nat
      BY ListFacts DEF Inv, StoreInv, Lists, SummariesGrow
    <3>3. CASE GoesOnFromStart(r)
      <4>1. before = {} /\ \A j \in DOMAIN r : r[j].kind = "messages" => r[j].first = 1
        BY <3>3 DEF GoesOnFromStart
      <4> QED BY <4>1 DEF r
    <3>4. ASSUME NEW m \in DOMAIN summaries, GoesOnFrom(r, m)
          PROVE  \A j \in DOMAIN r : r[j].kind = "messages" =>
                   IF before = {} THEN r[j].first = 1 ELSE {r[j].first - 1} = before
      <4>1. before = {summaries[m].covers}
        BY <3>4 DEF GoesOnFrom
      <4>2. \A j \in DOMAIN r : r[j].kind = "messages" => r[j].first = summaries[m].covers + 1
        BY <3>4 DEF GoesOnFrom
      <4> HIDE DEF before
      <4> QED BY <4>1, <4>2, <3>2
    <3> QED BY <3>1, <3>3, <3>4, RecipeGoesOn DEF r
  <2> QED BY <2>1, <2>2 DEF RecipesConnect
<1> QED BY <1>1, Invariance, PTL

(* What the fallback measures says what it should. *)
LEMMA MeasuredSays ==
  ASSUME Lists, SummariesGrow, summaries # <<>>, NEW i \in DOMAIN texts, NEW j \in DOMAIN texts,
         NEW last \in Covered..Len(rows), NEW r, r = MeasuredRecipe(i, j, last)
  PROVE  Request(r) = [messages |-> <<texts[i], summaries[LatestSummary].content>>
                                      \o SubSeq(rows, Covered + 1, last),
                       tools    |-> <<texts[j]>>]
<1> DEFINE n == Len(summaries)
           c == summaries[n].content
           range == SubSeq(rows, Covered + 1, last)
<1>1. n \in DOMAIN summaries /\ LatestSummary = n
  <2>1. n \in DOMAIN summaries /\ Summary = <<SummaryOf(n)>>
    BY LatestSummaryFacts
  <2>2. LatestSummary # 0 /\ <<SummaryOf(LatestSummary)>> = <<SummaryOf(n)>>
    BY <2>1 DEF Summary
  <2>3. SummaryOf(LatestSummary).id = SummaryOf(n).id
    BY <2>2
  <2> QED BY <2>1, <2>3 DEF SummaryOf
<1>2. Covered \in 0..Len(rows) /\ Len(rows) \in Nat /\ last \in Nat
  BY CoveredIsRow
<1>3. Said(SummaryOf(n)) = <<c>>
  BY DEF Said, SummaryOf
<1>4. Said(Messages(Covered + 1, last)) = range
  BY DEF Said, ReadRange, Messages
<1>5. <<texts[i]>> \o <<c>> = <<texts[i], c>>
  BY Tuples, Zenon
<1>6. SummaryOf(n).kind = "summary" /\ Messages(Covered + 1, last).kind = "messages"
  BY DEF SummaryOf, Messages
<1>7. Refers(Text(i)) /\ Refers(Tools(j)) /\ Refers(SummaryOf(n))
  BY <1>1 DEF Refers
<1>8. Request(r) = [messages |-> Request(r).messages, tools |-> Request(r).tools]
  BY DEF Request
<1>9. \A x : <<texts[i], c>> \o <<>> = <<texts[i], c>>
  BY Tuples, Zenon
<1> HIDE DEF n, c, range
<1>10. CASE Covered < last
  <2>1. r = <<Text(i), Tools(j), SummaryOf(n), Messages(Covered + 1, last)>>
    BY <1>10, ThreeAndOne, Zenon DEF MeasuredRecipe, n
  <2>2. Refers(Messages(Covered + 1, last))
    <3>1. DOMAIN rows = 1..Len(rows)
      BY ListFacts DEF Lists
    <3>2. Covered + 1 \in DOMAIN rows /\ last \in DOMAIN rows /\ Covered + 1 <= last
      BY <1>2, <1>10, <3>1
    <3> QED BY <3>2 DEF Refers
  <2>3. /\ DOMAIN r = 1..4 /\ r = [k \in 1..4 |-> r[k]] /\ r[1] = Text(i) /\ r[2] = Tools(j)
        /\ r[3] = SummaryOf(n) /\ r[4] = Messages(Covered + 1, last)
        /\ \A k \in 1..4 : k = 1 \/ k = 2 \/ k = 3 \/ k = 4
    BY <2>1
  <2>4. TurnShape(r, 4, i, j)
    <3>1. \A k \in 1..4 : Refers(r[k])
      BY <1>7, <2>2, <2>3
    <3>2. \A k \in 1..4 : k # 1 /\ k # 2 => r[k].kind \in {"summary", "messages"}
      BY <1>6, <2>3
    <3> QED BY <2>3, <3>1, <3>2 DEF TurnShape
  <2>5. /\ Request(r).messages = (<<texts[i]>> \o Said(r[3])) \o Said(r[4])
        /\ Request(r).tools = <<texts[j]>>
    <3>1. PICK four \in {2, 3, 4} : four = 4
      OBVIOUS
    <3>2. TurnShape(r, four, i, j)
      BY <2>4, <3>1
    <3>3. TurnSays(r, four, i) /\ Request(r).tools = <<texts[j]>>
      BY <3>2, TurnRequest
    <3> QED BY <3>1, <3>3 DEF TurnSays
  <2>6. Request(r).messages = <<texts[i], c>> \o range
    BY <1>3, <1>4, <1>5, <2>3, <2>5, Zenon
  <2> QED BY <1>1, <1>8, <2>5, <2>6 DEF c, range
<1>11. CASE ~(Covered < last)
  <2>1. r = <<Text(i), Tools(j), SummaryOf(n)>>
    BY <1>11, Zenon DEF MeasuredRecipe, n
  <2>2. /\ DOMAIN r = 1..3 /\ r = [k \in 1..3 |-> r[k]] /\ r[1] = Text(i) /\ r[2] = Tools(j)
        /\ r[3] = SummaryOf(n) /\ \A k \in 1..3 : k = 1 \/ k = 2 \/ k = 3
    BY <2>1
  <2>3. TurnShape(r, 3, i, j)
    <3>1. \A k \in 1..3 : Refers(r[k])
      BY <1>7, <2>2
    <3>2. \A k \in 1..3 : k # 1 /\ k # 2 => r[k].kind \in {"summary", "messages"}
      BY <1>6, <2>2
    <3> QED BY <2>2, <3>1, <3>2 DEF TurnShape
  <2>4. Request(r).messages = <<texts[i]>> \o Said(r[3]) /\ Request(r).tools = <<texts[j]>>
    <3>1. PICK three \in {2, 3, 4} : three = 3
      OBVIOUS
    <3>2. TurnShape(r, three, i, j)
      BY <2>3, <3>1
    <3>3. TurnSays(r, three, i) /\ Request(r).tools = <<texts[j]>>
      BY <3>2, TurnRequest
    <3> QED BY <3>1, <3>3 DEF TurnSays
  <2>5. range = <<>>
    BY <1>2, <1>11 DEF range
  <2>6. Request(r).messages = <<texts[i], c>> \o range
    BY <1>3, <1>5, <1>9, <2>2, <2>4, <2>5, Zenon
  <2> QED BY <1>1, <1>8, <2>4, <2>6 DEF c, range
<1> QED BY <1>10, <1>11

(* The fallback measures what the agent would be sent: the prompt and the  *)
(* tools of the request that the compaction is owed for, the newest        *)
(* summary and the rows after it.                                          *)
THEOREM Measured == Spec => []MeasuredAsSent
<1>1. Inv => MeasuredAsSent
  <2> SUFFICES ASSUME Inv, call.step = "measured"
               PROVE  \E last \in Covered..Len(rows) :
                        call.request =
                          [messages |-> <<kept.sent.messages[1], summaries[LatestSummary].content>>
                                          \o SubSeq(rows, Covered + 1, last),
                           tools    |-> kept.sent.tools]
    BY DEF MeasuredAsSent
  <2>1. PICK i \in DOMAIN texts, j \in DOMAIN texts, last \in Covered..Len(rows) :
          /\ summaries # <<>> /\ KeepsStatic(i, j)
          /\ call.recipe = MeasuredRecipe(i, j, last)
    BY DEF Inv, CallInv, MeasureInv, Measuring
  <2>2. call.request = Request(call.recipe)
    BY DEF Inv, CallInv, Assembled
  <2>3. Request(call.recipe)
          = [messages |-> <<texts[i], summaries[LatestSummary].content>>
                            \o SubSeq(rows, Covered + 1, last),
             tools    |-> <<texts[j]>>]
    BY <2>1, MeasuredSays DEF Inv, StoreInv
  <2> QED BY <2>1, <2>2, <2>3 DEF KeepsStatic
<1> QED BY <1>1, Invariance, PTL
=============================================================================
