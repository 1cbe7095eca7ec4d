------------------------- MODULE CompactionProofs -------------------------
(***************************************************************************)
(* Theorems about Compaction, for any limits, sizes and bounds.            *)
(***************************************************************************)
EXTENDS Compaction, SequenceTheorems, TLAPS

(* Rows only add tokens. *)
Growing == \A i, j \in 1..Rows : i <= j => written[i] <= written[j]

(* Each summary continues the one before it and leaves a tail. *)
Chained ==
  /\ \A i \in DOMAIN summaries :
       /\ summaries[i].first \in 1..summaries[i].covers
       /\ summaries[i].covers + KeepTail <= Rows
  /\ \A i \in DOMAIN summaries : i > 1 => summaries[i].first = summaries[i - 1].covers + 1

(* What the request of a worker will have summarized continues the newest  *)
(* summary: no other summary is stored meanwhile.                          *)
RecipeFollows ==
  worker \in Inferring =>
    /\ recipe.first = Covered + 1
    /\ recipe.covers > Covered
    /\ recipe.covers + KeepTail <= Rows
    /\ recipe.told = 1..recipe.covers

(* A worker works on a stored job and never retains less than the tail. *)
WorkerBusy ==
  /\ worker # "off" => job > 0
  /\ worker = "fallback" => keep >= KeepTail

Oversized == turn = "capacity" => asked > MaxInput

(* What a task has concluded from the history it read stays true of what   *)
(* it read: rows written since do not change the tokens of older ones.     *)
Concluded ==
  /\ job > 0 => Rows > 0
  /\ seen \in 0..Rows
  /\ worker \in Inferring \cup Retiring => seen > 0
  /\ worker = "ordinary" => seen <= recipe.covers + KeepTail
  /\ worker = "nothing" => seen <= Covered + KeepTail
  /\ worker = "small" => ContextUpTo(seen) < Threshold

Inv ==
  /\ TypeOK
  /\ Growing
  /\ Chained
  /\ RowsReadOnce
  /\ SummariesAreWhole
  /\ RecipeFollows
  /\ WorkerBusy
  /\ Oversized
  /\ Concluded

-----------------------------------------------------------------------------
(* The tables. *)

(* The tables are sequences of rows. *)
LEMMA TableFacts ==
  ASSUME TypeOK
  PROVE  /\ Rows \in Nat
         /\ \A i \in 1..Rows : written[i] \in Nat
         /\ Len(summaries) \in Nat
         /\ DOMAIN summaries = 1..Len(summaries)
         /\ summaries # <<>> => Len(summaries) \in DOMAIN summaries
         /\ \A i \in DOMAIN summaries :
              /\ summaries[i].covers \in Nat
              /\ summaries[i].first \in Nat
              /\ summaries[i].tokens \in Nat
<1>1. written \in Seq(Nat) /\ summaries \in Seq(SummaryRow)
  BY DEF TypeOK
<1>2. Rows \in Nat /\ \A i \in 1..Rows : written[i] \in Nat
  BY <1>1, LenProperties, ElementOfSeq DEF Rows
<1>3. /\ Len(summaries) \in Nat
      /\ DOMAIN summaries = 1..Len(summaries)
      /\ \A i \in 1..Len(summaries) : summaries[i] \in SummaryRow
  BY <1>1, LenProperties, ElementOfSeq
<1>4. summaries # <<>> => Len(summaries) # 0
  BY <1>1, EmptySeq
<1>5. 1..MaxOutput \subseteq Nat
  OBVIOUS
<1>6. \A i \in 1..Len(summaries) : /\ summaries[i].covers \in Nat
                                   /\ summaries[i].first \in Nat
                                   /\ summaries[i].tokens \in Nat
  BY <1>3, <1>5 DEF SummaryRow
<1> QED BY <1>2, <1>3, <1>4, <1>6

(* The largest covers_to_seq is that of the row inserted last. *)
LEMMA LatestIsLast ==
  ASSUME Inv
  PROVE  LatestSummary = IF summaries = <<>> THEN NoSummary ELSE summaries[Len(summaries)]
<1> DEFINE L == Len(summaries)
           Latest(i) == \A j \in DOMAIN summaries : summaries[j].covers <= summaries[i].covers
<1>0. CASE summaries = <<>>
  BY <1>0 DEF LatestSummary
<1> SUFFICES ASSUME summaries # <<>>
             PROVE  LatestSummary = summaries[L]
  BY <1>0
<1>1. L \in DOMAIN summaries /\ DOMAIN summaries = 1..L /\ L \in Nat
  BY TableFacts DEF Inv
<1>2. \A i \in DOMAIN summaries :
        /\ summaries[i].covers \in Nat
        /\ summaries[i].first \in Nat
        /\ summaries[i].first <= summaries[i].covers
  BY TableFacts DEF Inv, Chained
<1>3. \A i, j \in DOMAIN summaries : i < j => summaries[i].covers < summaries[j].covers
  BY <1>2 DEF Inv, RowsReadOnce
<1>4. Latest(L)
  BY <1>1, <1>2, <1>3
<1>5. ASSUME NEW i \in DOMAIN summaries, i # L PROVE ~Latest(i)
  <2>1. i < L
    BY <1>1, <1>5
  <2> QED BY <1>1, <1>2, <1>3, <2>1
<1>6. LatestSummary = summaries[CHOOSE i \in DOMAIN summaries : Latest(i)]
  BY DEF LatestSummary
<1> HIDE DEF Latest, L
<1>7. (CHOOSE i \in DOMAIN summaries : Latest(i)) = L
  BY <1>1, <1>4, <1>5
<1> QED BY <1>6, <1>7

(* The newest summary: its type, what it says and where it ends. *)
LEMMA LatestFacts ==
  ASSUME Inv
  PROVE  /\ Rows \in Nat
         /\ KeepTail \in Nat
         /\ Covered \in Nat /\ Covered <= Rows
         /\ LatestSummary.tokens \in Nat
         /\ LatestSummary.told = 1..Covered
<1>1. KeepTail \in Nat
  BY CompactionAssumption DEF CompactionAssumption
<1>2. CASE summaries = <<>>
  <2>1. LatestSummary = NoSummary /\ Rows \in Nat
    BY <1>2, LatestIsLast, TableFacts DEF Inv
  <2>2. 1..0 = {}
    OBVIOUS
  <2> QED BY <1>1, <2>1, <2>2 DEF NoSummary, Covered
<1>3. CASE summaries # <<>>
  <2>1. LatestSummary = summaries[Len(summaries)] /\ Len(summaries) \in DOMAIN summaries
    BY <1>3, LatestIsLast, TableFacts DEF Inv
  <2> QED BY <1>1, <2>1, TableFacts DEF Inv, Chained, SummariesAreWhole, Covered
<1> QED BY <1>2, <1>3

LEMMA TokensType ==
  ASSUME Inv, NEW i \in 0..Rows, NEW j \in i..Rows
  PROVE  TokensTo(j) \in Nat /\ Tokens(i, j) \in Nat
<1>1. Rows \in Nat /\ \A k \in 1..Rows : written[k] \in Nat
  BY TableFacts DEF Inv
<1>2. TokensTo(i) \in Nat /\ TokensTo(j) \in Nat /\ TokensTo(i) <= TokensTo(j)
  BY <1>1 DEF TokensTo, Growing, Inv
<1> QED BY <1>2 DEF Tokens

LEMMA ContextType ==
  ASSUME Inv
  PROVE  ContextSize \in Nat
<1>1. Static \in Nat
  BY CompactionAssumption DEF CompactionAssumption
<1>2. Tokens(Covered, Rows) \in Nat
  BY LatestFacts, TokensType
<1> QED BY <1>1, <1>2, LatestFacts DEF ContextSize, ContextUpTo

(* A recipe that retains at least the tail continues the newest summary. *)
LEMMA RecipeIsGood ==
  ASSUME Inv, NEW k \in Nat, k >= KeepTail, TailSplit(k) > Covered
  PROVE  /\ Recipe(k) \in SummaryRecipe
         /\ Recipe(k).first = Covered + 1
         /\ Recipe(k).covers > Covered
         /\ Recipe(k).covers + KeepTail <= Rows
         /\ Recipe(k).told = 1..Recipe(k).covers
<1> USE LatestFacts
<1>1. KeepTail \in Nat
  BY CompactionAssumption DEF CompactionAssumption
<1>2. Covered + k < Rows /\ TailSplit(k) = Rows - k
  BY DEF TailSplit
<1>3. TailSplit(k) \in Nat /\ TailSplit(k) + KeepTail <= Rows
  BY <1>1, <1>2
<1>4. (1..Covered) \cup ((Covered + 1)..TailSplit(k)) = 1..TailSplit(k)
  BY <1>3
<1> HIDE DEF TailSplit
<1> QED BY <1>3, <1>4 DEF Recipe, SummaryRecipe

(* Appending a row disturbs no summary. *)
LEMMA WriteKeeps ==
  ASSUME Inv, NEW n \in Nat, WriteRow(n), UNCHANGED summaries
  PROVE  /\ written' \in Seq(Nat)
         /\ Rows' = Rows + 1
         /\ \A i \in 1..Rows : written'[i] = written[i]
         /\ Covered' = Covered
         /\ Growing' /\ Chained' /\ RowsReadOnce' /\ SummariesAreWhole'
<1>1. /\ Rows \in Nat /\ TokensTo(Rows) \in Nat
      /\ \A i \in 1..Rows : written[i] \in Nat
      /\ \A i \in 1..Rows : written[i] <= TokensTo(Rows)
  <2>1. Rows \in Nat /\ \A i \in 1..Rows : written[i] \in Nat
    BY TableFacts DEF Inv
  <2>2. \A i \in 1..Rows : written[i] <= written[Rows]
    BY <2>1 DEF Inv, Growing
  <2> QED BY <2>1, <2>2 DEF TokensTo
<1>2. written \in Seq(Nat) /\ TokensTo(Rows) + n \in Nat
  BY <1>1 DEF Inv, TypeOK
<1>3. /\ written' \in Seq(Nat)
      /\ Rows' = Rows + 1
      /\ \A i \in 1..Rows : written'[i] = written[i]
      /\ written'[Rows + 1] = TokensTo(Rows) + n
  BY <1>2, AppendProperties DEF WriteRow, Rows
<1>4. Covered' = Covered
  BY DEF Covered, LatestSummary
<1>5. Growing'
  <2> SUFFICES ASSUME NEW i \in 1..(Rows + 1), NEW j \in 1..(Rows + 1), i <= j
               PROVE  written'[i] <= written'[j]
    BY <1>3 DEF Growing
  <2>1. CASE j \in 1..Rows
    BY <1>1, <1>3, <2>1 DEF Inv, Growing
  <2>2. CASE j = Rows + 1 /\ i \in 1..Rows
    <3>1. written[i] \in Nat /\ written[i] <= TokensTo(Rows)
      BY <1>1, <2>2
    <3> QED BY <1>1, <1>3, <2>2, <3>1
  <2>3. CASE j = Rows + 1 /\ i = Rows + 1
    BY <1>1, <1>3, <2>3
  <2> QED BY <1>1, <2>1, <2>2, <2>3
<1>6. Chained'
  <2>1. KeepTail \in Nat
    BY CompactionAssumption DEF CompactionAssumption
  <2> QED BY <1>1, <1>3, <2>1, TableFacts DEF Inv, Chained
<1>7. RowsReadOnce' /\ SummariesAreWhole'
  BY DEF Inv, RowsReadOnce, SummariesAreWhole
<1> QED BY <1>3, <1>4, <1>5, <1>6, <1>7

(* Neither does leaving the tables alone. *)
LEMMA TablesKept ==
  ASSUME Inv, UNCHANGED <<written, summaries>>
  PROVE  /\ Rows' = Rows
         /\ Covered' = Covered
         /\ LatestSummary' = LatestSummary
         /\ Growing' /\ Chained' /\ RowsReadOnce' /\ SummariesAreWhole'
  BY DEF Inv, Rows, Covered, LatestSummary, Growing, Chained, RowsReadOnce, SummariesAreWhole

(* Storing the summary a worker asked for extends the chain by one. *)
LEMMA StoreKeeps ==
  ASSUME Inv, worker \in Inferring, NEW n \in 1..MaxOutput, StoreSummary(n), UNCHANGED written
  PROVE  /\ summaries' \in Seq(SummaryRow)
         /\ Growing' /\ Chained' /\ RowsReadOnce' /\ SummariesAreWhole'
         /\ summaries' # summaries
         /\ summaries'[Len(summaries')].covers = recipe.covers
<1> DEFINE L == Len(summaries)
           new == [covers |-> recipe.covers, tokens |-> n,
                   first |-> recipe.first, told |-> recipe.told]
<1>1. /\ recipe.first = Covered + 1
      /\ recipe.covers \in Nat /\ recipe.covers > Covered
      /\ recipe.covers + KeepTail <= Rows
      /\ recipe.told = 1..recipe.covers
  BY DEF Inv, RecipeFollows, TypeOK, SummaryRecipe
<1>2. new \in SummaryRow
  BY DEF Inv, TypeOK, SummaryRecipe, SummaryRow
<1>3. new.first = Covered + 1 /\ new.covers = recipe.covers /\ new.told = 1..new.covers
  BY <1>1
<1>4. summaries' = Append(summaries, new)
  BY DEF StoreSummary
<1> HIDE DEF new
<1>5. /\ L \in Nat
      /\ summaries' \in Seq(SummaryRow)
      /\ Len(summaries') = L + 1
      /\ DOMAIN summaries' = 1..(L + 1)
      /\ DOMAIN summaries = 1..L
      /\ summaries'[L + 1] = new
      /\ \A i \in 1..L : summaries'[i] = summaries[i]
  <2>1. summaries \in Seq(SummaryRow)
    BY DEF Inv, TypeOK
  <2>2. summaries' \in Seq(SummaryRow) /\ Len(summaries') = L + 1
    BY <1>2, <1>4, <2>1, AppendProperties
  <2>3. summaries'[L + 1] = new /\ \A i \in 1..L : summaries'[i] = summaries[i]
    BY <1>2, <1>4, <2>1, AppendProperties
  <2> QED BY <2>1, <2>2, <2>3, LenProperties
<1>6. L > 0 => Covered = summaries[L].covers
  BY <1>5, LatestIsLast DEF Covered
<1>7. \A i \in 1..L : summaries[i].covers \in Nat /\ summaries[i].covers <= Covered
  <2> SUFFICES ASSUME NEW i \in 1..L PROVE summaries[i].covers \in Nat /\ summaries[i].covers <= Covered
    OBVIOUS
  <2>1. /\ summaries[i].covers \in Nat
        /\ summaries[L].covers \in Nat /\ summaries[L].first \in Nat
    BY <1>5, TableFacts DEF Inv
  <2>2. i < L => summaries[i].covers < summaries[L].covers
    BY <1>5, <2>1 DEF Inv, RowsReadOnce, Chained
  <2> QED BY <1>5, <1>6, <2>1, <2>2
<1> HIDE DEF L
<1>8. Growing' /\ Rows' = Rows
  BY DEF Inv, Growing, Rows
<1>9. Chained'
  <2>1. \A i \in 1..(L + 1) : /\ summaries'[i].first \in 1..summaries'[i].covers
                              /\ summaries'[i].covers + KeepTail <= Rows'
    <3> SUFFICES ASSUME NEW i \in 1..(L + 1)
                 PROVE  /\ summaries'[i].first \in 1..summaries'[i].covers
                        /\ summaries'[i].covers + KeepTail <= Rows'
      OBVIOUS
    <3>1. CASE i \in 1..L
      BY <1>5, <1>8, <3>1 DEF Inv, Chained
    <3>2. CASE i = L + 1
      BY <1>1, <1>3, <1>5, <1>8, <3>2, LatestFacts
    <3> QED BY <1>5, <3>1, <3>2
  <2>2. \A i \in 1..(L + 1) : i > 1 => summaries'[i].first = summaries'[i - 1].covers + 1
    <3> SUFFICES ASSUME NEW i \in 1..(L + 1), i > 1
                 PROVE  summaries'[i].first = summaries'[i - 1].covers + 1
      OBVIOUS
    <3>1. CASE i \in 1..L
      BY <1>5, <1>8, <3>1 DEF Inv, Chained
    <3>2. CASE i = L + 1
      BY <1>3, <1>5, <1>6, <3>2
    <3> QED BY <1>5, <3>1, <3>2
  <2> QED BY <1>5, <2>1, <2>2 DEF Chained
<1>10. RowsReadOnce'
  <2> SUFFICES ASSUME NEW i \in 1..(L + 1), NEW j \in 1..(L + 1), i < j
               PROVE  summaries'[i].covers < summaries'[j].first
    BY <1>5 DEF RowsReadOnce
  <2>1. CASE j \in 1..L
    BY <1>5, <2>1 DEF Inv, RowsReadOnce
  <2>2. CASE j = L + 1
    BY <1>3, <1>5, <1>7, <2>2, LatestFacts
  <2> QED BY <1>5, <2>1, <2>2
<1>11. SummariesAreWhole'
  <2> SUFFICES ASSUME NEW i \in 1..(L + 1)
               PROVE  summaries'[i].told = 1..summaries'[i].covers
    BY <1>5 DEF SummariesAreWhole
  <2>1. CASE i \in 1..L
    BY <1>5, <2>1 DEF Inv, SummariesAreWhole
  <2>2. CASE i = L + 1
    BY <1>3, <1>5, <2>2
  <2> QED BY <1>5, <2>1, <2>2
<1>12. summaries' # summaries
  BY <1>5
<1> QED BY <1>3, <1>5, <1>8, <1>9, <1>10, <1>11, <1>12

-----------------------------------------------------------------------------
(* Each step preserves the invariant. *)

LEMMA Limits ==
  /\ KeepTail \in Nat /\ KeepTail > 0
  /\ MaxInput \in Nat /\ MaxInput > 0
  /\ MaxOutput \in Nat /\ Threshold \in Nat /\ MaxChat \in Nat
  /\ Threshold > 0
  /\ \A n \in RowSize : n \in Nat
  /\ \A n \in 1..MaxOutput : n \in Nat /\ n > 0
  BY CompactionAssumption DEF CompactionAssumption

(* What every step that stores no summary does to the tables. *)
TablesQuiet ==
  /\ written' \in Seq(Nat) /\ summaries' \in Seq(SummaryRow)
  /\ Rows' \in {Rows, Rows + 1}
  /\ \A i \in 1..Rows : written'[i] = written[i]
  /\ UNCHANGED summaries
  /\ Covered' = Covered
  /\ Growing' /\ Chained' /\ RowsReadOnce' /\ SummariesAreWhole'

LEMMA WriteQuiet ==
  ASSUME Inv, NEW n \in Nat, WriteRow(n), UNCHANGED summaries
  PROVE  TablesQuiet
  BY WriteKeeps DEF TablesQuiet, Inv, TypeOK

LEMMA IdleQuiet ==
  ASSUME Inv, UNCHANGED <<written, summaries>>
  PROVE  TablesQuiet
<1>1. written' \in Seq(Nat) /\ summaries' \in Seq(SummaryRow)
  BY DEF Inv, TypeOK
<1> QED BY <1>1, TablesKept DEF TablesQuiet

(* The worker goes on undisturbed by a row that is written. *)
LEMMA WorkerKeeps ==
  ASSUME Inv, TablesQuiet, UNCHANGED <<worker, recipe>>
  PROVE  RecipeFollows'
  BY LatestFacts DEF Inv, TablesQuiet, RecipeFollows, TypeOK, SummaryRecipe

(* What was measured of the rows there were is the same with more of them. *)
LEMMA MeasureKeeps ==
  ASSUME Inv, TablesQuiet, UNCHANGED seen
  PROVE  /\ seen \in 0..(Rows')
         /\ ContextUpTo(seen)' = ContextUpTo(seen)
<1>1. Rows \in Nat /\ Covered \in 0..Rows /\ seen \in 0..Rows
  BY LatestFacts DEF Inv, Concluded
<1>2. /\ Rows' \in {Rows, Rows + 1} /\ Covered' = Covered /\ LatestSummary' = LatestSummary
      /\ \A i \in 1..Rows : written'[i] = written[i]
  BY DEF TablesQuiet, LatestSummary
<1>3. TokensTo(Covered)' = TokensTo(Covered) /\ TokensTo(seen)' = TokensTo(seen)
  BY <1>1, <1>2 DEF TokensTo
<1> QED BY <1>1, <1>2, <1>3 DEF ContextUpTo, Tokens

(* So a row that is written disturbs no conclusion. *)
LEMMA ConclusionKeeps ==
  ASSUME Inv, TablesQuiet, UNCHANGED <<worker, recipe, seen>>, job' > 0 => Rows' > 0
  PROVE  Concluded'
<1>1. Covered' = Covered
  BY DEF TablesQuiet
<1>2. /\ worker \in Inferring \cup Retiring => seen > 0
      /\ worker = "ordinary" => seen <= recipe.covers + KeepTail
      /\ worker = "nothing" => seen <= Covered + KeepTail
      /\ worker = "small" => ContextUpTo(seen) < Threshold
  BY DEF Inv, Concluded
<1> QED BY <1>1, <1>2, MeasureKeeps DEF Concluded

(* A request for a summary that retains at least the tail. *)
LEMMA AskKeeps ==
  ASSUME Inv, TablesQuiet, UNCHANGED <<written, summaries>>,
         NEW k \in Nat, k >= KeepTail, TailSplit(k) > Covered, recipe' = Recipe(k)
  PROVE  recipe' \in SummaryRecipe /\ RecipeFollows'
<1>1. Rows' = Rows /\ Covered' = Covered
  BY TablesKept
<1> QED BY <1>1, RecipeIsGood DEF RecipeFollows

LEMMA InitInv == Init => Inv
<1> SUFFICES ASSUME Init PROVE Inv
  OBVIOUS
<1> USE DEF Init, NoRecipe
<1>1. /\ written \in Seq(Nat) /\ summaries \in Seq(SummaryRow)
      /\ Len(written) = 0 /\ Len(summaries) = 0
      /\ DOMAIN summaries = {}
  <2>1. written \in Seq(Nat) /\ summaries \in Seq(SummaryRow)
    BY EmptySeq
  <2>2. Len(written) = 0 /\ Len(summaries) = 0
    BY EmptySeq
  <2>3. DOMAIN summaries = 1..0 /\ 1..0 = {}
    BY <2>1, <2>2, LenProperties
  <2> QED BY <2>1, <2>2, <2>3
<1>2. TypeOK
  <2>1. NoRecipe \in SummaryRecipe
    BY DEF SummaryRecipe
  <2>2. 0 \in 0..MaxRestarts /\ 0 \in 0..MaxChat
    BY CompactionAssumption DEF CompactionAssumption
  <2> QED BY <1>1, <2>1, <2>2 DEF TypeOK, TurnPlace, WorkerPlace
<1>3. Growing /\ Chained /\ RowsReadOnce /\ SummariesAreWhole
  BY <1>1 DEF Growing, Chained, RowsReadOnce, SummariesAreWhole, Rows
<1>4. RecipeFollows /\ WorkerBusy /\ Oversized
  BY DEF RecipeFollows, WorkerBusy, Oversized, Inferring
<1>5. Concluded
  BY <1>1 DEF Concluded, Inferring, Retiring, Rows
<1> QED BY <1>2, <1>3, <1>4, <1>5 DEF Inv

(* The steps of the turn and of those who write to its history. *)
LEMMA TurnKeeps ==
  ASSUME Inv, BeginTurn \/ TurnStep \/ AbandonTurn \/ Narrate
  PROVE  Inv'
<1> USE Limits DEF turnVars, passVars, workerVars, GoTurn, EndTurn, AdmitDeferred,
                   TurnPlace, WorkerPlace, Inferring, Retiring
<1>t. /\ job \in Nat /\ turn \in TurnPlace /\ asked \in Nat /\ spent \in 0..MaxChat
      /\ worker \in WorkerPlace /\ recipe \in SummaryRecipe
      /\ keep \in Nat /\ previous \in Nat /\ failed \in BOOLEAN
      /\ restarts \in 0..MaxRestarts /\ seen \in Nat
      /\ WorkerBusy /\ RecipeFollows /\ Oversized
  BY DEF Inv, TypeOK
<1>r. Rows \in Nat /\ (job > 0 => Rows > 0)
  BY TableFacts DEF Inv, Concluded
<1> DEFINE Quiet == /\ TablesQuiet /\ UNCHANGED <<recipe, keep, previous, restarts, seen>>
                    /\ worker' \in {worker, "admitted"}
                    /\ job' > 0 => job > 0 \/ Rows' > 0
           Rest == /\ job' \in Nat /\ turn' \in TurnPlace /\ asked' \in Nat /\ spent' \in 0..MaxChat
                   /\ failed' \in BOOLEAN
                   /\ WorkerBusy' /\ Oversized' /\ RecipeFollows'
<1>c. ASSUME Quiet PROVE Concluded'
  <2>1. job' > 0 => Rows' > 0
    BY <1>c, <1>r DEF TablesQuiet
  <2>2. CASE worker' = worker
    BY <1>c, <2>1, <2>2, ConclusionKeeps
  <2>3. CASE worker' = "admitted"
    BY <1>c, <2>1, <2>3, MeasureKeeps DEF Concluded
  <2> QED BY <1>c, <2>2, <2>3
<1>g. ASSUME Quiet, Rest PROVE Inv'
  BY <1>t, <1>c, <1>g DEF Inv, TypeOK, TablesQuiet
<1>w. ASSUME TablesQuiet, UNCHANGED <<worker, recipe>> PROVE RecipeFollows'
  BY <1>w, WorkerKeeps
<1>a. ASSUME TablesQuiet, UNCHANGED recipe, AdmitDeferred PROVE RecipeFollows'
  <2>1. CASE worker = "off"
    BY <1>a, <2>1 DEF RecipeFollows
  <2>2. CASE worker # "off"
    BY <1>a, <2>2, WorkerKeeps
  <2> QED BY <2>1, <2>2
<1>1. CASE BeginTurn
  <2>1. TablesQuiet
    <3>1. CASE UNCHANGED written
      BY <1>1, <3>1, IdleQuiet DEF BeginTurn
    <3>2. CASE \E n \in RowSize : WriteRow(n)
      BY <1>1, <3>2, WriteQuiet DEF BeginTurn
    <3> QED BY <1>1, <3>1, <3>2 DEF BeginTurn
  <2> QED BY <1>1, <1>t, <1>g, <1>w, <2>1 DEF BeginTurn, WorkerBusy, Oversized
<1>2. CASE CheckPending
  <2>1. TablesQuiet
    BY <1>2, IdleQuiet DEF CheckPending
  <2>2. RecipeFollows'
    BY <1>2, <1>w, <1>a, <2>1 DEF CheckPending
  <2> QED BY <1>2, <1>t, <1>g, <2>1, <2>2 DEF CheckPending, WorkerBusy, Oversized
<1>3. CASE Bail
  <2>1. TablesQuiet
    BY <1>3, IdleQuiet DEF Bail
  <2>2. RecipeFollows'
    BY <1>3, <1>w, <2>1 DEF Bail
  <2>3. spent' \in 0..MaxChat /\ asked' \in Nat /\ turn' = "idle"
    BY <1>3 DEF Bail
  <2> QED BY <1>3, <1>t, <1>g, <2>1, <2>2, <2>3 DEF Bail, WorkerBusy, Oversized
<1>4. CASE WaitOver
  <2>1. TablesQuiet
    BY <1>4, IdleQuiet DEF WaitOver
  <2> QED BY <1>4, <1>t, <1>g, <1>w, <2>1 DEF WaitOver, WorkerBusy, Oversized
<1>5. CASE Spend
  <2>1. TablesQuiet
    BY <1>5, IdleQuiet DEF Spend
  <2> QED BY <1>5, <1>t, <1>g, <1>w, <2>1 DEF Spend, WorkerBusy, Oversized
<1>6. CASE Ask
  <2>1. TablesQuiet
    BY <1>6, IdleQuiet DEF Ask
  <2>2. ContextSize \in Nat
    BY ContextType
  <2> QED BY <1>6, <1>t, <1>g, <1>w, <2>1, <2>2 DEF Ask, Fits, WorkerBusy, Oversized
<1>7. CASE Recover
  <2>1. TablesQuiet /\ Rows' = Rows
    BY <1>7, IdleQuiet, TablesKept DEF Recover
  <2>2. asked > 0
    BY <1>7, <1>t DEF Recover, Oversized
  <2>3. RecipeFollows'
    BY <1>7, <1>w, <1>a, <2>1 DEF Recover
  <2> QED BY <1>7, <1>t, <1>r, <1>g, <2>1, <2>2, <2>3 DEF Recover, WorkerBusy, Oversized
<1>8. CASE ToolResult
  <2>1. TablesQuiet
    BY <1>8, WriteQuiet DEF ToolResult
  <2> QED BY <1>8, <1>t, <1>g, <1>w, <2>1 DEF ToolResult, WorkerBusy, Oversized
<1>9. ASSUME NEW n \in 1..MaxOutput, Reply(n) PROVE Inv'
  <2>1. TablesQuiet /\ Rows' = Rows + 1
    BY <1>9, WriteQuiet, WriteKeeps DEF Reply
  <2>2. RecipeFollows'
    BY <1>9, <1>w, <1>a, <2>1 DEF Reply
  <2> QED BY <1>9, <1>t, <1>r, <1>g, <2>1, <2>2 DEF Reply, WorkerBusy, Oversized
<1>10. ASSUME NEW n \in 1..MaxOutput, CallTools(n) PROVE Inv'
  <2>1. TablesQuiet
    BY <1>10, WriteQuiet DEF CallTools
  <2> QED BY <1>10, <1>t, <1>g, <1>w, <2>1 DEF CallTools, WorkerBusy, Oversized
<1>11. CASE AbandonTurn
  <2>1. TablesQuiet
    BY <1>11, IdleQuiet DEF AbandonTurn
  <2> QED BY <1>11, <1>t, <1>g, <1>w, <2>1 DEF AbandonTurn, WorkerBusy, Oversized
<1>12. CASE Narrate
  <2>1. TablesQuiet
    BY <1>12, WriteQuiet DEF Narrate
  <2> QED BY <1>12, <1>t, <1>g, <1>w, <2>1 DEF Narrate, WorkerBusy, Oversized
<1> QED BY <1>1, <1>2, <1>3, <1>4, <1>5, <1>6, <1>7, <1>8, <1>9, <1>10, <1>11, <1>12 DEF TurnStep

(* The steps of the worker, its failures, and a restart of the process. *)
LEMMA WorkKeeps ==
  ASSUME Inv, WorkerStep \/ Break \/ Restart
  PROVE  Inv'
<1> USE Limits DEF turnVars, passVars, workerVars, WorkerEnds, Fail,
                   WorkerPlace, Inferring, Retiring, NoRecipe, ReadHistory
<1>t. /\ job \in Nat /\ turn \in TurnPlace /\ asked \in Nat /\ spent \in 0..MaxChat
      /\ worker \in WorkerPlace /\ recipe \in SummaryRecipe
      /\ keep \in Nat /\ previous \in Nat /\ failed \in BOOLEAN
      /\ restarts \in 0..MaxRestarts /\ seen \in Nat
      /\ WorkerBusy /\ RecipeFollows /\ Oversized
  BY DEF Inv, TypeOK
<1>r. /\ Rows \in Nat /\ Covered \in Nat /\ seen \in 0..Rows
      /\ job > 0 => Rows > 0
  BY LatestFacts DEF Inv, Concluded
<1>n. NoRecipe \in SummaryRecipe
  BY DEF SummaryRecipe
<1> DEFINE Tables == /\ written' \in Seq(Nat) /\ summaries' \in Seq(SummaryRow)
                     /\ Growing' /\ Chained' /\ RowsReadOnce' /\ SummariesAreWhole'
           Rest == /\ job' \in Nat /\ worker' \in WorkerPlace /\ recipe' \in SummaryRecipe
                   /\ keep' \in Nat /\ previous' \in Nat /\ failed' \in BOOLEAN
                   /\ WorkerBusy' /\ RecipeFollows' /\ Concluded'
<1>g. ASSUME Tables, Rest, UNCHANGED <<turn, asked, spent, restarts>> PROVE Inv'
  BY <1>t, <1>r, <1>g DEF Inv, TypeOK, Oversized, Concluded, Rows
<1>i. ASSUME UNCHANGED <<written, summaries>> PROVE Tables
  BY <1>i, IdleQuiet DEF TablesQuiet
<1>s. ASSUME worker \in Inferring, NEW n \in 1..MaxOutput, StoreSummary(n), UNCHANGED written
      PROVE  Tables
  BY <1>s, StoreKeeps DEF Inv, TypeOK
<1>o. ASSUME worker' \notin Inferring PROVE RecipeFollows'
  BY <1>o DEF RecipeFollows
(* A step that concludes nothing. *)
<1>d. ASSUME UNCHANGED written, worker' \notin Inferring \cup Retiring,
             job' \in {job, 0}, seen' \in {seen, Rows, 0}
      PROVE  Concluded'
  <2>1. Rows' = Rows
    BY <1>d DEF Rows
  <2> QED BY <1>d, <1>t, <1>r, <2>1 DEF Concluded
<1>1. CASE NothingToSummarize
  <2>1. Rows' = Rows /\ Covered' = Covered
    BY <1>1, TablesKept DEF NothingToSummarize
  <2>2. Rows <= Covered + KeepTail
    BY <1>1, <1>r DEF NothingToSummarize, TailSplit
  <2>3. Concluded'
    BY <1>1, <1>t, <1>r, <2>1, <2>2 DEF NothingToSummarize, Concluded, WorkerBusy
  <2> QED BY <1>1, <1>t, <1>r, <1>g, <1>i, <1>o, <2>3 DEF NothingToSummarize, WorkerBusy
<1>2. CASE AskOrdinary
  <2>1. recipe' \in SummaryRecipe /\ RecipeFollows'
    BY <1>2, AskKeeps, IdleQuiet DEF AskOrdinary
  <2>2. Rows' = Rows
    BY <1>2, TablesKept DEF AskOrdinary
  <2>3. recipe'.covers + KeepTail = Rows
    BY <1>2, <1>r DEF AskOrdinary, Recipe, TailSplit
  <2>4. Concluded'
    BY <1>2, <1>t, <1>r, <2>2, <2>3 DEF AskOrdinary, Concluded, WorkerBusy
  <2> QED BY <1>2, <1>t, <1>r, <1>g, <1>i, <2>1, <2>4 DEF AskOrdinary, WorkerBusy
<1>3. CASE EnterFallback
  BY <1>3, <1>t, <1>d, <1>g, <1>i, <1>o DEF EnterFallback, WorkerBusy
<1>4. CASE RetainMore
  BY <1>4, <1>t, <1>d, <1>g, <1>i, <1>o DEF RetainMore, WorkerBusy
<1>5. CASE AskFallback
  <2>1. recipe' \in SummaryRecipe /\ RecipeFollows'
    BY <1>5, <1>t, AskKeeps, IdleQuiet DEF AskFallback, WorkerBusy
  <2>2. Rows' = Rows
    BY <1>5, TablesKept DEF AskFallback
  <2>3. Concluded'
    BY <1>5, <1>t, <1>r, <2>2 DEF AskFallback, Concluded, WorkerBusy
  <2> QED BY <1>5, <1>t, <1>r, <1>g, <1>i, <2>1, <2>3 DEF AskFallback, WorkerBusy
<1>6. CASE BelowThreshold
  <2>1. Rows' = Rows /\ Covered' = Covered /\ LatestSummary' = LatestSummary
    BY <1>6, TablesKept DEF BelowThreshold
  <2>2. ContextUpTo(seen)' = ContextUpTo(Rows)
    BY <1>6, <2>1 DEF BelowThreshold, ContextUpTo, Tokens, TokensTo
  <2>3. Concluded'
    BY <1>6, <1>t, <1>r, <2>1, <2>2 DEF BelowThreshold, Concluded, WorkerBusy, ContextSize
  <2> QED BY <1>6, <1>t, <1>r, <1>g, <1>i, <1>o, <2>3 DEF BelowThreshold, WorkerBusy
<1>7. CASE NextPass
  <2>1. ContextSize \in Nat
    BY ContextType
  <2> QED BY <1>7, <1>t, <1>d, <1>g, <1>i, <1>o, <2>1 DEF NextPass, WorkerBusy
<1>8. CASE GiveUp
  BY <1>8, <1>t, <1>n, <1>d, <1>g, <1>i, <1>o DEF GiveUp, WorkerBusy
<1>9. ASSUME NEW n \in 1..MaxOutput, FinishOrdinary(n) PROVE Inv'
  <2>1. Tables
    BY <1>9, <1>s DEF FinishOrdinary
  <2> QED BY <1>9, <1>t, <1>n, <1>d, <1>g, <1>o, <2>1 DEF FinishOrdinary, WorkerBusy
<1>10. ASSUME NEW n \in 1..MaxOutput, StorePass(n) PROVE Inv'
  <2>1. Tables
    BY <1>10, <1>s DEF StorePass
  <2> QED BY <1>10, <1>t, <1>n, <1>d, <1>g, <1>o, <2>1 DEF StorePass, WorkerBusy
<1>11. CASE Break
  BY <1>11, <1>t, <1>n, <1>d, <1>g, <1>i, <1>o DEF Break, WorkerBusy
<1>12. CASE Restart
  <2>1. Tables
    BY <1>12, <1>i DEF Restart
  <2>2. worker' \notin Inferring
    BY <1>12 DEF Restart
  <2>3. restarts' \in 0..MaxRestarts
    BY <1>12, <1>t, CompactionAssumption DEF Restart, CompactionAssumption
  <2>4. /\ turn' = "idle" /\ asked' = 0 /\ spent' = 0
        /\ worker' \in {"off", "admitted"} /\ (worker' # "off" => job > 0)
        /\ recipe' \in SummaryRecipe /\ keep' = 0 /\ previous' = 0 /\ seen' = 0 /\ failed' = FALSE
        /\ job' = job
    BY <1>12, <1>t, <1>n DEF Restart, EndTurn, GoTurn
  <2>5. WorkerBusy' /\ Oversized' /\ turn' \in TurnPlace /\ spent' \in 0..MaxChat
    BY <1>t, <2>4 DEF WorkerBusy, Oversized, TurnPlace
  <2>6. Concluded'
    BY <1>12, <1>d, <2>4 DEF Restart
  <2> QED BY <1>t, <1>o, <2>1, <2>2, <2>3, <2>4, <2>5, <2>6 DEF Inv, TypeOK
<1>13. CASE Retire
  BY <1>13, <1>t, <1>n, <1>d, <1>g, <1>i, <1>o DEF Retire, WorkerBusy
<1> QED BY <1>1, <1>2, <1>3, <1>4, <1>5, <1>6, <1>7, <1>8, <1>9, <1>10, <1>11, <1>12, <1>13
        DEF WorkerStep, Summarized

LEMMA NextInv == Inv /\ [Next]_vars => Inv'
<1> SUFFICES ASSUME Inv, [Next]_vars PROVE Inv'
  OBVIOUS
<1>1. CASE Next
  BY <1>1, TurnKeeps, WorkKeeps DEF Next
<1>2. CASE UNCHANGED vars
  <2>1. UNCHANGED <<written, summaries, job, turn, asked, spent, worker, recipe, keep,
                    previous, seen, failed, restarts>>
    BY <1>2 DEF vars, turnVars, workerVars, passVars
  <2>2. TablesQuiet /\ Covered' = Covered /\ Rows' = Rows
    BY <2>1, IdleQuiet, TablesKept
  <2>3. RecipeFollows' /\ WorkerBusy' /\ Oversized'
    BY <2>1, <2>2 DEF Inv, RecipeFollows, WorkerBusy, Oversized
  <2>4. Concluded'
    BY <2>1, <2>2, ConclusionKeeps DEF Inv, Concluded
  <2> QED BY <2>1, <2>2, <2>3, <2>4 DEF Inv, TypeOK, TablesQuiet
<1> QED BY <1>1, <1>2

-----------------------------------------------------------------------------
(* The theorems. *)

THEOREM Invariance == Spec => []Inv
<1>1. Init => Inv
  BY InitInv
<1>2. Inv /\ [Next]_vars => Inv'
  BY NextInv
<1> QED BY <1>1, <1>2, PTL DEF Spec

(* Every variable keeps its type: no difference of token counts is ever    *)
(* negative, whatever rows arrive between a measurement and its use.       *)
THEOREM CompactionTypes == Spec => []TypeOK
<1>1. Inv => TypeOK
  BY DEF Inv
<1> QED BY <1>1, Invariance, PTL

(* Summaries speak for exactly the rows they cover, through failures and   *)
(* restarts between the passes of a fallback.                              *)
THEOREM NothingForgotten == Spec => []SummariesAreWhole
<1>1. Inv => SummariesAreWhole
  BY DEF Inv
<1> QED BY <1>1, Invariance, PTL

(* No row is summarized twice, and covers_to_seq is unique for an agent.   *)
THEOREM NothingRedone == Spec => []RowsReadOnce
<1>1. Inv => RowsReadOnce
  BY DEF Inv
<1> QED BY <1>1, Invariance, PTL

(* What a step does to the tables: nothing, a row, a capacity rejection's  *)
(* job, a summary, or the retirement of a job.                             *)
RowWritten    == UNCHANGED summaries /\ Rows' = Rows + 1 /\ (job' = job \/ job' > 0)
JobOwed       == UNCHANGED <<written, summaries>> /\ Rows > 0 /\ job' > 0
SummaryStored == /\ UNCHANGED written
                 /\ worker \in Inferring
                 /\ \E n \in 1..MaxOutput : StoreSummary(n)
                 /\ job' = job \/ (job' = 0 /\ worker = "ordinary")
JobRetired    == /\ UNCHANGED <<written, summaries>>
                 /\ job > 0 /\ job' = 0
                 /\ worker \in Retiring

LEMMA Effects ==
  ASSUME Inv, [Next]_vars
  PROVE  \/ UNCHANGED <<written, summaries, job>>
         \/ RowWritten \/ JobOwed \/ SummaryStored \/ JobRetired
<1> USE Limits DEF turnVars, passVars, workerVars, vars
<1>j. job \in Nat /\ asked \in Nat /\ Rows \in Nat /\ Oversized /\ WorkerBusy
  BY TableFacts DEF Inv, TypeOK
<1>w. ASSUME NEW n \in Nat, WriteRow(n), UNCHANGED summaries
      PROVE  Rows' = Rows + 1
  BY <1>w, WriteKeeps
<1>1. CASE BeginTurn
  BY <1>1, <1>w DEF BeginTurn, RowWritten
<1>2. CASE CheckPending \/ Bail \/ WaitOver \/ Spend \/ Ask \/ AbandonTurn
  BY <1>2 DEF CheckPending, Bail, WaitOver, Spend, Ask, AbandonTurn
<1>3. CASE Recover
  BY <1>3, <1>j DEF Recover, Oversized, JobOwed
<1>4. CASE ToolResult \/ Narrate
  BY <1>4, <1>w DEF ToolResult, Narrate, RowWritten
<1>5. ASSUME NEW n \in 1..MaxOutput, Reply(n) PROVE RowWritten
  BY <1>5, <1>w, <1>j DEF Reply, RowWritten
<1>6. ASSUME NEW n \in 1..MaxOutput, CallTools(n) PROVE RowWritten
  BY <1>6, <1>w DEF CallTools, RowWritten
<1>7. CASE NothingToSummarize \/ BelowThreshold
  BY <1>7 DEF NothingToSummarize, BelowThreshold
<1>8. CASE AskOrdinary \/ EnterFallback \/ RetainMore \/ AskFallback \/ NextPass \/ GiveUp \/ Break \/ Restart
  BY <1>8 DEF AskOrdinary, EnterFallback, RetainMore, AskFallback, NextPass, GiveUp, Break, Restart
<1>9. CASE Retire
  BY <1>9, <1>j DEF Retire, Retiring, JobRetired, WorkerBusy
<1>10. ASSUME NEW n \in 1..MaxOutput, FinishOrdinary(n) \/ StorePass(n) PROVE SummaryStored
  BY <1>10 DEF FinishOrdinary, StorePass, SummaryStored, Inferring
<1>11. CASE UNCHANGED vars
  BY <1>11
<1> QED BY <1>1, <1>2, <1>3, <1>4, <1>5, <1>6, <1>7, <1>8, <1>9, <1>10, <1>11
        DEF Next, TurnStep, WorkerStep, Summarized

(* A summary that becomes visible leaves the newest KeepTail rows alone,   *)
(* although rows are written while it is inferred.                         *)
THEOREM TailKept == Spec => TailStaysRaw
<1>1. ASSUME Inv, [Next]_vars, summaries' # summaries
      PROVE  summaries'[Len(summaries')].covers + KeepTail <= Rows
  <2>1. SummaryStored
    BY <1>1, Effects DEF RowWritten, JobOwed, JobRetired
  <2>2. summaries'[Len(summaries')].covers = recipe.covers
    BY <1>1, <2>1, StoreKeeps DEF SummaryStored
  <2>3. recipe.covers + KeepTail <= Rows
    BY <1>1, <2>1 DEF Inv, RecipeFollows, SummaryStored
  <2> QED BY <2>2, <2>3
<1>2. Inv /\ [Next]_vars =>
        (summaries' # summaries => summaries'[Len(summaries')].covers + KeepTail <= Rows)
  BY <1>1
<1> QED BY <1>2, Invariance, PTL DEF Spec, TailStaysRaw

CoveredIsLast ==
  Covered = IF summaries = <<>> THEN 0 ELSE summaries[Len(summaries)].covers

LEMMA CoveredByLast == Inv => CoveredIsLast
  BY LatestIsLast DEF Covered, NoSummary, CoveredIsLast

(* No path through the worker retires a job whose history, as the worker   *)
(* last read it, has not been worked off, although rows are written between *)
(* the reading, the inference, the measuring and the retirement.           *)
THEOREM JobsWorkedOff == Spec => JobsDoTheirWork
<1>1. ASSUME Inv, Inv', [Next]_vars, job # 0, job' = 0
      PROVE  /\ seen > 0
             /\ seen <= Covered' + KeepTail \/ ContextUpTo(seen) < Threshold
  <2>1. CASE SummaryStored
    <3>1. PICK n \in 1..MaxOutput : StoreSummary(n)
      BY <2>1 DEF SummaryStored
    <3>2. UNCHANGED written /\ worker \in Inferring /\ worker = "ordinary"
      BY <1>1, <2>1 DEF SummaryStored
    <3>3. summaries'[Len(summaries')].covers = recipe.covers
      BY <1>1, <3>1, <3>2, StoreKeeps
    <3>4. summaries' # <<>>
      BY <1>1, <3>1, <3>2, StoreKeeps, AppendProperties, EmptySeq DEF StoreSummary
    <3>5. Inv' => CoveredIsLast'
      BY CoveredByLast, PTL
    <3>6. Covered' = recipe.covers
      BY <1>1, <3>3, <3>4, <3>5 DEF CoveredIsLast
    <3>7. seen > 0 /\ seen <= recipe.covers + KeepTail
      BY <1>1, <3>2 DEF Inv, Concluded, Inferring
    <3> QED BY <3>6, <3>7
  <2>2. CASE JobRetired
    <3>1. Covered' = Covered
      BY <1>1, <2>2, TablesKept DEF JobRetired
    <3>2. seen > 0 /\ (seen <= Covered + KeepTail \/ ContextUpTo(seen) < Threshold)
      BY <1>1, <2>2 DEF Inv, Concluded, JobRetired, Retiring
    <3> QED BY <3>1, <3>2
  <2>3. job \in Nat
    BY <1>1 DEF Inv, TypeOK
  <2> QED BY <1>1, <2>1, <2>2, <2>3, Effects DEF RowWritten, JobOwed
<1>2. Inv /\ Inv' /\ [Next]_vars =>
        (job # 0 /\ job' = 0 =>
           /\ seen > 0
           /\ seen <= Covered' + KeepTail \/ ContextUpTo(seen) < Threshold)
  BY <1>1
<1> QED BY <1>2, Invariance, PTL DEF Spec, JobsDoTheirWork

(* The tables behave as the abstract history: a growing covered prefix,    *)
(* moved only while a compaction is owed and never into the tail.          *)
THEOREM HistoryImplemented == Spec => ImplementsHistory
<1>1. Init => History!Init
  <2> SUFFICES ASSUME Init PROVE Rows = 0 /\ Covered = 0 /\ ~(job # 0)
    BY DEF History!Init
  <2>1. Len(written) = 0
    BY EmptySeq DEF Init
  <2> QED BY <2>1 DEF Init, Rows, Covered, LatestSummary, NoSummary
<1>c. Inv' => CoveredIsLast'
  BY CoveredByLast, PTL
<1>2. ASSUME Inv, Inv', [Next]_vars
      PROVE  [History!Next]_(History!vars)
  <2> USE <1>2 DEF History!Next, History!vars
  <2>1. CASE UNCHANGED <<written, summaries, job>>
    BY <2>1, TablesKept
  <2>2. CASE RowWritten
    <3>1. Covered' = Covered
      BY <2>2 DEF RowWritten, Covered, LatestSummary
    <3>2. (job' # 0) \in {job # 0, TRUE}
      <4>1. CASE job' = job
        BY <4>1
      <4>2. CASE job' > 0
        <5>1. job' # 0
          BY <4>2
        <5> QED BY <5>1
      <4> QED BY <2>2, <4>1, <4>2 DEF RowWritten
    <3>3. Rows' = Rows + 1
      BY <2>2 DEF RowWritten
    <3>4. History!Write
      BY <3>1, <3>2, <3>3 DEF History!Write
    <3> QED BY <3>4
  <2>3. CASE JobOwed
    <3>1. History!Owe
      BY <2>3, TablesKept DEF JobOwed, History!Owe
    <3> QED BY <3>1
  <2>4. CASE SummaryStored
    <3>1. PICK n \in 1..MaxOutput : StoreSummary(n)
      BY <2>4 DEF SummaryStored
    <3>2. /\ summaries' \in Seq(SummaryRow)
          /\ summaries'[Len(summaries')].covers = recipe.covers
      BY <2>4, <3>1, StoreKeeps DEF SummaryStored
    <3>3. summaries' # <<>>
      BY <3>1, AppendProperties, EmptySeq DEF StoreSummary
    <3>5. Covered' = recipe.covers
      BY <1>c, <3>2, <3>3 DEF CoveredIsLast
    <3>6. /\ Covered < Covered' /\ Covered' + KeepTail <= Rows /\ job # 0
      BY <2>4, <3>5, LatestFacts DEF SummaryStored, Inv, RecipeFollows, WorkerBusy, Inferring,
         TypeOK, SummaryRecipe
    <3>7. Rows' = Rows
      BY <2>4 DEF SummaryStored, Rows
    <3>8. History!Cover
      BY <3>6, <3>7 DEF History!Cover
    <3> QED BY <3>8
  <2>5. CASE JobRetired
    <3>1. History!Settle
      BY <2>5, TablesKept DEF JobRetired, History!Settle
    <3> QED BY <3>1
  <2> QED BY <2>1, <2>2, <2>3, <2>4, <2>5, Effects
<1> QED BY <1>1, <1>2, Invariance, PTL DEF Spec, ImplementsHistory, History!Spec
=============================================================================
