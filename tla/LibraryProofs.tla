--------------------------- MODULE LibraryProofs ---------------------------
(***************************************************************************)
(* Theorems about Library, for any files, users, worlds and tokens.        *)
(***************************************************************************)
EXTENDS Library, MembershipProofs, SequenceTheorems

(* An installed world has the rows of a file that was accepted. *)
RowsOfFiles ==
  /\ DOMAIN rows = World /\ DOMAIN file = World
  /\ \A w \in World : Exists(w) =>
       /\ file[w] \in Scenario /\ Validate(file[w])
       /\ rows[w] = Install(file[w])

(* Only rows of a world that exists are held. *)
HeldAreRows ==
  /\ DOMAIN held = World
  /\ \A w \in World : held[w] # {} => Exists(w) /\ held[w] \subseteq DOMAIN rows[w].items

(* A handle of more digits was given out only once the shorter ones were. *)
ShortUse(used) == \A h \in used, k \in Nat \ {0} : h >= Lower[k + 1] => Full(used, k)
Drawn          == {used \in SUBSET Nat : IsFiniteSet(used) /\ ShortUse(used)}

OneHandleEach ==
  /\ handles \in Drawn
  /\ characters \in Nat /\ Cardinality(handles) = characters

(* An export is of a world that exists; until something of that world is   *)
(* taken, none of it is held, and what was written is its file.            *)
Checked(w, torn)    == [stage |-> "checked", world |-> w, torn |-> torn]
Written(w, torn, s) == [stage |-> "written", world |-> w, torn |-> torn, file |-> s]

ExportsFollow ==
  \/ export = Idle
  \/ \E w \in World, torn \in BOOLEAN :
       /\ Exists(w)
       /\ \/ export = Checked(w, torn) /\ (torn \/ held[w] = {})
          \/ /\ export = Written(w, torn, export.file)
             /\ Validate(export.file)
             /\ torn \/ export.file = file[w]

LibraryInv ==
  MembershipInv /\ RowsOfFiles /\ HeldAreRows /\ OneHandleEach /\ ExportsFollow

-----------------------------------------------------------------------------
(* Induction over the numbers, and the functions it defines. *)
(* Every set of naturals that is not empty has a least member. *)
LEMMA LeastNumber ==
  ASSUME NEW T, T \subseteq Nat, T # {}
  PROVE  \E n \in T : \A k \in T : n <= k
<1>1. PICK R : R = OpToRel(<, Nat)
  OBVIOUS
<1>2. \A i, j \in Nat : i < j <=> <<i, j>> \in R
  BY <1>1 DEF OpToRel
<1>3. PICK n \in T : \A k \in T : ~(<<k, n>> \in R)
  BY <1>1, WFMin, NatLessThanWellFounded
<1>4. \A k \in T : n <= k
  <2> TAKE k \in T
  <2>1. k \in Nat /\ n \in Nat /\ ~(k < n)
    BY <1>2, <1>3
  <2> QED BY <2>1
<1> QED BY <1>4

(* What holds for 0, and for n + 1 if it does for n, holds for all. *)
LEMMA Steps ==
  ASSUME NEW T, 0 \in T, \A n \in Nat : n \in T => n + 1 \in T
  PROVE  Nat \subseteq T
<1> SUFFICES ASSUME NEW m \in Nat \ T
             PROVE  FALSE
  OBVIOUS
<1>1. PICK n \in Nat \ T : \A k \in Nat \ T : n <= k
  BY LeastNumber
<1>2. n # 0
  OBVIOUS
<1>3. n - 1 \in Nat /\ ~(n <= n - 1) /\ (n - 1) + 1 = n
  BY <1>2
<1>4. n - 1 \in T
  BY <1>1, <1>3
<1> QED BY <1>3, <1>4

(* A recursion over the numbers defines a function. *)
Start(g, n, V, x, F) ==
  /\ g \in [0..n -> V] /\ g[0] = x
  /\ \A i, k \in 0..n : k = i + 1 => g[k] = F[g[i]]

LEMMA StartsExist ==
  ASSUME NEW V, NEW x \in V, NEW F \in [V -> V], NEW n \in Nat
  PROVE  \E g : Start(g, n, V, x, F)
<1> DEFINE T == {m \in Nat : \E g : Start(g, m, V, x, F)}
<1>1. 0 \in T
  <2>1. Start([k \in 0..0 |-> x], 0, V, x, F)
    BY DEF Start
  <2> QED BY <2>1
<1>2. ASSUME NEW m \in Nat, m \in T
      PROVE  m + 1 \in T
  <2>1. PICK g : Start(g, m, V, x, F)
    BY <1>2
  <2>2. PICK h : h = [k \in 0..(m + 1) |-> IF k = m + 1 THEN F[g[m]] ELSE g[k]]
    OBVIOUS
  <2>3. g \in [0..m -> V] /\ g[0] = x /\ (\A i, k \in 0..m : k = i + 1 => g[k] = F[g[i]])
    BY <2>1 DEF Start
  <2>4. h \in [0..(m + 1) -> V] /\ h[0] = x
    BY <2>2, <2>3
  <2>5. ASSUME NEW i \in 0..(m + 1), NEW k \in 0..(m + 1), k = i + 1
        PROVE  h[k] = F[h[i]]
    <3>1. i \in 0..m /\ i # m + 1
      BY <2>5
    <3>2. h[i] = g[i]
      BY <2>2, <3>1
    <3>3. CASE k = m + 1
      <4>1. i = m
        BY <2>5, <3>3
      <4> QED BY <2>2, <3>2, <3>3, <4>1
    <3>4. CASE k # m + 1
      BY <2>2, <2>3, <2>5, <3>1, <3>2, <3>4
    <3> QED BY <3>3, <3>4
  <2>6. Start(h, m + 1, V, x, F)
    BY <2>4, <2>5 DEF Start
  <2> QED BY <2>6
<1> HIDE DEF T
<1>3. n \in T
  BY <1>1, <1>2, Steps
<1> QED BY <1>3 DEF T

LEMMA StartsAgree ==
  ASSUME NEW V, NEW x, NEW F, NEW n \in Nat, NEW m \in Nat, n <= m,
         NEW g, Start(g, n, V, x, F), NEW h, Start(h, m, V, x, F)
  PROVE  g[n] = h[n]
<1> DEFINE T == {k \in Nat : k <= n => g[k] = h[k]}
<1>1. 0 \in T
  BY DEF Start
<1>2. ASSUME NEW k \in Nat, k \in T
      PROVE  k + 1 \in T
  <2> SUFFICES ASSUME k + 1 <= n
               PROVE  g[k + 1] = h[k + 1]
    OBVIOUS
  <2>1. k \in 0..n /\ k + 1 \in 0..n /\ k \in 0..m /\ k + 1 \in 0..m
    OBVIOUS
  <2>2. g[k + 1] = F[g[k]] /\ h[k + 1] = F[h[k]]
    BY <2>1 DEF Start
  <2>3. g[k] = h[k]
    BY <1>2, <2>1
  <2> QED BY <2>2, <2>3
<1> HIDE DEF T
<1>3. n \in T
  BY <1>1, <1>2, Steps
<1> QED BY <1>3 DEF T

Iteration(f, V, x, F) ==
  f \in [Nat -> V] /\ f[0] = x /\ \A k \in Nat : f[k + 1] = F[f[k]]

LEMMA Iterates ==
  ASSUME NEW V, NEW x \in V, NEW F \in [V -> V]
  PROVE  \E f : Iteration(f, V, x, F)
<1>1. PICK s : s = [n \in Nat |-> CHOOSE g : Start(g, n, V, x, F)]
  OBVIOUS
<1>2. \A n \in Nat : Start(s[n], n, V, x, F)
  BY <1>1, StartsExist
<1>3. PICK f : f = [n \in Nat |-> s[n][n]]
  OBVIOUS
<1>4. f \in [Nat -> V] /\ f[0] = x
  BY <1>2, <1>3 DEF Start
<1>5. ASSUME NEW n \in Nat
      PROVE  f[n + 1] = F[f[n]]
  <2>1. Start(s[n], n, V, x, F) /\ Start(s[n + 1], n + 1, V, x, F)
    BY <1>2
  <2>2. s[n][n] = s[n + 1][n]
    BY <2>1, StartsAgree
  <2>3. s[n + 1][n + 1] = F[s[n + 1][n]]
    BY <2>1 DEF Start
  <2> QED BY <1>3, <2>2, <2>3
<1> QED BY <1>4, <1>5 DEF Iteration

(* Every place of a set of numbers is somebody's. *)
LEMMA RanksAreTaken ==
  ASSUME NEW placed \in SUBSET Nat, IsFiniteSet(placed), NEW k \in 1..Cardinality(placed)
  PROVE  \E i \in placed : Cardinality({j \in placed : j <= i}) = k
<1> DEFINE upto(i) == {j \in placed : j <= i}
           n == Cardinality(placed)
<1>1. PICK rank : rank = [i \in placed |-> Cardinality(upto(i))]
  OBVIOUS
<1>2. n \in Nat
  BY FS_CardinalityType
<1>3. \A i \in placed : /\ IsFiniteSet(upto(i)) /\ upto(i) \subseteq placed
                        /\ Cardinality(upto(i)) \in 1..n
  <2> TAKE i \in placed
  <2>1. upto(i) \in SUBSET placed /\ i \in upto(i)
    OBVIOUS
  <2> HIDE DEF upto
  <2>2. IsFiniteSet(upto(i)) /\ Cardinality(upto(i)) <= n
    BY <2>1, FS_Subset
  <2>3. Cardinality(upto(i)) \in Nat /\ Cardinality(upto(i)) # 0
    BY <2>1, <2>2, FS_CardinalityType, FS_EmptySet
  <2> QED BY <1>2, <2>1, <2>2, <2>3
<1>4. \A i, j \in placed : rank[i] = rank[j] => i = j
  <2>1. ASSUME NEW i \in placed, NEW j \in placed, i < j
        PROVE  Cardinality(upto(i)) # Cardinality(upto(j))
    <3>1. upto(i) \in SUBSET upto(j) /\ j \in upto(j) /\ j \notin upto(i)
      <4>1. i \in Nat /\ j \in Nat /\ j <= j /\ ~(j <= i)
        BY <2>1
      <4>2. \A m \in placed : m <= i => m <= j
        <5> TAKE m \in placed
        <5>1. m \in Nat
          OBVIOUS
        <5> QED BY <2>1, <4>1, <5>1
      <4> QED BY <4>1, <4>2
    <3> HIDE DEF upto
    <3> QED BY <3>1, <1>3, FS_Subset
  <2> SUFFICES ASSUME NEW i \in placed, NEW j \in placed, rank[i] = rank[j], i # j
               PROVE  FALSE
    OBVIOUS
  <2>2. i \in Nat /\ j \in Nat /\ (i < j \/ j < i)
    OBVIOUS
  <2> HIDE DEF upto
  <2> QED BY <1>1, <2>1, <2>2
<1> HIDE DEF n
<1>5. rank \in Injection(placed, 1..n)
  <2> HIDE DEF upto
  <2> QED BY <1>1, <1>3, <1>4 DEF Injection, IsInjective
<1>6. IsFiniteSet(1..n) /\ Cardinality(1..n) = n
  BY <1>2, FS_Interval
<1>7. rank \in Surjection(placed, 1..n)
  BY <1>5, <1>6, FS_Injection DEF n
<1>8. PICK i \in placed : rank[i] = k
  BY <1>7 DEF Surjection, n
<1> QED BY <1>1, <1>8

-----------------------------------------------------------------------------
(* The ranges of handles. *)

LEMMA LowerFacts ==
  /\ Lower \in [Nat -> Nat \ {0}]
  /\ \A k \in Nat : Lower[k + 1] = Base * Lower[k]
<1> DEFINE Powers(g) == g = [k \in Nat |-> IF k = 0 THEN 1 ELSE Base * g[k - 1]]
<1>1. Base \in Nat /\ Base >= 2
  BY LibraryAssumption
<1>0. PICK V : V = Nat \ {0}
  OBVIOUS
<1>2. PICK F : F = [x \in V |-> Base * x]
  OBVIOUS
<1>3. F \in [V -> V]
  <2>1. \A x \in V : Base * x \in V
    BY <1>0, <1>1
  <2> QED BY <1>2, <2>1
<1>4. PICK one \in V : one = 1
  BY <1>0
<1>5. PICK f : f \in [Nat -> V] /\ f[0] = one /\ \A n \in Nat : f[n + 1] = F[f[n]]
  <2>1. \E f : Iteration(f, V, one, F)
    BY <1>3, Iterates
  <2> QED BY <2>1 DEF Iteration
<1>6. \A k \in Nat : f[k] = IF k = 0 THEN 1 ELSE Base * f[k - 1]
  <2> SUFFICES ASSUME NEW k \in Nat, k # 0
               PROVE  f[k] = Base * f[k - 1]
    BY <1>4, <1>5
  <2>1. PICK n \in Nat : n = k - 1 /\ k = n + 1
    OBVIOUS
  <2>2. f[n + 1] = F[f[n]] /\ f[n] \in V
    BY <1>5
  <2>3. F[f[n]] = Base * f[n]
    BY <1>2, <2>2
  <2> QED BY <2>1, <2>2, <2>3
<1>7. Powers(f)
  <2>1. f = [k \in Nat |-> f[k]]
    BY <1>5
  <2> QED BY <1>6, <2>1
<1>8. Powers(Lower)
  <2>1. Lower = CHOOSE g : Powers(g)
    BY DEF Lower
  <2> QED BY <1>7, <2>1, Zenon
<1>9. Lower[0] = 1 /\ \A k \in Nat : Lower[k + 1] = Base * Lower[k]
  <2>1. \A k \in Nat : Lower[k] = IF k = 0 THEN 1 ELSE Base * Lower[k - 1]
    BY <1>8
  <2> HIDE DEF Powers
  <2>2. ASSUME NEW k \in Nat
        PROVE  Lower[k + 1] = Base * Lower[k]
    <3>1. k + 1 \in Nat /\ k + 1 # 0 /\ (k + 1) - 1 = k
      OBVIOUS
    <3> QED BY <2>1, <3>1
  <2> QED BY <2>1, <2>2
<1>10. \A k \in Nat : Lower[k] \in V
  <2> DEFINE T == {k \in Nat : Lower[k] \in V}
  <2>1. 0 \in T
    BY <1>9, <1>4
  <2>2. ASSUME NEW k \in Nat, k \in T
        PROVE  k + 1 \in T
    <3>1. Lower[k] \in V
      BY <2>2
    <3>2. Base * Lower[k] \in V
      BY <1>0, <1>1, <3>1
    <3> QED BY <1>9, <3>2
  <2> HIDE DEF T
  <2>3. Nat \subseteq T
    BY <2>1, <2>2, Steps
  <2> QED BY <2>3 DEF T
<1>11. Lower = [k \in Nat |-> Lower[k]]
  BY <1>8
<1> QED BY <1>0, <1>9, <1>10, <1>11

LEMMA LowerGrows ==
  ASSUME NEW j \in Nat, NEW k \in Nat, j < k
  PROVE  Lower[j] < Lower[k]
<1>1. \A n \in Nat : Lower[n] \in Nat /\ Lower[n] < Lower[n + 1]
  <2> TAKE n \in Nat
  <2>1. PICK x \in Nat \ {0} : x = Lower[n]
    BY LowerFacts
  <2>2. Base \in Nat /\ Base >= 2
    BY LibraryAssumption
  <2>3. x < Base * x
    BY <2>2
  <2> QED BY <2>1, <2>3, LowerFacts
<1> DEFINE T == {n \in Nat : j < n => Lower[j] < Lower[n]}
<1>2. 0 \in T
  OBVIOUS
<1>3. ASSUME NEW n \in Nat, n \in T
      PROVE  n + 1 \in T
  <2> SUFFICES ASSUME j < n + 1
               PROVE  Lower[j] < Lower[n + 1]
    OBVIOUS
  <2>1. j = n \/ j < n
    OBVIOUS
  <2>2. Lower[n] < Lower[n + 1] /\ Lower[n] \in Nat /\ Lower[n + 1] \in Nat /\ Lower[j] \in Nat
    BY <1>1
  <2> QED BY <1>3, <2>1, <2>2
<1> HIDE DEF T
<1>4. k \in T
  BY <1>2, <1>3, Steps
<1> QED BY <1>4 DEF T

(* Not all of the ranges of up to n + 1 digits are full of n handles. *)
LEMMA SomeRangeIsFree ==
  ASSUME NEW used, IsFiniteSet(used)
  PROVE  \E k \in 1..(Cardinality(used) + 1) :
           ~Full(used, k) /\ \A j \in 1..(k - 1) : Full(used, j)
<1> DEFINE n == Cardinality(used)
           T == {k \in 1..(n + 1) : ~Full(used, k)}
<1>1. n \in Nat
  BY FS_CardinalityType
<1> HIDE DEF n
<1>2. T # {}
  <2> SUFFICES ASSUME \A k \in 1..(n + 1) : Full(used, k)
               PROVE  FALSE
    OBVIOUS
  <2>1. \A k \in 1..(n + 1) : Lower[k] \in used
    <3> TAKE k \in 1..(n + 1)
    <3>1. Lower[k] \in Nat /\ Lower[k + 1] \in Nat /\ Lower[k] < Lower[k + 1]
      BY <1>1, LowerFacts, LowerGrows
    <3>2. Lower[k] \in Lower[k]..(Lower[k + 1] - 1)
      BY <3>1
    <3> QED BY <3>2 DEF Full, HandleRange
  <2>2. PICK f : f = [k \in 1..(n + 1) |-> Lower[k]]
    OBVIOUS
  <2>3. \A j, k \in 1..(n + 1) : f[j] = f[k] => j = k
    <3> SUFFICES ASSUME NEW j \in 1..(n + 1), NEW k \in 1..(n + 1), Lower[j] = Lower[k], j # k
                 PROVE  FALSE
      BY <2>2
    <3>1. j \in Nat /\ k \in Nat /\ (j < k \/ k < j)
      BY <1>1
    <3>2. Lower[j] \in Nat /\ Lower[k] \in Nat
      BY <3>1, LowerFacts
    <3>3. Lower[j] < Lower[k] \/ Lower[k] < Lower[j]
      BY <3>1, LowerGrows
    <3> QED BY <3>2, <3>3
  <2>4. f \in Injection(1..(n + 1), used)
    BY <2>1, <2>2, <2>3 DEF Injection, IsInjective
  <2>5. Cardinality(1..(n + 1)) <= n
    BY <2>4, FS_Injection DEF n
  <2>6. Cardinality(1..(n + 1)) = n + 1
    BY <1>1, FS_Interval
  <2> QED BY <1>1, <2>5, <2>6
<1>3. PICK k \in T : \A j \in T : k <= j
  <2>1. T \subseteq Nat
    BY <1>1
  <2> QED BY <1>2, <2>1, LeastNumber
<1>4. \A j \in 1..(k - 1) : Full(used, j)
  <2> TAKE j \in 1..(k - 1)
  <2>1. j \in 1..(n + 1) /\ ~(k <= j)
    BY <1>1
  <2> QED BY <1>3, <2>1
<1> QED BY <1>4 DEF n

(* next_character_tool_id always finds a handle, and it keeps them short. *)
LEMMA FreeHandleFacts ==
  ASSUME NEW used \in Drawn
  PROVE  /\ FreeHandles(used) # {}
         /\ \A h \in FreeHandles(used) :
              /\ h \notin used
              /\ used \cup {h} \in Drawn
<1>1. PICK k \in 1..(Cardinality(used) + 1) :
        /\ ~Full(used, k) /\ \A j \in 1..(k - 1) : Full(used, j)
        /\ FreeHandles(used) = HandleRange(k) \ used
  <2>1. \E k \in 1..(Cardinality(used) + 1) :
          ~Full(used, k) /\ \A j \in 1..(k - 1) : Full(used, j)
    BY SomeRangeIsFree DEF Drawn
  <2> QED BY <2>1 DEF FreeHandles
<1>2. k \in Nat \ {0}
  BY FS_CardinalityType DEF Drawn
<1>3. Lower[k] \in Nat /\ Lower[k + 1] \in Nat
  BY <1>2, LowerFacts
<1>4. ASSUME NEW h \in FreeHandles(used)
      PROVE  h \notin used /\ used \cup {h} \in Drawn
  <2>1. h \notin used /\ h \in Nat /\ h < Lower[k + 1]
    BY <1>1, <1>3, <1>4 DEF HandleRange
  <2>2. IsFiniteSet(used \cup {h}) /\ used \cup {h} \in SUBSET Nat
    BY <2>1, FS_AddElement DEF Drawn
  <2>3. ASSUME NEW g \in used \cup {h}, NEW j \in Nat \ {0}, g >= Lower[j + 1]
        PROVE  Full(used, j)
    <3>1. CASE g \in used
      BY <2>3, <3>1 DEF Drawn, ShortUse
    <3>2. CASE g = h
      <4>1. Lower[j + 1] < Lower[k + 1] /\ Lower[j + 1] \in Nat
        BY <2>1, <2>3, <3>2, <1>3, LowerFacts
      <4>2. j < k
        <5>1. CASE k < j
          <6>1. Lower[k + 1] < Lower[j + 1]
            BY <5>1, <1>2, LowerGrows
          <6> QED BY <6>1, <4>1, <1>3
        <5>2. CASE k = j
          BY <5>2, <4>1, <1>3
        <5> QED BY <5>1, <5>2, <1>2
      <4>3. j \in 1..(k - 1)
        BY <4>2, <1>2
      <4> QED BY <4>3, <1>1
    <3> QED BY <3>1, <3>2
  <2>4. \A j : Full(used, j) => Full(used \cup {h}, j)
    BY DEF Full
  <2>5. ShortUse(used \cup {h})
    BY <2>3, <2>4 DEF ShortUse
  <2> QED BY <2>1, <2>2, <2>5 DEF Drawn
<1>5. FreeHandles(used) # {}
  BY <1>1 DEF Full
<1> QED BY <1>4, <1>5

(* Characters made in one transaction get as many handles. *)
LEMMA DrawsFacts ==
  ASSUME handles \in Drawn, characters \in Nat, Cardinality(handles) = characters,
         NEW n \in Nat, NEW new \in Draws(n)
  PROVE  new \in Drawn /\ Cardinality(new) = characters + n
<1> DEFINE Extended(S) == UNION {{used \cup {h} : h \in FreeHandles(used)} : used \in S}
           After(g) == g = [k \in 0..n |-> IF k = 0 THEN {handles} ELSE Extended(g[k - 1])]
<1>1. PICK V : V = SUBSET Drawn
  OBVIOUS
<1>2. PICK F : F = [S \in V |-> Extended(S)]
  OBVIOUS
<1>3. \A S \in V : Extended(S) \in V
  <2> SUFFICES ASSUME NEW S \in V, NEW more \in Extended(S)
               PROVE  more \in Drawn
    BY <1>1
  <2>1. PICK used \in S : \E h \in FreeHandles(used) : more = used \cup {h}
    OBVIOUS
  <2>2. used \in Drawn
    BY <1>1
  <2> QED BY <2>1, <2>2, FreeHandleFacts
<1> HIDE DEF Extended
<1>4. F \in [V -> V]
  BY <1>2, <1>3
<1>5. PICK first \in V : first = {handles}
  BY <1>1
<1>6. PICK f : f \in [Nat -> V] /\ f[0] = first /\ \A k \in Nat : f[k + 1] = F[f[k]]
  <2>1. \E f : Iteration(f, V, first, F)
    BY <1>4, Iterates
  <2> QED BY <2>1 DEF Iteration
<1>7. PICK g : g = [k \in 0..n |-> f[k]]
  OBVIOUS
<1>8. After(g)
  <2>1. \A k \in 0..n : g[k] = IF k = 0 THEN {handles} ELSE Extended(g[k - 1])
    <3> SUFFICES ASSUME NEW k \in 0..n, k # 0
                 PROVE  g[k] = Extended(g[k - 1])
      BY <1>5, <1>6, <1>7
    <3>1. PICK i \in Nat : i = k - 1 /\ k = i + 1 /\ i \in 0..n
      OBVIOUS
    <3>2. f[i + 1] = F[f[i]] /\ f[i] \in V
      BY <1>6
    <3>3. F[f[i]] = Extended(f[i])
      BY <1>2, <3>2
    <3> QED BY <1>7, <3>1, <3>2, <3>3
  <2> QED BY <1>7, <2>1
<1>9. PICK after : after = CHOOSE a : After(a)
  OBVIOUS
<1>10. After(after)
  BY <1>8, <1>9, Zenon
<1>11. Draws(n) = after[n]
  BY <1>9, Zenon DEF Draws, Extended
<1>12. after[0] = {handles} /\ \A i, k \in 0..n : k = i + 1 => after[k] = Extended(after[i])
  <2>1. \A k \in 0..n : after[k] = IF k = 0 THEN {handles} ELSE Extended(after[k - 1])
    BY <1>10
  <2> HIDE DEF After
  <2>2. ASSUME NEW i \in 0..n, NEW k \in 0..n, k = i + 1
        PROVE  after[k] = Extended(after[i])
    <3>1. k # 0 /\ k - 1 = i
      BY <2>2
    <3> QED BY <2>1, <3>1
  <2> QED BY <2>1, <2>2
<1> HIDE DEF After
<1> DEFINE T == {k \in Nat : k <= n =>
                   \A used \in after[k] : used \in Drawn /\ Cardinality(used) = characters + k}
<1>13. 0 \in T
  BY <1>12
<1>14. ASSUME NEW k \in Nat, k \in T
       PROVE  k + 1 \in T
  <2> SUFFICES ASSUME k + 1 <= n, NEW used \in after[k + 1]
               PROVE  used \in Drawn /\ Cardinality(used) = characters + (k + 1)
    OBVIOUS
  <2>1. k \in 0..n /\ k + 1 \in 0..n
    OBVIOUS
  <2>2. used \in Extended(after[k])
    BY <1>12, <2>1
  <2>3. PICK old \in after[k] : \E h \in FreeHandles(old) : used = old \cup {h}
    BY <2>2 DEF Extended
  <2>h. PICK h \in FreeHandles(old) : used = old \cup {h}
    BY <2>3
  <2>4. old \in Drawn /\ Cardinality(old) = characters + k
    BY <1>14, <2>1
  <2>5. h \notin old /\ used \in Drawn
    BY <2>h, <2>4, FreeHandleFacts
  <2>6. Cardinality(used) = Cardinality(old) + 1
    BY <2>h, <2>4, <2>5, FS_AddElement DEF Drawn
  <2> QED BY <2>4, <2>5, <2>6
<1> HIDE DEF T
<1>15. n \in T
  BY <1>13, <1>14, Steps
<1> QED BY <1>11, <1>15 DEF T

-----------------------------------------------------------------------------
(* Names in a list without duplicates stand for one row each. *)

LEMMA UniqueIsInjective ==
  ASSUME NEW list, list \in Seq(Names(list)), Unique(list)
  PROVE  \A j, k \in DOMAIN list : list[j] = list[k] => j = k
<1>1. /\ Len(list) \in Nat /\ DOMAIN list = 1..Len(list) /\ list \in [DOMAIN list -> Names(list)]
  OBVIOUS
<1>2. list \in Surjection(DOMAIN list, Names(list))
  BY <1>1 DEF Surjection, Names
<1>3. IsFiniteSet(DOMAIN list) /\ Cardinality(DOMAIN list) = Len(list)
  BY <1>1, FS_Interval
<1>4. Cardinality(DOMAIN list) = Cardinality(Names(list))
  BY <1>3 DEF Unique
<1>5. list \in Injection(DOMAIN list, Names(list))
  BY <1>2, <1>3, <1>4, FS_SurjSameCardinalityImpliesInj
<1> QED BY <1>5 DEF Injection, IsInjective

LEMMA RowFacts ==
  ASSUME NEW list, list \in Seq(Names(list)), Unique(list), NEW name \in Names(list)
  PROVE  Row(list, name) \in DOMAIN list /\ list[Row(list, name)] = name
<1> DEFINE found == {k \in DOMAIN list : list[k] = name}
<1>1. PICK k \in DOMAIN list : list[k] = name
  BY DEF Names
<1>2. found = {k}
  BY <1>1, UniqueIsInjective
<1>3. k <= k
  BY <1>1
<1>4. Row(list, name) \in found
  BY <1>2, <1>3 DEF Row
<1> QED BY <1>4

(* A list of names is one of its own names. *)
LEMMA ListOfItsNames ==
  ASSUME NEW list \in Seq(Name)
  PROVE  list \in Seq(Names(list))
<1>1. list \in [1..Len(list) -> Name] /\ Len(list) \in Nat /\ DOMAIN list = 1..Len(list)
  OBVIOUS
<1>2. list \in [1..Len(list) -> Names(list)]
  BY <1>1 DEF Names
<1> QED BY <1>1, <1>2, IsASeq

(* The shape of the files, field by field. *)
LEMMA ScenarioShape ==
  ASSUME NEW s \in Scenario
  PROVE  s = [locations |-> s.locations, start |-> s.start, npcs |-> s.npcs, paths |-> s.paths,
              types |-> s.types, spells |-> s.spells, items |-> s.items]
<1>1. s \in [locations : Seq(Name), start : Name, npcs : Seq(Name),
             paths : Seq([from : Name, to : Name, time : Int]),
             types : Seq(Name), spells : Seq(Name), items : Seq([type : Name, at : Name])]
  BY ScenarioAssumption
<1> QED BY <1>1

LEMMA ScenarioFacts ==
  ASSUME NEW s \in Scenario
  PROVE  /\ s.locations \in Seq(Name) /\ s.types \in Seq(Name) /\ s.spells \in Seq(Name)
         /\ s.npcs \in Seq(Name)
         /\ s.paths \in Seq([from : Name, to : Name, time : Int])
         /\ s.items \in Seq([type : Name, at : Name])
BY ScenarioAssumption

LEMMA ScenarioLists ==
  ASSUME NEW s \in Scenario
  PROVE  /\ Len(s.npcs) \in Nat /\ s.npcs \in [1..Len(s.npcs) -> Name]
         /\ Len(s.paths) \in Nat
         /\ s.paths \in [1..Len(s.paths) -> [from : Name, to : Name, time : Int]]
         /\ Len(s.items) \in Nat /\ s.items \in [1..Len(s.items) -> [type : Name, at : Name]]
<1>1. PICK P : P = [from : Name, to : Name, time : Int]
  OBVIOUS
<1>2. PICK I : I = [type : Name, at : Name]
  OBVIOUS
<1>3. s.npcs \in Seq(Name) /\ s.paths \in Seq(P) /\ s.items \in Seq(I)
  BY <1>1, <1>2, ScenarioFacts
<1>4. s.paths \in [1..Len(s.paths) -> P] /\ s.items \in [1..Len(s.items) -> I]
  BY <1>3
<1> QED BY <1>1, <1>2, <1>3, <1>4

(* What Install makes of a file that validates. *)
LEMMA InstallResolves ==
  ASSUME NEW s \in Scenario, Validate(s)
  PROVE  LET r == Install(s)
             places == DOMAIN r.locations
         IN /\ r.start \in places
            /\ \A n \in DOMAIN r.npcs : r.npcs[n] \in places
            /\ \A p \in DOMAIN r.paths :
                 {r.paths[p].from, r.paths[p].to} \subseteq places /\ r.paths[p].from # r.paths[p].to
            /\ \A i \in DOMAIN r.items : r.items[i].at \in places /\ r.items[i].type \in DOMAIN r.types
<1> DEFINE r == Install(s)
<1>1. /\ s.locations \in Seq(Names(s.locations)) /\ s.types \in Seq(Names(s.types))
      /\ Unique(s.locations) /\ Unique(s.types)
  BY ScenarioFacts, ListOfItsNames DEF Validate, LocationsResolve, ItemsResolve
<1>2. /\ \A name \in Names(s.locations) :
           /\ Row(s.locations, name) \in DOMAIN s.locations
           /\ s.locations[Row(s.locations, name)] = name
      /\ \A name \in Names(s.types) : Row(s.types, name) \in DOMAIN s.types
  BY <1>1, RowFacts
<1>3. /\ r.locations = s.locations /\ r.types = s.types
      /\ r.start = Row(s.locations, s.start)
      /\ DOMAIN r.npcs = DOMAIN s.npcs /\ DOMAIN r.paths = DOMAIN s.paths
      /\ DOMAIN r.items = DOMAIN s.items
      /\ \A n \in DOMAIN s.npcs : r.npcs[n] = Row(s.locations, s.npcs[n])
      /\ \A p \in DOMAIN s.paths : /\ r.paths[p].from = Row(s.locations, s.paths[p].from)
                                   /\ r.paths[p].to = Row(s.locations, s.paths[p].to)
      /\ \A i \in DOMAIN s.items : /\ r.items[i].type = Row(s.types, s.items[i].type)
                                   /\ r.items[i].at = Row(s.locations, s.items[i].at)
  BY DEF Install
<1> HIDE DEF r
<1>4. r.start \in DOMAIN r.locations
  BY <1>2, <1>3 DEF Validate, LocationsResolve
<1>5. \A n \in DOMAIN r.npcs : r.npcs[n] \in DOMAIN r.locations
  BY <1>2, <1>3 DEF Validate, LocationsResolve
<1>6. \A p \in DOMAIN r.paths :
        /\ {r.paths[p].from, r.paths[p].to} \subseteq DOMAIN r.locations
        /\ r.paths[p].from # r.paths[p].to
  <2> SUFFICES ASSUME NEW p \in DOMAIN s.paths
               PROVE  /\ r.paths[p].from \in DOMAIN r.locations /\ r.paths[p].to \in DOMAIN r.locations
                      /\ r.paths[p].from # r.paths[p].to
    BY <1>3
  <2>1. /\ s.paths[p].from \in Names(s.locations) /\ s.paths[p].to \in Names(s.locations)
        /\ s.paths[p].from # s.paths[p].to
    BY DEF Validate, PathsResolve, Names
  <2> QED BY <1>2, <1>3, <2>1
<1>7. \A i \in DOMAIN r.items : r.items[i].at \in DOMAIN r.locations /\ r.items[i].type \in DOMAIN r.types
  <2> SUFFICES ASSUME NEW i \in DOMAIN s.items
               PROVE  r.items[i].at \in DOMAIN r.locations /\ r.items[i].type \in DOMAIN r.types
    BY <1>3
  <2>1. s.items[i].type \in Names(s.types) /\ s.items[i].at \in Names(s.locations)
    BY DEF Validate, ItemsResolve, Names
  <2> QED BY <1>2, <1>3, <2>1
<1> QED BY <1>4, <1>5, <1>6, <1>7 DEF r

LEMMA RowsAreNames ==
  ASSUME NEW list \in Seq(Name), Unique(list), NEW name \in Names(list)
  PROVE  list[Row(list, name)] = name
BY ListOfItsNames, RowFacts

(* The items that are exported, in their order. *)
Placed(s, away) == {i \in DOMAIN s.items : i \notin away}
NthIn(placed)   ==
  [k \in 1..Cardinality(placed) |->
     CHOOSE i \in placed : Cardinality({j \in placed : j <= i}) = k]

LEMMA ExportFields ==
  ASSUME NEW s \in Scenario, Validate(s), NEW away
  PROVE  LET e == ExportOf(Install(s), away)
             placed == Placed(s, away)
         IN /\ e = [locations |-> s.locations, start |-> s.start, npcs |-> s.npcs, paths |-> s.paths,
                    types |-> s.types, spells |-> s.spells, items |-> e.items]
            /\ e.items = [k \in 1..Cardinality(placed) |-> s.items[NthIn(placed)[k]]]
<1>1. PICK placed : placed = Placed(s, away)
  OBVIOUS
<1>2. PICK r : r = Install(s)
  OBVIOUS
<1>3. /\ r.locations = s.locations /\ r.types = s.types /\ r.spells = s.spells
      /\ r.start = Row(s.locations, s.start)
      /\ r.npcs = [n \in DOMAIN s.npcs |-> Row(s.locations, s.npcs[n])]
      /\ r.paths = [p \in DOMAIN s.paths |->
           [from |-> Row(s.locations, s.paths[p].from), to |-> Row(s.locations, s.paths[p].to),
            time |-> s.paths[p].time]]
      /\ r.items = [i \in DOMAIN s.items |->
           [type |-> Row(s.types, s.items[i].type), at |-> Row(s.locations, s.items[i].at)]]
  BY <1>2 DEF Install
<1>4. placed = {i \in DOMAIN r.items : i \notin away} /\ placed \subseteq DOMAIN s.items
  BY <1>1, <1>3 DEF Placed
<1>5. PICK e : e = ExportOf(r, away)
  OBVIOUS
<1>e. e = [locations |-> e.locations, start |-> e.start, npcs |-> e.npcs, paths |-> e.paths,
           types |-> e.types, spells |-> e.spells, items |-> e.items]
  BY <1>5 DEF ExportOf
<1>6. /\ e.locations = s.locations /\ e.types = s.types /\ e.spells = s.spells
      /\ e.start = s.locations[r.start]
      /\ e.npcs = [n \in DOMAIN r.npcs |-> s.locations[r.npcs[n]]]
      /\ e.paths = [p \in DOMAIN r.paths |->
           [from |-> s.locations[r.paths[p].from], to |-> s.locations[r.paths[p].to],
            time |-> r.paths[p].time]]
  <2>1. /\ e.locations = r.locations /\ e.types = r.types /\ e.spells = r.spells
        /\ e.start = r.locations[r.start]
    BY <1>5 DEF ExportOf
  <2>2. e.npcs = [n \in DOMAIN r.npcs |-> r.locations[r.npcs[n]]]
    BY <1>5 DEF ExportOf
  <2>3. e.paths = [p \in DOMAIN r.paths |->
           [from |-> r.locations[r.paths[p].from], to |-> r.locations[r.paths[p].to],
            time |-> r.paths[p].time]]
    BY <1>5 DEF ExportOf
  <2>4. r.locations = s.locations /\ r.types = s.types /\ r.spells = s.spells
    BY <1>3
  <2> QED BY <2>1, <2>2, <2>3, <2>4
<1>7. e.items = [k \in 1..Cardinality(placed) |->
         [type |-> s.types[r.items[NthIn(placed)[k]].type],
          at |-> s.locations[r.items[NthIn(placed)[k]].at]]]
  <2> DEFINE nth(k) == CHOOSE i \in placed : Cardinality({j \in placed : j <= i}) = k
             row(k) == [type |-> r.types[r.items[nth(k)].type], at |-> r.locations[r.items[nth(k)].at]]
  <2>1. e.items = [k \in 1..Cardinality(placed) |-> row(k)]
    BY <1>4, <1>5 DEF ExportOf
  <2>2. \A k \in 1..Cardinality(placed) : NthIn(placed)[k] = nth(k)
    BY DEF NthIn
  <2>3. ASSUME NEW k \in 1..Cardinality(placed)
        PROVE  row(k) = [type |-> s.types[r.items[NthIn(placed)[k]].type],
                         at |-> s.locations[r.items[NthIn(placed)[k]].at]]
    <3> HIDE DEF nth
    <3> QED BY <1>3, <2>2
  <2> HIDE DEF row
  <2> QED BY <2>1, <2>3
<1>8. \A name \in Names(s.locations) : s.locations[Row(s.locations, name)] = name
  BY ScenarioFacts, RowsAreNames DEF Validate, LocationsResolve
<1>9. \A name \in Names(s.types) : s.types[Row(s.types, name)] = name
  BY ScenarioFacts, RowsAreNames DEF Validate, ItemsResolve
<1>10. e.start = s.start
  BY <1>3, <1>6, <1>8 DEF Validate, LocationsResolve
<1>11. e.npcs = s.npcs
  <2>1. \A n \in DOMAIN s.npcs : s.npcs[n] \in Names(s.locations)
    BY DEF Validate, LocationsResolve
  <2>2. e.npcs = [n \in DOMAIN s.npcs |-> s.npcs[n]]
    <3>1. DOMAIN e.npcs = DOMAIN s.npcs /\ DOMAIN r.npcs = DOMAIN s.npcs
      BY <1>3, <1>6
    <3>2. ASSUME NEW n \in DOMAIN s.npcs
          PROVE  s.locations[r.npcs[n]] = s.npcs[n]
      <4>1. r.npcs[n] = Row(s.locations, s.npcs[n])
        BY <1>3
      <4> QED BY <1>8, <2>1, <4>1
    <3> QED BY <1>6, <3>1, <3>2
  <2>3. s.npcs \in [1..Len(s.npcs) -> Name]
    BY ScenarioLists
  <2> QED BY <2>2, <2>3
<1>12. e.paths = s.paths
  <2>1. \A p \in DOMAIN s.paths :
          s.paths[p].from \in Names(s.locations) /\ s.paths[p].to \in Names(s.locations)
    BY DEF Validate, PathsResolve, Names
  <2>2. s.paths \in [1..Len(s.paths) -> [from : Name, to : Name, time : Int]]
    BY ScenarioLists
  <2>3. ASSUME NEW p \in DOMAIN s.paths
        PROVE  [from |-> s.locations[r.paths[p].from], to |-> s.locations[r.paths[p].to],
                time |-> r.paths[p].time] = s.paths[p]
    <3>1. PICK path \in [from : Name, to : Name, time : Int] : path = s.paths[p]
      BY <2>2
    <3>2. path = [from |-> path.from, to |-> path.to, time |-> path.time]
      OBVIOUS
    <3>3. r.paths[p] = [from |-> Row(s.locations, path.from), to |-> Row(s.locations, path.to),
                        time |-> path.time]
      BY <1>3, <3>1
    <3>4. /\ s.locations[Row(s.locations, path.from)] = path.from
          /\ s.locations[Row(s.locations, path.to)] = path.to
      BY <1>8, <2>1, <3>1
    <3> QED BY <3>1, <3>2, <3>3, <3>4
  <2>4. DOMAIN r.paths = DOMAIN s.paths
    BY <1>3
  <2>5. e.paths = [p \in DOMAIN s.paths |-> s.paths[p]]
    BY <1>6, <2>3, <2>4
  <2> QED BY <2>2, <2>5
<1>13. e.items = [k \in 1..Cardinality(placed) |-> s.items[NthIn(placed)[k]]]
  <2>1. s.items \in [1..Len(s.items) -> [type : Name, at : Name]]
    BY ScenarioLists
  <2>2. \A i \in DOMAIN s.items :
          s.items[i].type \in Names(s.types) /\ s.items[i].at \in Names(s.locations)
    BY DEF Validate, ItemsResolve, Names
  <2>3. \A k \in 1..Cardinality(placed) : NthIn(placed)[k] \in placed
    <3> TAKE k \in 1..Cardinality(placed)
    <3>1. placed \in SUBSET Nat /\ IsFiniteSet(placed)
      <4>1. DOMAIN s.items = 1..Len(s.items) /\ Len(s.items) \in Nat
        BY <2>1, ScenarioLists
      <4>2. IsFiniteSet(1..Len(s.items))
        BY <4>1, FS_Interval
      <4> QED BY <1>4, <4>1, <4>2, FS_Subset
    <3>2. \E i \in placed : Cardinality({j \in placed : j <= i}) = k
      BY <3>1, RanksAreTaken
    <3> QED BY <3>2 DEF NthIn
  <2>4. ASSUME NEW i \in DOMAIN s.items
        PROVE  [type |-> s.types[r.items[i].type], at |-> s.locations[r.items[i].at]] = s.items[i]
    <3>1. PICK item \in [type : Name, at : Name] : item = s.items[i]
      BY <2>1
    <3>2. item = [type |-> item.type, at |-> item.at]
      OBVIOUS
    <3>3. r.items[i] = [type |-> Row(s.types, item.type), at |-> Row(s.locations, item.at)]
      BY <1>3, <3>1
    <3>4. s.types[Row(s.types, item.type)] = item.type
      BY <1>9, <2>2, <3>1
    <3>5. s.locations[Row(s.locations, item.at)] = item.at
      BY <1>8, <2>2, <3>1
    <3> QED BY <3>1, <3>2, <3>3, <3>4, <3>5
  <2> QED BY <1>4, <1>7, <2>3, <2>4
<1> QED BY <1>1, <1>2, <1>5, <1>e, <1>6, <1>10, <1>11, <1>12, <1>13

LEMMA PlacedFacts ==
  ASSUME NEW s \in Scenario, NEW away, NEW k \in 1..Cardinality(Placed(s, away))
  PROVE  NthIn(Placed(s, away))[k] \in DOMAIN s.items
<1>1. PICK placed : placed = Placed(s, away)
  OBVIOUS
<1>2. placed \in SUBSET Nat /\ IsFiniteSet(placed) /\ placed \subseteq DOMAIN s.items
  <2>1. DOMAIN s.items = 1..Len(s.items) /\ Len(s.items) \in Nat
    BY ScenarioLists
  <2>2. IsFiniteSet(1..Len(s.items))
    BY <2>1, FS_Interval
  <2> QED BY <1>1, <2>1, <2>2, FS_Subset DEF Placed
<1>3. k \in 1..Cardinality(placed)
  BY <1>1
<1>4. \E i \in placed : Cardinality({j \in placed : j <= i}) = k
  BY <1>2, <1>3, RanksAreTaken
<1>5. NthIn(placed)[k] \in placed
  BY <1>3, <1>4 DEF NthIn
<1> QED BY <1>1, <1>2, <1>5

(* Whatever is held, what is exported is a file that can be installed. *)
LEMMA ExportsValidate ==
  ASSUME NEW s \in Scenario, Validate(s), NEW away
  PROVE  Validate(ExportOf(Install(s), away))
<1>1. PICK e : e = ExportOf(Install(s), away)
  OBVIOUS
<1>2. /\ e.locations = s.locations /\ e.start = s.start /\ e.npcs = s.npcs /\ e.paths = s.paths
      /\ e.types = s.types /\ e.spells = s.spells
      /\ e.items = [k \in 1..Cardinality(Placed(s, away)) |-> s.items[NthIn(Placed(s, away))[k]]]
  <2>1. /\ e = [locations |-> s.locations, start |-> s.start, npcs |-> s.npcs, paths |-> s.paths,
                types |-> s.types, spells |-> s.spells, items |-> e.items]
        /\ e.items = [k \in 1..Cardinality(Placed(s, away)) |-> s.items[NthIn(Placed(s, away))[k]]]
    BY <1>1, ExportFields
  <2>2. e.locations = s.locations /\ e.start = s.start /\ e.npcs = s.npcs
    BY <2>1
  <2>3. e.paths = s.paths /\ e.types = s.types /\ e.spells = s.spells
    BY <2>1
  <2> QED BY <2>1, <2>2, <2>3
<1>3. Names(e.items) \subseteq Names(s.items)
  <2>1. \A k \in 1..Cardinality(Placed(s, away)) : NthIn(Placed(s, away))[k] \in DOMAIN s.items
    BY PlacedFacts
  <2> QED BY <1>2, <2>1 DEF Names
<1>4. LocationsResolve(e)
  BY <1>2 DEF Validate, LocationsResolve
<1>5. PathsResolve(e)
  BY <1>2 DEF Validate, PathsResolve
<1>6. ItemsResolve(e)
  BY <1>2, <1>3 DEF Validate, ItemsResolve
<1> QED BY <1>1, <1>4, <1>5, <1>6 DEF Validate

(* With nothing held, it is the file that was installed. *)
LEMMA ExportsRestore ==
  ASSUME NEW s \in Scenario, Validate(s)
  PROVE  ExportOf(Install(s), {}) = s
<1>1. PICK n \in Nat : n = Len(s.items)
  BY ScenarioLists
<1>2. Placed(s, {}) = 1..n /\ s.items \in [1..n -> [type : Name, at : Name]]
  BY <1>1, ScenarioLists DEF Placed
<1>3. Cardinality(1..n) = n
  BY FS_Interval
<1>4. \A k \in 1..n : NthIn(1..n)[k] = k
  <2> TAKE k \in 1..n
  <2>1. \A i \in 1..n : Cardinality({j \in 1..n : j <= i}) = i
    <3> TAKE i \in 1..n
    <3>1. {j \in 1..n : j <= i} = 1..i
      OBVIOUS
    <3>2. Cardinality(1..i) = i
      BY FS_Interval
    <3> QED BY <3>1, <3>2
  <2>2. NthIn(1..n)[k] = CHOOSE i \in 1..n : Cardinality({j \in 1..n : j <= i}) = k
    BY <1>3 DEF NthIn
  <2>3. Cardinality({j \in 1..n : j <= k}) = k
    BY <2>1
  <2>4. PICK c : c = CHOOSE i \in 1..n : Cardinality({j \in 1..n : j <= i}) = k
    OBVIOUS
  <2>5. c \in 1..n /\ Cardinality({j \in 1..n : j <= c}) = k
    BY <2>3, <2>4
  <2> QED BY <2>1, <2>2, <2>4, <2>5
<1>5. PICK e : e = ExportOf(Install(s), {})
  OBVIOUS
<1>6. /\ e = [locations |-> s.locations, start |-> s.start, npcs |-> s.npcs, paths |-> s.paths,
              types |-> s.types, spells |-> s.spells, items |-> e.items]
      /\ e.items = [k \in 1..Cardinality(1..n) |-> s.items[NthIn(1..n)[k]]]
  BY <1>2, <1>5, ExportFields
<1>7. e.items = s.items
  <2>1. e.items = [k \in 1..n |-> s.items[k]]
    BY <1>3, <1>4, <1>6
  <2> QED BY <1>2, <2>1
<1>8. e = s
  <2>1. s = [locations |-> s.locations, start |-> s.start, npcs |-> s.npcs, paths |-> s.paths,
             types |-> s.types, spells |-> s.spells, items |-> s.items]
    BY ScenarioShape
  <2> QED BY <1>6, <1>7, <2>1
<1> QED BY <1>5, <1>8
-----------------------------------------------------------------------------
(* Library adds rows and files to what Membership does. *)

LEMMA LibrarySteps == [Next]_vars => [MembershipStep]_memberVars
BY DEF Next, ImportScenario, Accept, OwnerActs, TakeItem, BeginExport, FinishExport, vars,
   MembershipStep

(* So the library is used as Membership specifies: no import, start-up,    *)
(* item or export of store.rs touches an owner, a seat or a token but in    *)
(* one of Membership's own transactions.                                    *)
THEOREM LibraryImplementsMembership == Spec => MembershipSpec
<1>1. Init => MembershipInit
  BY DEF Init
<1> QED BY <1>1, LibrarySteps, PTL DEF Spec, MembershipSpec

LEMMA LibraryStarts == Init => LibraryInv
<1> SUFFICES ASSUME Init PROVE LibraryInv
  OBVIOUS
<1>1. \A w \in World : ~Exists(w)
  BY DEF Init, MembershipInit, Exists
<1>2. RowsOfFiles /\ HeldAreRows
  BY <1>1 DEF Init, LibraryInit, RowsOfFiles, HeldAreRows
<1>3. OneHandleEach
  <2>1. IsFiniteSet({}) /\ Cardinality({}) = 0
    BY FS_EmptySet
  <2>2. {} \in Drawn
    BY <2>1 DEF Drawn, ShortUse
  <2> QED BY <2>1, <2>2 DEF Init, LibraryInit, OneHandleEach
<1>4. ExportsFollow
  BY DEF Init, LibraryInit, ExportsFollow
<1> QED BY <1>2, <1>3, <1>4, MembershipStarts DEF Init, LibraryInv

(* A new world has nothing held and no export; the others keep theirs. *)
LEMMA ImportKeeps ==
  ASSUME LibraryInv, NEW u \in User, NEW w \in World, NEW s \in Scenario, ImportScenario(u, w, s)
  PROVE  RowsOfFiles' /\ HeldAreRows' /\ OneHandleEach' /\ ExportsFollow'
<1>1. /\ Validate(s) /\ ~Exists(w)
      /\ file' = [file EXCEPT ![w] = s] /\ rows' = [rows EXCEPT ![w] = Install(s)]
      /\ owner' = [owner EXCEPT ![w] = u]
      /\ held' = held /\ export' = export
  BY DEF ImportScenario, InstallScenario, Exists
<1>2. DOMAIN owner = World /\ u # Nobody
  BY MembershipAssumption DEF LibraryInv, MembershipInv, MembershipTypeOK
<1>3. /\ DOMAIN rows = World /\ DOMAIN file = World
      /\ \A x \in World : Exists(x) =>
           /\ file[x] \in Scenario /\ Validate(file[x])
           /\ rows[x] = Install(file[x])
  BY DEF LibraryInv, RowsOfFiles
<1>4. /\ \A x \in World : x # w => /\ file'[x] = file[x] /\ rows'[x] = rows[x]
                                   /\ owner'[x] = owner[x]
      /\ file'[w] = s /\ rows'[w] = Install(s) /\ owner'[w] = u
      /\ DOMAIN rows' = World /\ DOMAIN file' = World
  BY <1>1, <1>2, <1>3
<1>5. RowsOfFiles'
  BY <1>1, <1>3, <1>4 DEF RowsOfFiles, Exists
<1>6. HeldAreRows'
  BY <1>1, <1>4 DEF LibraryInv, HeldAreRows, Exists
<1>7. OneHandleEach'
  <2>1. Len(s.npcs) + 1 \in Nat
    BY ScenarioLists
  <2>2. handles' \in Draws(Len(s.npcs) + 1) /\ characters' = characters + (Len(s.npcs) + 1)
    BY DEF ImportScenario, InsertCharacters
  <2> QED BY <2>1, <2>2, DrawsFacts DEF LibraryInv, OneHandleEach
<1>8. ExportsFollow'
  <2>1. CASE export = Idle
    BY <2>1, <1>1 DEF ExportsFollow
  <2>2. CASE export # Idle
    <3>1. PICK x \in World, torn \in BOOLEAN :
            /\ Exists(x)
            /\ \/ export = Checked(x, torn) /\ (torn \/ held[x] = {})
               \/ /\ export = Written(x, torn, export.file)
                  /\ Validate(export.file)
                  /\ torn \/ export.file = file[x]
      BY <2>2 DEF LibraryInv, ExportsFollow
    <3>2. x # w
      BY <3>1, <1>1
    <3> QED BY <3>1, <3>2, <1>1, <1>4 DEF ExportsFollow, Exists
  <2> QED BY <2>1, <2>2
<1> QED BY <1>5, <1>6, <1>7, <1>8

(* A newcomer takes one handle, who returns none. *)
LEMMA AcceptDraws ==
  ASSUME LibraryInv, NEW u \in User, NEW t \in Invite, Accept(u, t)
  PROVE  RowsOfFiles' /\ HeldAreRows' /\ OneHandleEach' /\ ExportsFollow'
<1>1. UNCHANGED <<owner, file, rows, held, export>>
  BY DEF Accept, AcceptInvitation
<1>2. OneHandleEach'
  <2>1. agents \in Nat /\ (agents' = agents \/ agents' = agents + 1)
    BY DEF Accept, AcceptInvitation, JoinWorld, LibraryInv, MembershipInv, MembershipTypeOK
  <2>2. PICK n \in Nat : n = agents' - agents
    BY <2>1
  <2>3. handles' \in Draws(n) /\ characters' = characters + n
    BY <2>2 DEF Accept, InsertCharacters
  <2> QED BY <2>3, DrawsFacts DEF LibraryInv, OneHandleEach
<1> QED BY <1>1, <1>2 DEF LibraryInv, RowsOfFiles, HeldAreRows, ExportsFollow, Exists

LEMMA TakeKeeps ==
  ASSUME LibraryInv, NEW w \in World, Exists(w), NEW i \in DOMAIN rows[w].items, TakeItem(w, i)
  PROVE  RowsOfFiles' /\ HeldAreRows' /\ OneHandleEach' /\ ExportsFollow'
<1>1. /\ UNCHANGED <<owner, file, rows, handles, characters>>
      /\ held' = [held EXCEPT ![w] = @ \cup {i}]
  BY DEF TakeItem, memberVars
<1>2. DOMAIN held = World
  BY DEF LibraryInv, HeldAreRows
<1>3. RowsOfFiles' /\ OneHandleEach'
  BY <1>1 DEF LibraryInv, RowsOfFiles, OneHandleEach, Exists
<1>4. HeldAreRows'
  BY <1>1, <1>2 DEF LibraryInv, HeldAreRows, Exists
<1>5. ExportsFollow'
  <2>1. CASE export = Idle
    BY <2>1 DEF TakeItem, ExportsFollow, Idle
  <2>2. CASE export # Idle
    <3>1. PICK x \in World, torn \in BOOLEAN :
            /\ Exists(x)
            /\ \/ export = Checked(x, torn) /\ (torn \/ held[x] = {})
               \/ /\ export = Written(x, torn, export.file)
                  /\ Validate(export.file)
                  /\ torn \/ export.file = file[x]
      BY <2>2 DEF LibraryInv, ExportsFollow
    <3>2. CASE export = Checked(x, torn) /\ x = w
      <4>1. export' = Checked(w, TRUE)
        BY <3>2 DEF TakeItem, Checked
      <4> QED BY <4>1, <3>1, <1>1 DEF ExportsFollow, Exists
    <3>3. CASE export = Checked(x, torn) /\ x # w
      <4>1. export' = Checked(x, torn)
        BY <3>3 DEF TakeItem, Checked
      <4>2. held'[x] = held[x]
        BY <3>3, <1>1, <1>2
      <4>3. torn \/ held[x] = {}
        BY <3>1, <3>3 DEF Checked, Written
      <4> QED BY <4>1, <4>2, <4>3, <3>1, <1>1 DEF ExportsFollow, Exists
    <3>4. CASE export = Written(x, torn, export.file)
      <4>1. export' = export
        BY <3>4 DEF TakeItem, Written
      <4>2. Validate(export.file) /\ (torn \/ export.file = file[x])
        BY <3>1, <3>4 DEF Checked, Written
      <4> QED BY <4>1, <4>2, <3>1, <3>4, <1>1 DEF ExportsFollow, Exists
    <3> QED BY <3>1, <3>2, <3>3, <3>4
  <2> QED BY <2>1, <2>2
<1> QED BY <1>3, <1>4, <1>5

(* What is read of a world in which nothing was taken is its file. *)
LEMMA FinishKeeps ==
  ASSUME LibraryInv, FinishExport
  PROVE  ExportsFollow'
<1>1. /\ UNCHANGED <<owner, file>> /\ export.stage = "checked"
      /\ export' = [stage |-> "written", world |-> export.world, torn |-> export.torn,
                    file |-> ExportOf(rows[export.world], held[export.world])]
  BY DEF FinishExport, memberVars
<1>2. PICK w \in World, torn \in BOOLEAN :
        Exists(w) /\ export = Checked(w, torn) /\ (torn \/ held[w] = {})
  BY <1>1 DEF LibraryInv, ExportsFollow, Idle, Written
<1>3. PICK s : s = ExportOf(rows[w], held[w])
  OBVIOUS
<1>4. export' = Written(w, torn, s) /\ export'.file = s
  BY <1>1, <1>2, <1>3 DEF Checked, Written
<1>5. file[w] \in Scenario /\ Validate(file[w]) /\ rows[w] = Install(file[w])
  BY <1>2 DEF LibraryInv, RowsOfFiles
<1>6. Validate(s)
  BY <1>3, <1>5, ExportsValidate
<1>7. torn \/ s = file[w]
  BY <1>2, <1>3, <1>5, ExportsRestore
<1> QED BY <1>1, <1>2, <1>4, <1>6, <1>7 DEF ExportsFollow, Exists

LEMMA LibraryInvariance ==
  ASSUME LibraryInv, [Next]_vars
  PROVE  LibraryInv'
<1>1. MembershipInv'
  BY LibrarySteps, MembershipInvariance DEF LibraryInv
<1> SUFFICES RowsOfFiles' /\ HeldAreRows' /\ OneHandleEach' /\ ExportsFollow'
  BY <1>1 DEF LibraryInv
<1>2. CASE UNCHANGED <<owner, libraryVars>>
  BY <1>2 DEF LibraryInv, libraryVars, RowsOfFiles, HeldAreRows, OneHandleEach, ExportsFollow, Exists
<1>3. CASE UNCHANGED vars
  BY <1>2, <1>3 DEF vars, memberVars
<1>4. CASE OwnerActs
  BY <1>2, <1>4 DEF OwnerActs, CreateInvitation, RevokeInvitation, RemoveMember
<1>5. CASE \E w \in World : BeginExport(w)
  <2>1. PICK w \in World : BeginExport(w)
    BY <1>5
  <2>2. /\ UNCHANGED <<owner, file, rows, held, handles, characters>>
        /\ Exists(w) /\ held[w] = {} /\ export' = Checked(w, FALSE)
    BY <2>1 DEF BeginExport, MayExport, memberVars, Checked
  <2>3. ExportsFollow'
    BY <2>2 DEF ExportsFollow, Exists
  <2> QED BY <2>2, <2>3 DEF LibraryInv, RowsOfFiles, HeldAreRows, OneHandleEach, Exists
<1>6. CASE FinishExport
  <2>1. UNCHANGED <<owner, file, rows, held, handles, characters>>
    BY <1>6 DEF FinishExport, memberVars
  <2>2. ExportsFollow'
    BY <1>6, FinishKeeps
  <2> QED BY <2>1, <2>2 DEF LibraryInv, RowsOfFiles, HeldAreRows, OneHandleEach, Exists
<1> QED BY <1>3, <1>4, <1>5, <1>6, ImportKeeps, AcceptDraws, TakeKeeps DEF Next

(* The invariant, for any files, users, worlds, tokens and base.           *)
THEOREM LibraryHolds == Spec => []LibraryInv
BY LibraryStarts, LibraryInvariance, PTL DEF Spec

(* next_character_tool_id draws numbers, items are held of worlds there    *)
(* are, and an export is of such a world.                                  *)
THEOREM Typing == Spec => []TypeOK
<1>1. ASSUME LibraryInv
      PROVE  TypeOK
  <2>1. handles \subseteq Nat /\ characters \in Nat
    BY <1>1 DEF LibraryInv, OneHandleEach, Drawn
  <2>2. export.stage # "none" => export.world \in World /\ Exists(export.world)
    BY <1>1 DEF LibraryInv, ExportsFollow, Idle, Checked, Written
  <2>3. MembershipTypeOK
    BY <1>1 DEF LibraryInv, MembershipInv
  <2> QED BY <1>1, <2>1, <2>2, <2>3 DEF LibraryInv, HeldAreRows, TypeOK
<1> QED BY <1>1, LibraryHolds, PTL

(* export_scenario writes the file that import_scenario read, unless an    *)
(* item is taken while it reads; what it writes then can be imported too.  *)
THEOREM ExportsRoundTrip == Spec => []ExportsAreWhole
<1>1. ASSUME LibraryInv
      PROVE  ExportsAreWhole
  <2> SUFFICES ASSUME export.stage = "written"
               PROVE  Validate(export.file) /\ (~export.torn => export.file = file[export.world])
    BY DEF ExportsAreWhole
  <2>1. PICK w \in World, torn \in BOOLEAN :
          /\ export = Written(w, torn, export.file)
          /\ Validate(export.file)
          /\ torn \/ export.file = file[w]
    BY <1>1 DEF LibraryInv, ExportsFollow, Idle, Checked
  <2>2. export.world = w /\ export.torn = torn
    BY <2>1 DEF Written
  <2> QED BY <2>1, <2>2
<1> QED BY <1>1, LibraryHolds, PTL

(* No two characters share a handle, next_character_tool_id always finds   *)
(* one, and it is one of the fewest digits.                                *)
THEOREM HandlesStayShort == Spec => []HandlesAreShort
<1>1. ASSUME LibraryInv
      PROVE  HandlesAreShort
  <2>1. characters \in Nat /\ Cardinality(handles) = characters /\ ShortUse(handles)
    BY <1>1 DEF LibraryInv, OneHandleEach, Drawn
  <2> QED BY <2>1 DEF HandlesAreShort, ShortUse
<1> QED BY <1>1, LibraryHolds, PTL

(* Whatever is imported, exported and played meanwhile, members, slots and *)
(* owners stay in step.                                                    *)
THEOREM MembersStayInStep == Spec => []MembershipInv
<1>1. LibraryInv => MembershipInv
  BY DEF LibraryInv
<1> QED BY <1>1, LibraryHolds, PTL

(* accept_invitation consumes a slot for each new member and nobody else.  *)
THEOREM SlotsMatchSeats == Spec => []SlotsAreSeats
<1>1. MembershipInv => SlotsAreSeats
  BY DEF MembershipInv
<1> QED BY <1>1, MembersStayInStep, PTL

(* A world that exists has its owner as a member with access.              *)
THEOREM WorldsHaveOwners == Spec => []OwnersStay
<1>1. MembershipInv => OwnersStay
  BY DEF MembershipInv
<1> QED BY <1>1, MembersStayInStep, PTL

(* A member keeps the agent, through removal and return.                   *)
THEOREM SeatsStay == Spec => SeatsAreForever
<1>1. ASSUME MembershipInv, [Next]_vars
      PROVE  [\A w \in World : \A u \in User :
                Member(w, u) => agent'[w][u] = agent[w][u]]_memberVars
  BY <1>1, LibrarySteps, SeatKept
<1> QED BY <1>1, MembersStayInStep, PTL DEF Spec, SeatsAreForever

(* install_scenario looks up nothing that Scenario::validate has not       *)
(* found: every reference of every installed world is a row of that world. *)
THEOREM NoDanglingRows == Spec => []GraphsAreWhole
<1>1. LibraryInv => GraphsAreWhole
  BY InstallResolves DEF LibraryInv, RowsOfFiles, GraphsAreWhole
<1> QED BY <1>1, LibraryHolds, PTL
=============================================================================
