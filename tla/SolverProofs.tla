------------------------------ MODULE SolverProofs ------------------------------
(***************************************************************************)
(* Proofs about Solver for every set of calls, problems and values, every  *)
(* largest int and every limit.                                            *)
(***************************************************************************)
EXTENDS Solver, DataLemmas

USE ValueAssumption

-----------------------------------------------------------------------------
(* Results and answers *)

ProductTypes == {"none", "float64", "numeral", "word", "bool", "nil", "error", "panic"}

LEMMA ProductFacts ==
    \A p \in Product : /\ p.type \in ProductTypes
                       /\ p.type \in {"float64", "numeral"} => p.halves \in Values
<1>. SUFFICES ASSUME NEW p \in Product
              PROVE  /\ p.type \in ProductTypes
                     /\ p.type \in {"float64", "numeral"} => p.halves \in Values
  OBVIOUS
<1>1. CASE p \in [type : {"float64"}, halves : Values]
  BY <1>1 DEF ProductTypes
<1>2. CASE p \in [type : {"numeral"}, halves : {h \in Values : h % 2 = 0}]
  BY <1>2 DEF ProductTypes
<1>3. CASE p \in [type : {"none", "word", "bool", "nil", "error", "panic"}, halves : {0}]
  BY <1>3 DEF ProductTypes
<1>. QED
  BY <1>1, <1>2, <1>3 DEF Product

LEMMA RefusalFacts ==
    \A kind \in {"none", "refused", "invalid", "timeout", "failed", "not a number", "unexpected type"} :
        Refusal(kind) \in Answer /\ Refusal(kind).kind = kind
BY DEF Refusal, Answer

LEMMA IntsFacts ==
    ASSUME NEW h \in Values
    PROVE  /\ IntsOf(h) \subseteq IntMin..IntMax
           /\ h \in InRange => IntsOf(h) = {Truncated[h]}
BY DEF IntsOf, InRange, IntMin

\* The type switch gives an answer, and the one the product calls for.
LEMMA ConvertedFacts ==
    ASSUME NEW p \in Product, p.type \notin {"none", "nil", "error", "panic"},
           NEW a \in Converted(p)
    PROVE  /\ a \in Answer
           /\ a.kind \in {"number", "not a number", "unexpected type"}
           /\ Own(p, a)
<1>1. /\ p.type \in ProductTypes
      /\ p.type \in {"float64", "numeral"} => p.halves \in Values
  BY ProductFacts
<1>2. CASE p.type = "float64"
  <2>1. a \in [kind : {"number"}, value : IntsOf(p.halves)]
    BY <1>2 DEF Converted
  <2>. QED
    BY <1>1, <1>2, <2>1, IntsFacts DEF Answer, Own
<1>3. CASE p.type = "numeral" /\ p.halves \in InRange
  <2>1. a \in [kind : {"number"}, value : {Truncated[p.halves]}]
    BY <1>3 DEF Converted
  <2>. QED
    BY <1>1, <1>3, <2>1 DEF Answer, InRange, Own
<1>4. CASE p.type = "numeral" /\ p.halves \notin InRange
  <2>1. a = Refusal("not a number")
    BY <1>4 DEF Converted
  <2>. QED
    BY <1>4, <2>1, RefusalFacts DEF Own
<1>5. CASE p.type = "word"
  <2>1. a = Refusal("not a number")
    BY <1>5 DEF Converted
  <2>. QED
    BY <1>5, <2>1, RefusalFacts DEF Own
<1>6. CASE p.type = "bool"
  <2>1. a = Refusal("unexpected type")
    BY <1>6 DEF Converted
  <2>. QED
    BY <1>6, <2>1, RefusalFacts DEF Own
<1>. QED
  BY <1>1, <1>2, <1>3, <1>4, <1>5, <1>6 DEF ProductTypes

-----------------------------------------------------------------------------
(* The counters of validateComplexity *)

Among(p, i, j, class) == Cardinality({k \in i..j : p[k] = class})

LEMMA AmongStep ==
    ASSUME NEW p, NEW class, NEW i \in Nat \ {0}
    PROVE  /\ Among(p, 1, i, class) = Among(p, 1, i-1, class) + (IF p[i] = class THEN 1 ELSE 0)
           /\ Among(p, 1, i, class) \in Nat /\ Among(p, 1, i-1, class) \in Nat
<1>. DEFINE S == {k \in 1..(i-1) : p[k] = class}
            T == {k \in 1..i : p[k] = class}
<1>1. IsFiniteSet(1..(i-1)) /\ IsFiniteSet(1..i)
  BY FS_Interval
<1>2. IsFiniteSet(S) /\ IsFiniteSet(T)
  BY <1>1, FS_Subset
<1>3. Cardinality(S) \in Nat /\ Cardinality(T) \in Nat
  BY <1>2, FS_CardinalityType
<1>4. Cardinality(T) = Cardinality(S) + (IF p[i] = class THEN 1 ELSE 0)
  <2>1. CASE p[i] = class
    <3>1. T = S \cup {i} /\ i \notin S
      BY <2>1
    <3>2. Cardinality(S \cup {i}) = Cardinality(S) + 1
      BY <3>1, <1>2, FS_AddElement
    <3>. QED
      BY <3>1, <3>2, <2>1
  <2>2. CASE p[i] # class
    <3>1. T = S
      BY <2>2
    <3>. HIDE DEF S, T
    <3>. QED
      BY <3>1, <1>3, <2>2
  <2>. QED
    BY <2>1, <2>2
<1>5. Among(p, 1, i, class) = Cardinality(T) /\ Among(p, 1, i-1, class) = Cardinality(S)
  BY DEF Among
<1>. HIDE DEF S, T
<1>. QED
  BY <1>3, <1>4, <1>5

LEMMA AmongNone ==
    ASSUME NEW p, NEW class
    PROVE  Among(p, 1, 0, class) = 0
<1>1. {k \in 1..0 : p[k] = class} = {}
  OBVIOUS
<1>. QED
  BY <1>1, FS_EmptySet DEF Among

Weight(class) == CASE class = "open" -> 1 [] class = "close" -> -1 [] OTHER -> 0

\* The nesting depth counted along the problem is the surplus of opening parentheses.
LEMMA DepthsCount ==
    ASSUME NEW p \in Seq(Classes)
    PROVE  \A i \in 0..Len(p) :
              Depths(p)[i] = Among(p, 1, i, "open") - Among(p, 1, i, "close")
<1>1. PICK n \in Nat : n = Len(p)
  OBVIOUS
<1>. DEFINE Goes(f) == f = [i \in 0..n |-> IF i = 0 THEN 0 ELSE f[i-1] + Weight(p[i])]
            g == [i \in 0..n |-> Among(p, 1, i, "open") - Among(p, 1, i, "close")]
<1>2. Depths(p) = CHOOSE f : Goes(f)
  BY <1>1 DEF Depths, Weight
<1>3. g[0] = 0
  BY AmongNone
<1>4. ASSUME NEW i \in 1..n PROVE g[i] = g[i-1] + Weight(p[i])
  <2>1. i \in Nat \ {0} /\ i \in 0..n /\ i-1 \in 0..n
    BY <1>4
  <2>2. PICK a \in Nat, b \in Nat : a = Among(p, 1, i-1, "open") /\ b = Among(p, 1, i-1, "close")
    BY <2>1, AmongStep
  <2>3. /\ Among(p, 1, i, "open") = a + (IF p[i] = "open" THEN 1 ELSE 0)
        /\ Among(p, 1, i, "close") = b + (IF p[i] = "close" THEN 1 ELSE 0)
    BY <2>1, <2>2, AmongStep
  <2>4. g[i] = Among(p, 1, i, "open") - Among(p, 1, i, "close") /\ g[i-1] = a - b
    BY <2>1, <2>2
  <2>. HIDE DEF g
  <2>. QED
    BY <2>3, <2>4 DEF Weight
<1>5. Goes(g)
  <2>1. \A i \in 0..n : g[i] = IF i = 0 THEN 0 ELSE g[i-1] + Weight(p[i])
    BY <1>3, <1>4
  <2>2. g = [i \in 0..n |-> g[i]]
    OBVIOUS
  <2>. HIDE DEF g
  <2>. QED
    BY <2>1, <2>2
<1>6. Goes(Depths(p))
  <2>. HIDE DEF Goes, g
  <2>. QED
    BY <1>2, <1>5
<1>7. /\ Depths(p)[0] = 0
      /\ \A i \in 1..n : Depths(p)[i] = Depths(p)[i-1] + Weight(p[i])
  <2>1. \A i \in 0..n : Depths(p)[i] = IF i = 0 THEN 0 ELSE Depths(p)[i-1] + Weight(p[i])
    BY <1>6, Zenon
  <2>. QED
    BY <2>1
<1>8. \A i \in 0..n : Depths(p)[i] = g[i]
  <2>. HIDE DEF g
  <2>. DEFINE A == {i \in 0..n : Depths(p)[i] = g[i]}
  <2>1. 0 \in A
    BY <1>3, <1>7
  <2>2. \A i \in 1..n : i-1 \in A => i \in A
    BY <1>4, <1>7
  <2>. HIDE DEF A
  <2>3. 0..n \subseteq A
    BY <2>1, <2>2, IntervalInduction
  <2>. QED
    BY <2>3 DEF A
<1>. QED
  BY <1>1, <1>8

\* Where a run of digits that ends at i may begin.
RunTo(p, i) == {k \in 1..i : \A l \in k..i : p[l] = "digit"}

LEMMA RunStep ==
    ASSUME NEW p, NEW i \in Nat
    PROVE  /\ Cardinality(RunTo(p, i)) \in Nat
           /\ i = 0 \/ p[i] # "digit" => Cardinality(RunTo(p, i)) = 0
           /\ i # 0 /\ p[i] = "digit" =>
                 Cardinality(RunTo(p, i)) = Cardinality(RunTo(p, i-1)) + 1
<1>1. IsFiniteSet(1..i) /\ RunTo(p, i) \in SUBSET (1..i)
  BY FS_Interval DEF RunTo
<1>2. Cardinality(RunTo(p, i)) \in Nat
  BY <1>1, FS_Subset, FS_CardinalityType
<1>3. CASE i = 0 \/ p[i] # "digit"
  <2>1. RunTo(p, i) = {}
    BY <1>3 DEF RunTo
  <2>. QED
    BY <2>1, <1>2, <1>3, FS_EmptySet
<1>4. CASE i # 0 /\ p[i] = "digit"
  <2>1. RunTo(p, i) = RunTo(p, i-1) \cup {i}
    <3>1. ASSUME NEW k \in RunTo(p, i), k # i PROVE k \in RunTo(p, i-1)
      <4>1. k \in 1..(i-1) /\ \A l \in k..(i-1) : l \in k..i
        BY <3>1 DEF RunTo
      <4>. QED
        BY <4>1, <3>1 DEF RunTo
    <3>2. ASSUME NEW k \in RunTo(p, i-1) PROVE k \in RunTo(p, i)
      <4>1. k \in 1..i /\ \A l \in k..i : l = i \/ l \in k..(i-1)
        BY <3>2 DEF RunTo
      <4>. QED
        BY <4>1, <3>2, <1>4 DEF RunTo
    <3>3. i \in RunTo(p, i)
      <4>1. i \in 1..i /\ \A l \in i..i : l = i
        BY <1>4
      <4>. QED
        BY <4>1, <1>4 DEF RunTo
    <3>. QED
      BY <3>1, <3>2, <3>3
  <2>2. i \notin RunTo(p, i-1)
    BY DEF RunTo
  <2>3. IsFiniteSet(RunTo(p, i-1))
    <3>1. IsFiniteSet(1..(i-1)) /\ RunTo(p, i-1) \in SUBSET (1..(i-1))
      BY FS_Interval DEF RunTo
    <3>. QED
      BY <3>1, FS_Subset
  <2>4. Cardinality(RunTo(p, i-1) \cup {i}) = Cardinality(RunTo(p, i-1)) + 1
    BY <2>2, <2>3, FS_AddElement
  <2>. QED
    BY <2>1, <2>4, <1>2, <1>4
<1>. QED
  BY <1>2, <1>3, <1>4

\* currentNumberLength is the number of digits the run at that place has so far.
LEMMA NumberLengthsCount ==
    ASSUME NEW p \in Seq(Classes)
    PROVE  \A i \in 0..Len(p) : NumberLengths(p)[i] = Cardinality(RunTo(p, i))
<1>1. PICK n \in Nat : n = Len(p)
  OBVIOUS
<1>. DEFINE Goes(f) == f = [i \in 0..n |-> IF i = 0 \/ p[i] # "digit" THEN 0 ELSE f[i-1] + 1]
            g == [i \in 0..n |-> Cardinality(RunTo(p, i))]
<1>2. NumberLengths(p) = CHOOSE f : Goes(f)
  BY <1>1 DEF NumberLengths
<1>3. \A i \in 0..n : g[i] = IF i = 0 \/ p[i] # "digit" THEN 0 ELSE g[i-1] + 1
  <2>. SUFFICES ASSUME NEW i \in 0..n
                PROVE  g[i] = IF i = 0 \/ p[i] # "digit" THEN 0 ELSE g[i-1] + 1
    OBVIOUS
  <2>1. g[i] = Cardinality(RunTo(p, i)) /\ i \in Nat
    OBVIOUS
  <2>2. i # 0 => g[i-1] = Cardinality(RunTo(p, i-1))
    OBVIOUS
  <2>. HIDE DEF g
  <2>. QED
    BY <2>1, <2>2, RunStep
<1>4. Goes(g)
  <2>1. g = [i \in 0..n |-> g[i]]
    OBVIOUS
  <2>. HIDE DEF g
  <2>. QED
    BY <2>1, <1>3
<1>5. Goes(NumberLengths(p))
  <2>. HIDE DEF Goes, g
  <2>. QED
    BY <1>2, <1>4
<1>6. \A i \in 0..n : NumberLengths(p)[i] =
                      IF i = 0 \/ p[i] # "digit" THEN 0 ELSE NumberLengths(p)[i-1] + 1
  BY <1>5, Zenon
<1>7. \A i \in 0..n : NumberLengths(p)[i] = g[i]
  <2>. HIDE DEF g
  <2>. DEFINE A == {i \in 0..n : NumberLengths(p)[i] = g[i]}
  <2>1. 0 \in A
    BY <1>3, <1>6
  <2>2. \A i \in 1..n : i-1 \in A => i \in A
    BY <1>3, <1>6
  <2>. HIDE DEF A
  <2>3. 0..n \subseteq A
    BY <2>1, <2>2, IntervalInduction
  <2>. QED
    BY <2>3 DEF A
<1>. QED
  BY <1>1, <1>7

\* A window of i..j has as many digits as places exactly when it holds only digits.
LEMMA FullWindow ==
    ASSUME NEW p, NEW j \in Nat, NEW i \in 1..j
    PROVE  Among(p, i, j, "digit") = j - i + 1 <=> i \in RunTo(p, j)
<1>. DEFINE D == {k \in i..j : p[k] = "digit"}
<1>1. IsFiniteSet(i..j) /\ Cardinality(i..j) = j - i + 1 /\ D \in SUBSET (i..j)
  BY FS_Interval
<1>2. Cardinality(i..j) = Cardinality(D) <=> i..j = D
  BY <1>1, FS_Subset
<1>3. i..j = D <=> i \in RunTo(p, j)
  BY DEF RunTo
<1>4. Among(p, i, j, "digit") = Cardinality(D)
  BY DEF Among
<1>. HIDE DEF D
<1>. QED
  BY <1>1, <1>2, <1>3, <1>4

\* No count exceeds the limit exactly when no window of digits is longer than it.
LEMMA RunsAndWindows ==
    ASSUME NEW p, NEW n \in Nat, NEW max \in Nat
    PROVE  (\A i \in 0..n : Cardinality(RunTo(p, i)) <= max)
           <=> \A i \in 1..n : \A j \in i..n :
                  Among(p, i, j, "digit") = j - i + 1 => j - i + 1 <= max
<1>1. ASSUME \A i \in 0..n : Cardinality(RunTo(p, i)) <= max,
             NEW i \in 1..n, NEW j \in i..n, Among(p, i, j, "digit") = j - i + 1
      PROVE  j - i + 1 <= max
  <2>1. j \in Nat /\ i \in 1..j /\ j \in 0..n
    OBVIOUS
  <2>2. i \in RunTo(p, j)
    BY <1>1, <2>1, FullWindow
  <2>3. i..j \subseteq RunTo(p, j)
    <3>. SUFFICES ASSUME NEW k \in i..j PROVE k \in RunTo(p, j)
      OBVIOUS
    <3>1. k \in 1..j /\ \A l \in k..j : l \in i..j
      OBVIOUS
    <3>. QED
      BY <3>1, <2>2 DEF RunTo
  <2>4. IsFiniteSet(1..j) /\ RunTo(p, j) \in SUBSET (1..j)
    BY <2>1, FS_Interval DEF RunTo
  <2>5. IsFiniteSet(RunTo(p, j))
    BY <2>4, FS_Subset
  <2>6. Cardinality(i..j) = j - i + 1 /\ Cardinality(i..j) <= Cardinality(RunTo(p, j))
    BY <2>1, <2>3, <2>5, FS_Interval, FS_Subset
  <2>7. Cardinality(RunTo(p, j)) \in Nat /\ Cardinality(RunTo(p, j)) <= max
    BY <2>1, <1>1, RunStep
  <2>. QED
    BY <2>6, <2>7
<1>2. ASSUME \A i \in 1..n : \A j \in i..n :
                Among(p, i, j, "digit") = j - i + 1 => j - i + 1 <= max,
             NEW j \in 0..n
      PROVE  Cardinality(RunTo(p, j)) <= max
  <2>1. CASE RunTo(p, j) = {}
    BY <2>1, FS_EmptySet
  <2>2. CASE RunTo(p, j) # {}
    <3>1. RunTo(p, j) \in SUBSET Nat
      BY DEF RunTo
    <3>2. PICK m \in RunTo(p, j) : \A k \in RunTo(p, j) : m <= k
      BY <2>2, <3>1, LeastNumber
    <3>3. m \in 1..j /\ j \in Nat
      BY <3>2 DEF RunTo
    <3>4. RunTo(p, j) \subseteq m..j
      BY <3>2, <3>3 DEF RunTo
    <3>5. IsFiniteSet(m..j) /\ Cardinality(m..j) = j - m + 1
      BY <3>3, FS_Interval
    <3>6. Cardinality(RunTo(p, j)) \in Nat /\ Cardinality(RunTo(p, j)) <= j - m + 1
      BY <3>3, <3>4, <3>5, FS_Subset, RunStep
    <3>7. Among(p, m, j, "digit") = j - m + 1
      BY <3>2, <3>3, FullWindow
    <3>8. j - m + 1 <= max
      BY <1>2, <3>3, <3>7
    <3>. QED
      BY <3>3, <3>6, <3>8
  <2>. QED
    BY <2>1, <2>2
<1>. QED
  BY <1>1, <1>2

\* The counters of validateComplexity and the checks of SolveMath are the limits.
LEMMA AcceptedWithinLimits ==
    ASSUME NEW p \in Seq(Classes)
    PROVE  Accepted(p) <=> WithinLimits(p)
<1>. USE LimitAssumption
<1>1. PICK n \in Nat : n = Len(p)
  OBVIOUS
<1>2. p # <<>> /\ n <= MaxProblemLength <=> n \in 1..MaxProblemLength
  <2>1. p = <<>> <=> n = 0
    BY <1>1, EmptySeq
  <2>. QED
    BY <2>1
<1>3. Count(p, "operator") = Among(p, 1, n, "operator")
  BY <1>1 DEF Count, Among
<1>4. (\A i \in 0..n : Depths(p)[i] <= MaxNestingDepth)
      <=> \A i \in 1..n : Among(p, 1, i, "open") - Among(p, 1, i, "close") <= MaxNestingDepth
  <2>1. \A i \in 0..n : Depths(p)[i] = Among(p, 1, i, "open") - Among(p, 1, i, "close")
    BY <1>1, DepthsCount
  <2>2. Among(p, 1, 0, "open") - Among(p, 1, 0, "close") <= MaxNestingDepth
    BY AmongNone
  <2>. QED
    BY <2>1, <2>2
<1>5. (\A i \in 0..n : NumberLengths(p)[i] <= MaxNumberLength)
      <=> \A i \in 1..n : \A j \in i..n :
             Among(p, i, j, "digit") = j - i + 1 => j - i + 1 <= MaxNumberLength
  <2>1. \A i \in 0..n : NumberLengths(p)[i] = Cardinality(RunTo(p, i))
    BY <1>1, NumberLengthsCount
  <2>2. (\A i \in 0..n : NumberLengths(p)[i] <= MaxNumberLength)
        <=> \A i \in 0..n : Cardinality(RunTo(p, i)) <= MaxNumberLength
    BY <2>1
  <2>. QED
    BY <2>2, RunsAndWindows
<1>6. WithinLimits(p) <=>
         /\ n \in 1..MaxProblemLength
         /\ Among(p, 1, n, "operator") <= MaxOperatorCount
         /\ \A i \in 1..n : Among(p, 1, i, "open") - Among(p, 1, i, "close") <= MaxNestingDepth
         /\ \A i \in 1..n : \A j \in i..n :
               Among(p, i, j, "digit") = j - i + 1 => j - i + 1 <= MaxNumberLength
  BY <1>1 DEF WithinLimits, Among
<1>7. Accepted(p) <=>
         /\ p # <<>> /\ n <= MaxProblemLength
         /\ Count(p, "operator") <= MaxOperatorCount
         /\ \A i \in 0..n : Depths(p)[i] <= MaxNestingDepth
         /\ \A i \in 0..n : NumberLengths(p)[i] <= MaxNumberLength
  BY <1>1 DEF Accepted, ValidateComplexity
<1>. QED
  BY <1>2, <1>3, <1>4, <1>5, <1>6, <1>7, Zenon

-----------------------------------------------------------------------------
(* The inductive invariant *)

\* A call has no answer before it returns and no goroutine before it starts.
Phases ==
    \A c \in Calls : /\ call[c] # "returned" => answer[c].kind = "none"
                     /\ call[c] = "idle" => goroutine[c] = "none"

\* A message in a channel is the call's own product.
ChannelsOwn ==
    \A c \in Calls :
        /\ resultChan[c] # <<>> => /\ Head(resultChan[c]) = product[c]
                                   /\ product[c].type \notin {"none", "nil", "error", "panic"}
        /\ errChan[c] # <<>> => product[c].type \in {"error", "panic"}
        /\ goroutine[c] = "sending" => product[c].type \notin {"none", "nil"}

\* OneMessage without arithmetic: nothing sent, or one message in one place.
OnePlace ==
    \A c \in Calls :
        LET r == resultChan[c]  e == errChan[c] IN
        \/ goroutine[c] # "ended" /\ r = <<>> /\ e = <<>> /\ ~Taken(c)
        \/ goroutine[c] = "ended" /\ Len(r) = 1 /\ e = <<>> /\ ~Taken(c)
        \/ goroutine[c] = "ended" /\ r = <<>> /\ Len(e) = 1 /\ ~Taken(c)
        \/ goroutine[c] = "ended" /\ r = <<>> /\ e = <<>> /\ Taken(c)

IInv == TypeOK /\ Phases /\ ChannelsOwn /\ OnePlace /\ AnswerIsOwn

LEMMA OnePlaceOneMessage == OnePlace => OneMessage
<1>. SUFFICES ASSUME OnePlace, NEW c \in Calls
              PROVE  Len(resultChan[c]) + Len(errChan[c]) + (IF Taken(c) THEN 1 ELSE 0)
                         = IF goroutine[c] = "ended" THEN 1 ELSE 0
  BY DEF OneMessage
<1>1. Len(<<>>) = 0
  OBVIOUS
<1>2. PICK r, e : r = resultChan[c] /\ e = errChan[c]
  OBVIOUS
<1>3. \/ goroutine[c] # "ended" /\ Len(r) = 0 /\ Len(e) = 0 /\ ~Taken(c)
      \/ goroutine[c] = "ended" /\ Len(r) = 1 /\ Len(e) = 0 /\ ~Taken(c)
      \/ goroutine[c] = "ended" /\ Len(r) = 0 /\ Len(e) = 1 /\ ~Taken(c)
      \/ goroutine[c] = "ended" /\ Len(r) = 0 /\ Len(e) = 0 /\ Taken(c)
  BY <1>1, <1>2 DEF OnePlace
<1>4. PICK m, n : m = Len(r) /\ n = Len(e)
  OBVIOUS
<1>5. ASSUME NEW t \in BOOLEAN, NEW g \in BOOLEAN,
             \/ ~g /\ m = 0 /\ n = 0 /\ ~t
             \/ g /\ m = 1 /\ n = 0 /\ ~t
             \/ g /\ m = 0 /\ n = 1 /\ ~t
             \/ g /\ m = 0 /\ n = 0 /\ t
      PROVE  m + n + (IF t THEN 1 ELSE 0) = IF g THEN 1 ELSE 0
  BY <1>5
<1>. QED
  BY <1>2, <1>3, <1>4, <1>5 DEF Taken

\* A channel with one message is empty once it is taken, and an empty one holds
\* just the message put in it.
LEMMA ChannelFacts ==
    ASSUME NEW S
    PROVE  /\ <<>> \in Seq(S)
           /\ \A q \in Seq(S) : Len(q) = 1 => Tail(q) = <<>>
           /\ \A m \in S : LET q == Append(<<>>, m) IN
                 q \in Seq(S) /\ Len(q) = 1 /\ q # <<>> /\ Head(q) = m
<1>1. <<>> \in Seq(S)
  BY EmptySeq
<1>2. ASSUME NEW q \in Seq(S), Len(q) = 1 PROVE Tail(q) = <<>>
  <2>1. q # <<>>
    BY <1>2
  <2>2. Tail(q) \in Seq(S) /\ Len(Tail(q)) = 0
    BY <1>2, <2>1, HeadTailProperties
  <2>. QED
    BY <2>2, EmptySeq
<1>3. ASSUME NEW m \in S
      PROVE  /\ Append(<<>>, m) \in Seq(S) /\ Len(Append(<<>>, m)) = 1
             /\ Append(<<>>, m) # <<>> /\ Head(Append(<<>>, m)) = m
  BY <1>1
<1>. QED
  BY <1>1, <1>2, <1>3

LEMMA IInvInit == Init => IInv
<1>. SUFFICES ASSUME Init PROVE IInv
  OBVIOUS
<1>1. <<>> \in Seq(Product) /\ <<>> \in Seq({"error", "panic"})
  BY ChannelFacts
<1>2. Outcome("none") \in Product /\ Outcome("none").type = "none"
  BY DEF Outcome, Product
<1>3. TypeOK
  BY <1>1, <1>2, RefusalFacts DEF Init, TypeOK
<1>4. \A c \in Calls : /\ call[c] = "idle" /\ goroutine[c] = "none"
                       /\ answer[c].kind = "none"
                       /\ resultChan[c] = <<>> /\ errChan[c] = <<>>
  BY RefusalFacts DEF Init
<1>5. Phases /\ ChannelsOwn
  BY <1>4 DEF Phases, ChannelsOwn
<1>6. OnePlace
  BY <1>4 DEF OnePlace, Taken
<1>7. AnswerIsOwn
  BY <1>4 DEF AnswerIsOwn, Own
<1>. QED
  BY <1>3, <1>5, <1>6, <1>7 DEF IInv

-----------------------------------------------------------------------------
(* Every step keeps it *)

LEMMA RefuseKeeps ==
    ASSUME IInv, NEW c \in Calls, RefuseProblem(c) \/ RefuseExpression(c)
    PROVE  IInv'
<1>1. PICK kind \in {"refused", "invalid"} :
         /\ call[c] = "idle"
         /\ call' = [call EXCEPT ![c] = "returned"]
         /\ answer' = [answer EXCEPT ![c] = Refusal(kind)]
         /\ UNCHANGED <<problem, goroutine, product, resultChan, errChan, timer>>
  BY DEF RefuseProblem, RefuseExpression, Return
<1>2. Refusal(kind) \in Answer /\ Refusal(kind).kind = kind
  BY RefusalFacts
<1>3. TypeOK'
  BY <1>1, <1>2 DEF IInv, TypeOK
<1>4. \A d \in Calls : /\ d # c => answer'[d] = answer[d] /\ call'[d] = call[d]
                       /\ d = c => /\ answer'[d].kind = kind /\ call'[d] = "returned"
                                   /\ answer[d].kind = "none"
  BY <1>1, <1>2 DEF IInv, TypeOK, Phases
<1>5. Phases' /\ ChannelsOwn'
  BY <1>1, <1>4 DEF IInv, Phases, ChannelsOwn
<1>6. OnePlace'
  BY <1>1, <1>4 DEF IInv, OnePlace, Taken
<1>7. AnswerIsOwn'
  <2>. SUFFICES ASSUME NEW d \in Calls PROVE Own(product'[d], answer'[d])
    BY DEF AnswerIsOwn
  <2>1. CASE d = c
    BY <2>1, <1>4 DEF Own
  <2>2. CASE d # c
    BY <2>2, <1>1, <1>4 DEF IInv, AnswerIsOwn
  <2>. QED
    BY <2>1, <2>2
<1>. QED
  BY <1>3, <1>5, <1>6, <1>7 DEF IInv

LEMMA StartKeeps ==
    ASSUME IInv, NEW c \in Calls, Start(c)
    PROVE  IInv'
<1>1. /\ call[c] = "idle" /\ goroutine[c] = "none"
      /\ call' = [call EXCEPT ![c] = "waiting"]
      /\ goroutine' = [goroutine EXCEPT ![c] = "evaluating"]
      /\ UNCHANGED <<problem, answer, product, resultChan, errChan>>
  BY DEF Start, IInv, Phases
<1>2. TypeOK'
  BY DEF IInv, TypeOK, Start
<1>3. \A d \in Calls : /\ d # c => goroutine'[d] = goroutine[d] /\ call'[d] = call[d]
                       /\ d = c => goroutine'[d] = "evaluating" /\ call'[d] = "waiting"
  BY <1>1 DEF IInv, TypeOK
<1>4. Phases' /\ ChannelsOwn'
  BY <1>1, <1>3 DEF IInv, Phases, ChannelsOwn
<1>5. OnePlace'
  BY <1>1, <1>3 DEF IInv, OnePlace, Taken
<1>6. AnswerIsOwn'
  BY <1>1 DEF IInv, AnswerIsOwn
<1>. QED
  BY <1>2, <1>4, <1>5, <1>6 DEF IInv

LEMMA ExpireKeeps ==
    ASSUME IInv, NEW c \in Calls, Expire(c)
    PROVE  IInv'
<1>1. TypeOK'
  BY DEF IInv, TypeOK, Expire
<1>2. Phases' /\ ChannelsOwn'
  BY DEF Expire, IInv, Phases, ChannelsOwn
<1>3. OnePlace'
  BY DEF Expire, IInv, OnePlace, Taken
<1>4. AnswerIsOwn'
  BY DEF Expire, IInv, AnswerIsOwn
<1>. QED
  BY <1>1, <1>2, <1>3, <1>4 DEF IInv

\* An evaluation that ends has sent nothing and answered nothing yet.
LEMMA EvaluateKeeps ==
    ASSUME IInv, NEW c \in Calls, Evaluate(c)
    PROVE  IInv'
<1>1. PICK p \in Product \ {Outcome("none"), Outcome("nil")} :
         /\ goroutine[c] = "evaluating"
         /\ product' = [product EXCEPT ![c] = p]
         /\ goroutine' = [goroutine EXCEPT ![c] = "sending"]
         /\ UNCHANGED <<problem, call, answer, resultChan, errChan, timer>>
  BY DEF Evaluate
<1>2. p.type \notin {"none", "nil"}
  <2>1. \A q \in Product : q.type \in {"none", "nil"} => q = Outcome(q.type)
    BY DEF Product, Outcome
  <2>. QED
    BY <2>1, <1>1
<1>3. TypeOK'
  BY <1>1 DEF IInv, TypeOK
<1>4. resultChan[c] = <<>> /\ errChan[c] = <<>> /\ ~Taken(c)
  BY <1>1 DEF IInv, OnePlace
<1>5. \A d \in Calls : /\ d # c => product'[d] = product[d] /\ goroutine'[d] = goroutine[d]
                       /\ d = c => product'[d] = p /\ goroutine'[d] = "sending"
  BY <1>1 DEF IInv, TypeOK
<1>6. Phases'
  BY <1>1, <1>5 DEF IInv, Phases
<1>7. ChannelsOwn'
  BY <1>1, <1>2, <1>4, <1>5 DEF IInv, ChannelsOwn
<1>8. OnePlace'
  BY <1>1, <1>5 DEF IInv, OnePlace, Taken
<1>9. AnswerIsOwn'
  <2>. SUFFICES ASSUME NEW d \in Calls PROVE Own(product'[d], answer'[d])
    BY DEF AnswerIsOwn
  <2>1. CASE d = c
    BY <2>1, <1>1, <1>4, <1>5 DEF Own, Taken
  <2>2. CASE d # c
    BY <2>2, <1>1, <1>5 DEF IInv, AnswerIsOwn
  <2>. QED
    BY <2>1, <2>2
<1>. QED
  BY <1>3, <1>6, <1>7, <1>8, <1>9 DEF IInv

\* The goroutine sends its one message into an empty channel.
LEMMA SendKeeps ==
    ASSUME IInv, NEW c \in Calls, Send(c)
    PROVE  IInv'
<1>1. /\ goroutine[c] = "sending"
      /\ goroutine' = [goroutine EXCEPT ![c] = "ended"]
      /\ UNCHANGED <<problem, call, answer, product, timer>>
  BY DEF Send, SendError, SendResult
<1>2. /\ resultChan[c] = <<>> /\ errChan[c] = <<>> /\ ~Taken(c)
      /\ product[c] \in Product /\ product[c].type \notin {"none", "nil"}
  BY <1>1 DEF IInv, TypeOK, OnePlace, ChannelsOwn
<1>3. PICK r \in Seq(Product), e \in Seq({"error", "panic"}) :
         /\ resultChan' = [resultChan EXCEPT ![c] = r]
         /\ errChan' = [errChan EXCEPT ![c] = e]
         /\ \/ r = <<>> /\ Len(e) = 1
            \/ Len(r) = 1 /\ e = <<>>
         /\ r # <<>> => Head(r) = product[c] /\ product[c].type \notin {"error", "panic"}
         /\ e # <<>> => product[c].type \in {"error", "panic"}
  <2>1. CASE SendError(c)
    <3>. DEFINE m == Append(<<>>, product[c].type)
    <3>1. product[c].type \in {"error", "panic"} /\ errChan' = [errChan EXCEPT ![c] = m]
      BY <2>1, <1>2 DEF SendError
    <3>2. resultChan' = [resultChan EXCEPT ![c] = <<>>]
      BY <2>1, <1>2 DEF SendError, IInv, TypeOK
    <3>3. m \in Seq({"error", "panic"}) /\ Len(m) = 1 /\ <<>> \in Seq(Product)
      BY <3>1, ChannelFacts
    <3>. QED
      BY <3>1, <3>2, <3>3
  <2>2. CASE SendResult(c)
    <3>. DEFINE m == Append(<<>>, product[c])
    <3>1. /\ product[c].type \notin {"error", "panic"}
          /\ resultChan' = [resultChan EXCEPT ![c] = m]
      BY <2>2, <1>2 DEF SendResult
    <3>2. errChan' = [errChan EXCEPT ![c] = <<>>]
      BY <2>2, <1>2 DEF SendResult, IInv, TypeOK
    <3>3. /\ m \in Seq(Product) /\ Len(m) = 1 /\ Head(m) = product[c]
          /\ <<>> \in Seq({"error", "panic"})
      BY <1>2, ChannelFacts
    <3>. QED
      BY <3>1, <3>2, <3>3
  <2>. QED
    BY <2>1, <2>2 DEF Send
<1>4. TypeOK'
  BY <1>1, <1>3 DEF IInv, TypeOK
<1>5. \A d \in Calls :
         /\ d # c => /\ goroutine'[d] = goroutine[d] /\ resultChan'[d] = resultChan[d]
                     /\ errChan'[d] = errChan[d]
         /\ d = c => goroutine'[d] = "ended" /\ resultChan'[d] = r /\ errChan'[d] = e
  BY <1>1, <1>3 DEF IInv, TypeOK
<1>6. Phases'
  BY <1>1, <1>5 DEF IInv, Phases
<1>7. ChannelsOwn'
  BY <1>1, <1>2, <1>3, <1>5 DEF IInv, ChannelsOwn
<1>8. OnePlace'
  BY <1>1, <1>2, <1>3, <1>5 DEF IInv, OnePlace, Taken
<1>9. AnswerIsOwn'
  BY <1>1 DEF IInv, AnswerIsOwn
<1>. QED
  BY <1>4, <1>6, <1>7, <1>8, <1>9 DEF IInv

LEMMA TimeoutKeeps ==
    ASSUME IInv, NEW c \in Calls, ReturnTimeout(c)
    PROVE  IInv'
<1>1. /\ call[c] = "waiting"
      /\ call' = [call EXCEPT ![c] = "returned"]
      /\ answer' = [answer EXCEPT ![c] = Refusal("timeout")]
      /\ timer' = [timer EXCEPT ![c] = "stopped"]
      /\ UNCHANGED <<problem, goroutine, product, resultChan, errChan>>
  BY DEF ReturnTimeout, Return, Cancel
<1>2. Refusal("timeout") \in Answer /\ Refusal("timeout").kind = "timeout"
  BY RefusalFacts
<1>3. TypeOK'
  BY <1>1, <1>2 DEF IInv, TypeOK
<1>4. \A d \in Calls : /\ d # c => answer'[d] = answer[d] /\ call'[d] = call[d]
                       /\ d = c => /\ answer'[d].kind = "timeout" /\ call'[d] = "returned"
                                   /\ answer[d].kind = "none"
  BY <1>1, <1>2 DEF IInv, TypeOK, Phases
<1>5. Phases' /\ ChannelsOwn'
  BY <1>1, <1>4 DEF IInv, Phases, ChannelsOwn
<1>6. OnePlace'
  BY <1>1, <1>4 DEF IInv, OnePlace, Taken
<1>7. AnswerIsOwn'
  <2>. SUFFICES ASSUME NEW d \in Calls PROVE Own(product'[d], answer'[d])
    BY DEF AnswerIsOwn
  <2>1. CASE d = c
    BY <2>1, <1>4 DEF Own
  <2>2. CASE d # c
    BY <2>2, <1>1, <1>4 DEF IInv, AnswerIsOwn
  <2>. QED
    BY <2>1, <2>2
<1>. QED
  BY <1>3, <1>5, <1>6, <1>7 DEF IInv

\* Taking the message makes it the answer.
LEMMA AnswerKeeps ==
    ASSUME IInv, NEW c \in Calls, ReturnError(c) \/ ReturnResult(c)
    PROVE  IInv'
<1>1. /\ call[c] = "waiting" /\ ~Taken(c)
      /\ call' = [call EXCEPT ![c] = "returned"]
      /\ timer' = [timer EXCEPT ![c] = "stopped"]
      /\ UNCHANGED <<problem, goroutine, product>>
  BY DEF ReturnError, ReturnResult, Return, Cancel, IInv, Phases, Taken
<1>2. /\ resultChan[c] \in Seq(Product) /\ errChan[c] \in Seq({"error", "panic"})
      /\ <<>> \in Seq(Product) /\ <<>> \in Seq({"error", "panic"})
  BY ChannelFacts DEF IInv, TypeOK
<1>3. PICK a \in Answer :
         /\ answer' = [answer EXCEPT ![c] = a]
         /\ a.kind \in {"number", "failed", "not a number", "unexpected type"}
         /\ Own(product[c], a)
  <2>1. CASE ReturnError(c)
    BY <2>1, RefusalFacts DEF ReturnError, Return, IInv, ChannelsOwn, Own
  <2>2. CASE ReturnResult(c)
    <3>1. /\ Head(resultChan[c]) = product[c] /\ product[c] \in Product
          /\ product[c].type \notin {"none", "nil", "error", "panic"}
      BY <2>2 DEF ReturnResult, IInv, ChannelsOwn, TypeOK
    <3>2. PICK a \in Converted(product[c]) : answer' = [answer EXCEPT ![c] = a]
      BY <2>2, <3>1 DEF ReturnResult, Return
    <3>. QED
      BY <3>1, <3>2, ConvertedFacts
  <2>. QED
    BY <2>1, <2>2
<1>4. /\ goroutine[c] = "ended"
      /\ resultChan' = [resultChan EXCEPT ![c] = <<>>]
      /\ errChan' = [errChan EXCEPT ![c] = <<>>]
  <2>1. CASE ReturnError(c)
    <3>1. goroutine[c] = "ended" /\ Len(errChan[c]) = 1 /\ resultChan[c] = <<>>
      BY <2>1, <1>1 DEF ReturnError, IInv, OnePlace
    <3>2. Tail(errChan[c]) = <<>>
      BY <3>1, <1>2, ChannelFacts
    <3>. QED
      BY <2>1, <3>1, <3>2 DEF ReturnError, IInv, TypeOK
  <2>2. CASE ReturnResult(c)
    <3>1. goroutine[c] = "ended" /\ Len(resultChan[c]) = 1 /\ errChan[c] = <<>>
      BY <2>2, <1>1 DEF ReturnResult, IInv, OnePlace
    <3>2. Tail(resultChan[c]) = <<>>
      BY <3>1, <1>2, ChannelFacts
    <3>. QED
      BY <2>2, <3>1, <3>2 DEF ReturnResult, IInv, TypeOK
  <2>. QED
    BY <2>1, <2>2
<1>5. TypeOK'
  BY <1>1, <1>2, <1>3, <1>4 DEF IInv, TypeOK
<1>6. \A d \in Calls :
         /\ d # c => /\ answer'[d] = answer[d] /\ call'[d] = call[d]
                     /\ resultChan'[d] = resultChan[d] /\ errChan'[d] = errChan[d]
         /\ d = c => /\ answer'[d] = a /\ call'[d] = "returned"
                     /\ resultChan'[d] = <<>> /\ errChan'[d] = <<>>
  BY <1>1, <1>3, <1>4 DEF IInv, TypeOK
<1>7. Phases'
  BY <1>1, <1>6 DEF IInv, Phases
<1>8. ChannelsOwn'
  BY <1>1, <1>6 DEF IInv, ChannelsOwn
<1>9. OnePlace'
  <2>1. a.kind \notin {"none", "refused", "invalid", "timeout"}
    BY <1>3
  <2>2. \A d \in Calls : d # c => (Taken(d)' <=> Taken(d))
    BY <1>6 DEF Taken
  <2>3. Taken(c)'
    BY <1>6, <2>1 DEF Taken
  <2>. QED
    BY <1>1, <1>4, <1>6, <2>2, <2>3 DEF IInv, OnePlace
<1>10. AnswerIsOwn'
  <2>. SUFFICES ASSUME NEW d \in Calls PROVE Own(product'[d], answer'[d])
    BY DEF AnswerIsOwn
  <2>1. CASE d = c
    BY <2>1, <1>1, <1>3, <1>6
  <2>2. CASE d # c
    BY <2>2, <1>1, <1>6 DEF IInv, AnswerIsOwn
  <2>. QED
    BY <2>1, <2>2
<1>. QED
  BY <1>5, <1>7, <1>8, <1>9, <1>10 DEF IInv

LEMMA IInvStep == IInv /\ [Next]_vars => IInv'
<1>. SUFFICES ASSUME IInv, [Next]_vars PROVE IInv'
  OBVIOUS
<1>1. CASE Next
  BY <1>1, RefuseKeeps, StartKeeps, ExpireKeeps, EvaluateKeeps, SendKeeps, TimeoutKeeps,
     AnswerKeeps DEF Next, Select
<1>2. CASE UNCHANGED vars
  BY <1>2 DEF vars, IInv, TypeOK, Phases, ChannelsOwn, OnePlace, Taken, AnswerIsOwn
<1>. QED
  BY <1>1, <1>2

-----------------------------------------------------------------------------
(* Refusals *)

\* Whoever has left "idle" was judged by what the code counted.
Judged ==
    \A c \in Calls :
        call[c] # "idle" => (answer[c].kind = "refused" <=> ~Accepted(problem[c]))

\* A select answers with anything but a refusal.
LEMMA SelectAnswers ==
    ASSUME IInv, NEW c \in Calls, Select(c)
    PROVE  /\ call[c] = "waiting"
           /\ call' = [call EXCEPT ![c] = "returned"]
           /\ \E a \in Answer : a.kind # "refused" /\ answer' = [answer EXCEPT ![c] = a]
           /\ UNCHANGED problem
<1>1. CASE ReturnTimeout(c)
  BY <1>1, RefusalFacts DEF ReturnTimeout, Return
<1>2. CASE ReturnError(c)
  BY <1>2, RefusalFacts DEF ReturnError, Return
<1>3. CASE ReturnResult(c)
  <2>1. /\ Head(resultChan[c]) = product[c] /\ product[c] \in Product
        /\ product[c].type \notin {"none", "nil", "error", "panic"}
    BY <1>3 DEF ReturnResult, IInv, ChannelsOwn, TypeOK
  <2>2. PICK a \in Converted(product[c]) : answer' = [answer EXCEPT ![c] = a]
    BY <1>3, <2>1 DEF ReturnResult, Return
  <2>3. a \in Answer /\ a.kind # "refused"
    BY <2>1, ConvertedFacts
  <2>. QED
    BY <1>3, <2>2, <2>3 DEF ReturnResult, Return
<1>. QED
  BY <1>1, <1>2, <1>3 DEF Select

LEMMA JudgedStep == IInv /\ Judged /\ [Next]_vars => Judged'
<1>. SUFFICES ASSUME IInv, Judged, [Next]_vars PROVE Judged'
  OBVIOUS
<1>1. ASSUME NEW c \in Calls, RefuseProblem(c) \/ RefuseExpression(c) PROVE Judged'
  <2>1. PICK kind \in {"refused", "invalid"} :
           /\ kind = "refused" <=> ~Accepted(problem[c])
           /\ call' = [call EXCEPT ![c] = "returned"]
           /\ answer' = [answer EXCEPT ![c] = Refusal(kind)]
           /\ UNCHANGED problem
    BY <1>1 DEF RefuseProblem, RefuseExpression, Return
  <2>2. Refusal(kind).kind = kind
    BY RefusalFacts
  <2>3. \A d \in Calls : /\ d # c => answer'[d] = answer[d] /\ call'[d] = call[d]
                         /\ d = c => answer'[d].kind = kind
    BY <2>1, <2>2 DEF IInv, TypeOK
  <2>. QED
    BY <2>1, <2>3 DEF Judged
<1>2. ASSUME NEW c \in Calls, Start(c) PROVE Judged'
  <2>1. /\ Accepted(problem[c]) /\ answer[c].kind = "none"
        /\ call' = [call EXCEPT ![c] = "waiting"] /\ UNCHANGED <<problem, answer>>
    BY <1>2 DEF Start, IInv, Phases
  <2>2. \A d \in Calls : d # c => call'[d] = call[d]
    BY <2>1 DEF IInv, TypeOK
  <2>. QED
    BY <2>1, <2>2 DEF Judged
<1>3. ASSUME NEW c \in Calls, Evaluate(c) \/ Send(c) \/ Expire(c) PROVE Judged'
  BY <1>3 DEF Evaluate, Send, SendError, SendResult, Expire, Judged
<1>4. ASSUME NEW c \in Calls, Select(c) PROVE Judged'
  <2>1. PICK a \in Answer :
           /\ a.kind # "refused" /\ call[c] = "waiting"
           /\ call' = [call EXCEPT ![c] = "returned"]
           /\ answer' = [answer EXCEPT ![c] = a] /\ UNCHANGED problem
    BY <1>4, SelectAnswers
  <2>2. Accepted(problem[c])
    BY <2>1 DEF Judged, IInv, Phases
  <2>3. \A d \in Calls : /\ d # c => answer'[d] = answer[d] /\ call'[d] = call[d]
                         /\ d = c => answer'[d].kind # "refused"
    BY <2>1 DEF IInv, TypeOK
  <2>. QED
    BY <2>1, <2>2, <2>3 DEF Judged
<1>5. CASE UNCHANGED vars
  BY <1>5 DEF vars, Judged
<1>. QED
  BY <1>1, <1>2, <1>3, <1>4, <1>5 DEF Next

-----------------------------------------------------------------------------
(* The theorems *)

\* The invariant holds in every reachable state of the solver.
THEOREM IInvCorrect == Spec => []IInv
<1>. QED
  BY IInvInit, IInvStep, PTL DEF Spec

\* Every variable keeps its type; an answered number fits an int.
THEOREM TypeCorrect == Spec => []TypeOK
<1>1. IInv => TypeOK
  BY DEF IInv
<1>. QED
  BY <1>1, IInvCorrect, PTL

\* Every evaluation delivers exactly one message.
THEOREM OneMessageCorrect == Spec => []OneMessage
<1>1. IInv => OneMessage
  BY OnePlaceOneMessage DEF IInv
<1>. QED
  BY <1>1, IInvCorrect, PTL

\* Every answer is that of the call's own evaluation.
THEOREM AnswerIsOwnCorrect == Spec => []AnswerIsOwn
<1>1. IInv => AnswerIsOwn
  BY DEF IInv
<1>. QED
  BY <1>1, IInvCorrect, PTL

\* A problem of any length is refused before it is parsed exactly when it exceeds
\* a limit, although the code counts depth and digits in one pass.
THEOREM LimitsEnforcedCorrect == Spec => []LimitsEnforced
<1>1. Init => Judged
  BY DEF Init, Judged
<1>2. IInv /\ Judged => LimitsEnforced
  <2>. SUFFICES ASSUME IInv, Judged, NEW c \in Calls, call[c] # "idle"
                PROVE  answer[c].kind = "refused" <=> ~WithinLimits(problem[c])
    BY DEF LimitsEnforced
  <2>1. problem[c] \in Seq(Classes)
    BY ProblemAssumption DEF IInv, TypeOK
  <2>. QED
    BY <2>1, AcceptedWithinLimits DEF Judged
<1>. QED
  BY <1>1, <1>2, IInvCorrect, JudgedStep, PTL DEF Spec

-----------------------------------------------------------------------------
(* Nobody is stuck, nothing leaks: what liveness needs beyond a fair scheduler *)

\* While a call waits its deadline is coming or has come, and on every way out the
\* context is cancelled (solver.go:171-172).
DeadlineHeld ==
    /\ timer \in [Calls -> {"none", "armed", "fired", "stopped"}]
    /\ \A c \in Calls :
          /\ call[c] = "idle" => timer[c] = "none"
          /\ call[c] = "waiting" => timer[c] \in {"armed", "fired"}
          /\ call[c] = "returned" => timer[c] \in {"none", "stopped"}

\* A goroutine about to send finds room, also when its caller has left
\* (solver.go:175-176: both channels are buffered).
SendNeverBlocks ==
    \A c \in Calls :
        goroutine[c] = "sending" => Room(c, errChan[c]) /\ Room(c, resultChan[c])

LEMMA DeadlineHeldStep == IInv /\ DeadlineHeld /\ [Next]_vars => DeadlineHeld'
<1>. SUFFICES ASSUME IInv, DeadlineHeld, [Next]_vars PROVE DeadlineHeld'
  OBVIOUS
<1>. USE DEF DeadlineHeld, Return, Cancel
<1>1. call \in [Calls -> {"idle", "waiting", "returned"}]
  BY DEF IInv, TypeOK
<1>2. ASSUME NEW c \in Calls, RefuseProblem(c) \/ RefuseExpression(c) PROVE DeadlineHeld'
  BY <1>1, <1>2 DEF RefuseProblem, RefuseExpression
<1>3. ASSUME NEW c \in Calls, Start(c) PROVE DeadlineHeld'
  BY <1>1, <1>3 DEF Start
<1>4. ASSUME NEW c \in Calls, Evaluate(c) \/ Send(c) PROVE DeadlineHeld'
  BY <1>4 DEF Evaluate, Send, SendError, SendResult
<1>5. ASSUME NEW c \in Calls, Expire(c) PROVE DeadlineHeld'
  BY <1>1, <1>5 DEF Expire
<1>6. ASSUME NEW c \in Calls, Select(c) PROVE DeadlineHeld'
  <2>1. /\ call' = [call EXCEPT ![c] = "returned"]
        /\ timer' = [timer EXCEPT ![c] = "stopped"]
    BY <1>6 DEF Select, ReturnTimeout, ReturnError, ReturnResult
  <2>. QED
    BY <1>1, <2>1
<1>7. CASE UNCHANGED vars
  BY <1>7 DEF vars
<1>. QED
  BY <1>2, <1>3, <1>4, <1>5, <1>6, <1>7 DEF Next

\* A waiting call always has a deadline, and no return forgets to cancel it.
THEOREM DeadlineHeldCorrect == Spec => []DeadlineHeld
<1>1. Init => DeadlineHeld
  BY DEF Init, DeadlineHeld
<1>. QED
  BY <1>1, IInvCorrect, DeadlineHeldStep, PTL DEF Spec

\* No goroutine ever blocks on its send.
THEOREM SendNeverBlocksCorrect == Spec => []SendNeverBlocks
<1>1. IInv => SendNeverBlocks
  <2>1. Len(<<>>) = 0
    OBVIOUS
  <2>. QED
    BY <2>1 DEF IInv, OnePlace, SendNeverBlocks, Room
<1>. QED
  BY <1>1, IInvCorrect, PTL
=============================================================================
