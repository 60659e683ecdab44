------------------------------- MODULE DataLemmas -------------------------------
(***************************************************************************)
(* What appending to, taking from and truncating a queue do to the set of  *)
(* its elements and to their being distinct, and induction along numbers.  *)
(***************************************************************************)
EXTENDS TLAPS, SequenceTheorems, FiniteSetTheorems

\* Appending adds one element; distinct elements stay distinct if it is new.
LEMMA AppendFacts ==
    ASSUME NEW S, NEW s \in Seq(S), NEW e \in S
    PROVE  /\ Append(s, e) \in Seq(S)
           /\ Range(Append(s, e)) = Range(s) \cup {e}
           /\ IsInjective(s) /\ e \notin Range(s) => IsInjective(Append(s, e))
<1>1. /\ Len(s) \in Nat
      /\ DOMAIN s = 1..Len(s)
      /\ Append(s, e) \in Seq(S)
      /\ DOMAIN Append(s, e) = 1..Len(s)+1
      /\ \A i \in 1..Len(s) : Append(s, e)[i] = s[i]
      /\ Append(s, e)[Len(s)+1] = e
  BY AppendProperties, LenProperties
<1>2. 1..Len(s)+1 = (1..Len(s)) \cup {Len(s)+1}
  BY <1>1
<1>3. Range(Append(s, e)) = Range(s) \cup {e}
  <2>1. Range(Append(s, e)) = {Append(s, e)[i] : i \in (1..Len(s)) \cup {Len(s)+1}}
    BY <1>1, <1>2 DEF Range
  <2>2. Range(s) = {Append(s, e)[i] : i \in 1..Len(s)}
    BY <1>1 DEF Range
  <2>. QED
    BY <2>1, <2>2, <1>1
<1>4. ASSUME IsInjective(s), e \notin Range(s),
             NEW i \in 1..Len(s)+1, NEW j \in 1..Len(s)+1, Append(s, e)[i] = Append(s, e)[j]
      PROVE  i = j
  <2>1. \A k \in 1..Len(s) : s[k] # e
    BY <1>1, <1>4 DEF Range
  <2>2. CASE i \in 1..Len(s) /\ j \in 1..Len(s)
    BY <2>2, <1>1, <1>4 DEF IsInjective
  <2>3. CASE i = Len(s)+1 \/ j = Len(s)+1
    BY <2>1, <2>3, <1>1, <1>2, <1>4
  <2>. QED
    BY <2>2, <2>3, <1>2
<1>. QED
  BY <1>1, <1>3, <1>4 DEF IsInjective

\* Taking the head removes one element, for good when the elements are distinct.
LEMMA TailFacts ==
    ASSUME NEW S, NEW s \in Seq(S), s # <<>>
    PROVE  /\ Head(s) \in S
           /\ Tail(s) \in Seq(S)
           /\ Range(s) = {Head(s)} \cup Range(Tail(s))
           /\ IsInjective(s) => IsInjective(Tail(s)) /\ Head(s) \notin Range(Tail(s))
<1>1. /\ Head(s) = s[1]
      /\ Head(s) \in S
      /\ Len(s) \in Nat \ {0}
      /\ DOMAIN s = 1..Len(s)
      /\ Tail(s) \in Seq(S)
      /\ DOMAIN Tail(s) = 1..Len(s)-1
      /\ \A i \in 1..Len(s)-1 : Tail(s)[i] = s[i+1]
  <2>1. Len(Tail(s)) = Len(s) - 1 /\ DOMAIN Tail(s) = 1..Len(Tail(s))
    BY HeadTailProperties, LenProperties
  <2>2. Head(s) = s[1]
    OBVIOUS
  <2>. QED
    BY <2>1, <2>2, HeadTailProperties, LenProperties, EmptySeq
<1>2. Range(s) = {Head(s)} \cup Range(Tail(s))
  <2>1. \A i \in 2..Len(s) : i-1 \in 1..Len(s)-1 /\ s[i] = Tail(s)[i-1]
    BY <1>1
  <2>2. \A i \in 1..Len(s)-1 : i+1 \in 1..Len(s)
    BY <1>1
  <2>3. \A i \in 1..Len(s) : i = 1 \/ i \in 2..Len(s)
    BY <1>1
  <2>4. 1 \in 1..Len(s)
    BY <1>1
  <2>5. Range(s) \subseteq {Head(s)} \cup Range(Tail(s))
    <3>1. \A i \in 1..Len(s) : s[i] = Head(s) \/ s[i] \in Range(Tail(s))
      BY <1>1, <2>1, <2>3 DEF Range
    <3>. QED
      BY <1>1, <3>1 DEF Range
  <2>6. {Head(s)} \cup Range(Tail(s)) \subseteq Range(s)
    BY <1>1, <2>2, <2>4 DEF Range
  <2>. QED
    BY <2>5, <2>6
<1>3. ASSUME IsInjective(s)
      PROVE  IsInjective(Tail(s)) /\ Head(s) \notin Range(Tail(s))
  <2>1. \A i, j \in 1..Len(s) : s[i] = s[j] => i = j
    BY <1>1, <1>3 DEF IsInjective
  <2>2. \A i \in 1..Len(s)-1 : i+1 \in 1..Len(s) /\ i+1 # 1
    BY <1>1
  <2>3. \A i, j \in 1..Len(s)-1 : Tail(s)[i] = Tail(s)[j] => i = j
    BY <1>1, <2>1, <2>2
  <2>4. \A i \in 1..Len(s)-1 : Tail(s)[i] # Head(s)
    BY <1>1, <2>1, <2>2
  <2>. QED
    BY <1>1, <2>3, <2>4 DEF IsInjective, Range
<1>. QED
  BY <1>1, <1>2, <1>3

\* A contiguous part has no elements and no repetitions of its own.
LEMMA SubSeqFacts ==
    ASSUME NEW S, NEW s \in Seq(S), NEW m \in 1..(Len(s)+1), NEW n \in 0..Len(s)
    PROVE  /\ SubSeq(s, m, n) \in Seq(S)
           /\ Range(SubSeq(s, m, n)) \subseteq Range(s)
           /\ IsInjective(s) => IsInjective(SubSeq(s, m, n))
<1>1. Len(s) \in Nat /\ DOMAIN s = 1..Len(s) /\ m \in Int /\ n \in Int
  BY LenProperties
<1>2. \A i \in m..n : i \in 1..Len(s) /\ s[i] \in S
  BY <1>1, ElementOfSeq
<1>3. /\ SubSeq(s, m, n) \in Seq(S)
      /\ Len(SubSeq(s, m, n)) = IF m <= n THEN n-m+1 ELSE 0
      /\ \A i \in 1..n-m+1 : SubSeq(s, m, n)[i] = s[m+i-1]
  BY <1>1, <1>2, SubSeqProperties
<1>4. /\ DOMAIN SubSeq(s, m, n) = 1..(n-m+1)
      /\ \A i \in 1..(n-m+1) : m+i-1 \in 1..Len(s)
  BY <1>1, <1>3, LenProperties
<1>5. Range(SubSeq(s, m, n)) \subseteq Range(s)
  BY <1>1, <1>3, <1>4 DEF Range
<1>6. ASSUME IsInjective(s), NEW i \in 1..(n-m+1), NEW j \in 1..(n-m+1),
             SubSeq(s, m, n)[i] = SubSeq(s, m, n)[j]
      PROVE  i = j
  <2>1. s[m+i-1] = s[m+j-1] /\ m+i-1 \in 1..Len(s) /\ m+j-1 \in 1..Len(s)
    BY <1>3, <1>4, <1>6
  <2>2. m+i-1 = m+j-1
    BY <1>1, <1>6, <2>1 DEF IsInjective
  <2>. QED
    BY <2>2, <1>1
<1>. QED
  BY <1>3, <1>4, <1>5, <1>6 DEF IsInjective

\* The empty queue has no elements.
LEMMA EmptyFacts ==
    /\ Range(<<>>) = {}
    /\ IsInjective(<<>>)
    /\ \A S : <<>> \in Seq(S)
  BY EmptySeq DEF Range, IsInjective

-----------------------------------------------------------------------------
(* Induction.  The library's induction theorems take the formula as an     *)
(* operator; here it is a set, and the least member of what is left out of *)
(* it does not exist.                                                      *)

\* Every set of natural numbers that is not empty has a least member.
LEMMA LeastNumber ==
    ASSUME NEW B \in SUBSET Nat, B # {}
    PROVE  \E m \in B : \A k \in B : m <= k
<1>1. PICK n : n \in B
  OBVIOUS
<1>2. PICK S : S = 0..n
  OBVIOUS
<1>3. IsFiniteSet(S)
  BY <1>1, <1>2, FS_Interval
<1>4. FiniteSubsetsOf(S) = SUBSET S
  BY <1>3, FS_FiniteSubsetsOfFinite
<1>5. PICK T : T = {0..k : k \in B \cap S}
  OBVIOUS
<1>6. \A k \in S : 0..k \in SUBSET S
  BY <1>1, <1>2
<1>7. T \subseteq FiniteSubsetsOf(S)
  BY <1>4, <1>5, <1>6
<1>8. n \in B \cap S
  BY <1>1, <1>2
<1>9. T # {}
  BY <1>5, <1>8
<1>10. \E x \in T : \A y \in T : ~ (<<y, x>> \in StrictSubsetOrdering(S))
  BY <1>7, <1>9, WFMin, FS_StrictSubsetOrderingWellFounded, Zenon
<1>11. PICK m \in B \cap S : \A k \in B \cap S : ~ (<<0..k, 0..m>> \in StrictSubsetOrdering(S))
  BY <1>5, <1>10
<1>12. ASSUME NEW k \in B, k < m PROVE FALSE
  <2>1. k \in B \cap S /\ 0..k \in SUBSET S /\ 0..m \in SUBSET S
    BY <1>2, <1>6, <1>1, <1>12
  <2>2. 0..k \subseteq 0..m /\ 0..k # 0..m
    <3>1. m \in 0..m /\ m \notin 0..k
      BY <1>12
    <3>. QED
      BY <3>1, <1>12
  <2>. QED
    BY <2>1, <2>2, <1>11 DEF StrictSubsetOrdering
<1>. QED
  BY <1>12

\* Induction along 0..n: what holds at 0, and at every place behind one where it
\* holds, holds everywhere.
LEMMA IntervalInduction ==
    ASSUME NEW n \in Nat, NEW A, 0 \in A, \A i \in 1..n : i-1 \in A => i \in A
    PROVE  0..n \subseteq A
<1>. SUFFICES ASSUME NEW j \in 0..n, j \notin A PROVE FALSE
  OBVIOUS
<1>. DEFINE B == (0..n) \ A
<1>1. B \in SUBSET Nat /\ B # {}
  OBVIOUS
<1>2. PICK m \in B : \A k \in B : m <= k
  BY <1>1, LeastNumber
<1>3. m \in 1..n
  BY <1>2
<1>4. m-1 \in 0..n /\ m-1 \notin B
  BY <1>2, <1>3
<1>. QED
  BY <1>2, <1>3, <1>4
=============================================================================
