-------------------------- MODULE HistoryPagesProofs --------------------------
(***************************************************************************)
(* Proofs about HistoryPages for any number of deliveries, workers, users  *)
(* and clients and all limits: what a page holds, and that rows inserted   *)
(* between two pages make a client skip nothing.                           *)
(***************************************************************************)
EXTENDS HistoryPages, DataLemmas

USE DeliveryAssumption, LimitAssumption

-----------------------------------------------------------------------------
(* Listings and pages *)

NewerIn(S, r) == {q \in S : r.at < q.at}

\* A row without ties stands in every listing right behind all newer rows.
LEMMA PositionFacts ==
    ASSUME NEW S, IsFiniteSet(S), S \subseteq Rows, NEW s \in Listings(S),
           NEW r \in S, \A q \in S : q.at = r.at => q = r
    PROVE  \E i \in 1..Cardinality(S) :
              /\ s[i] = r
              /\ Cardinality(NewerIn(S, r)) = i - 1
              /\ \A j \in 1..Cardinality(S) : s[j].at < r.at => i < j
<1>. DEFINE n == Cardinality(S)
            N == NewerIn(S, r)
<1>1. n \in Nat /\ \A q \in S : q.at \in Int
  BY FS_CardinalityType DEF Rows, Times
<1>2. /\ s \in [1..n -> S]
      /\ \A i, j \in 1..n : s[i] = s[j] => i = j
      /\ \A i, j \in 1..n : i < j => s[j].at <= s[i].at
  BY DEF Listings, IsInjective
<1>3. s \in Surjection(1..n, S)
  <2>1. s \in Injection(1..n, S)
    BY <1>2 DEF Injection, IsInjective
  <2>2. Cardinality(1..n) = n
    BY <1>1, FS_Interval
  <2>. QED
    BY <2>1, <2>2, FS_Injection
<1>4. PICK i \in 1..n : s[i] = r
  BY <1>3 DEF Surjection
<1>. HIDE DEF n
<1>5. \A j \in 1..n : s[j].at < r.at => i < j
  <2>. SUFFICES ASSUME NEW j \in 1..n, s[j].at < r.at PROVE i < j
    OBVIOUS
  <2>1. s[j].at \in Int /\ r.at \in Int /\ s[i].at = r.at /\ i \in Int /\ j \in Int
    BY <1>1, <1>2, <1>4
  <2>2. j # i
    BY <2>1
  <2>3. ~(j < i)
    BY <1>2, <2>1
  <2>. QED
    BY <2>1, <2>2, <2>3
<1>6. \A j \in 1..n : r.at < s[j].at <=> j < i
  <2>. SUFFICES ASSUME NEW j \in 1..n PROVE r.at < s[j].at <=> j < i
    OBVIOUS
  <2>1. s[j].at \in Int /\ r.at \in Int /\ s[i].at = r.at /\ i \in Int /\ j \in Int /\ s[j] \in S
    BY <1>1, <1>2, <1>4
  <2>2. i < j => s[j].at <= r.at
    BY <1>2, <2>1
  <2>3. j < i => r.at <= s[j].at
    BY <1>2, <2>1
  <2>4. j # i => s[j].at # r.at
    BY <1>2, <1>4, <2>1
  <2>. QED
    BY <2>1, <2>2, <2>3, <2>4
<1>7. Cardinality(1..(i - 1)) = i - 1 /\ IsFiniteSet(1..(i - 1)) /\ i - 1 \in Nat
  <2>1. i \in Int /\ 1 <= i /\ 1 \in Int /\ i - 1 \in Int
    BY <1>1
  <2>2. /\ IsFiniteSet(1..(i - 1))
        /\ Cardinality(1..(i - 1)) = IF 1 > i - 1 THEN 0 ELSE (i - 1) - 1 + 1
    BY <2>1, FS_Interval
  <2>. QED
    BY <2>1, <2>2
<1>. DEFINE f == [j \in 1..(i - 1) |-> s[j]]
<1>8. \A j \in 1..(i - 1) : j \in 1..n /\ j < i
  BY <1>1
<1>9. f \in Bijection(1..(i - 1), N)
  <2>1. f \in [1..(i - 1) -> N]
    BY <1>2, <1>6, <1>8 DEF NewerIn
  <2>2. \A a, b \in 1..(i - 1) : f[a] = f[b] => a = b
    BY <1>2, <1>8
  <2>3. ASSUME NEW q \in N
        PROVE  \E a \in 1..(i - 1) : f[a] = q
    <3>1. PICK a \in 1..n : s[a] = q
      BY <1>3 DEF Surjection, NewerIn
    <3>2. a < i
      BY <1>6, <3>1 DEF NewerIn
    <3>3. a \in 1..(i - 1)
      BY <1>1, <3>1, <3>2
    <3>. QED
      BY <3>1, <3>3
  <2>. QED
    BY <2>1, <2>2, <2>3 DEF Bijection, Injection, Surjection, IsInjective
<1>10. Cardinality(N) = i - 1
  <2>1. ExistsBijection(1..(i - 1), N)
    BY <1>9 DEF ExistsBijection
  <2>. QED
    BY <1>7, <2>1, FS_Bijection
<1>. QED
  BY <1>4, <1>5, <1>10 DEF n

\* What LIMIT and OFFSET cut out of a listing.
LEMMA CutFacts ==
    ASSUME NEW S, IsFiniteSet(S), NEW s \in Listings(S),
           NEW l \in Nat \ {0}, NEW o \in Nat
    PROVE  /\ Cut(s, l, o) \in Seq(S)
           /\ Len(Cut(s, l, o)) \in Nat /\ Len(Cut(s, l, o)) <= l
           /\ \A k \in 1..Len(Cut(s, l, o)) : /\ o + k \in 1..Cardinality(S)
                                              /\ Cut(s, l, o)[k] = s[o + k]
           /\ Cut(s, l, o) = <<>> => Cardinality(S) <= o
<1>. DEFINE n == Cardinality(S)
            m == IF o + l < Len(s) THEN o + l ELSE Len(s)
<1>1. n \in Nat /\ s \in [1..n -> S]
  BY FS_CardinalityType DEF Listings
<1>2. s \in Seq(S) /\ Len(s) = n
  <2>1. s \in Seq(S)
    BY <1>1, SeqDef
  <2>2. DOMAIN s = 1..n /\ DOMAIN s = 1..Len(s) /\ Len(s) \in Nat
    BY <1>1, <2>1, LenProperties
  <2>. QED
    BY <1>1, <2>1, <2>2
<1>3. m \in Int /\ o + 1 \in Int /\ m <= n /\ m <= o + l /\ (m = n \/ m = o + l)
  BY <1>1, <1>2
<1>4. Cut(s, l, o) = SubSeq(s, o + 1, m)
  BY DEF Cut
<1>. HIDE DEF n, m
<1>5. \A k \in (o + 1)..m : s[k] \in S
  BY <1>1, <1>3
<1>6. /\ SubSeq(s, o + 1, m) \in Seq(S)
      /\ Len(SubSeq(s, o + 1, m)) = IF o + 1 <= m THEN m - (o + 1) + 1 ELSE 0
      /\ \A k \in 1..(m - (o + 1) + 1) : SubSeq(s, o + 1, m)[k] = s[(o + 1) + k - 1]
  BY <1>3, <1>5, SubSeqProperties
<1>7. Len(Cut(s, l, o)) = IF o + 1 <= m THEN m - o ELSE 0
  BY <1>3, <1>4, <1>6
<1>8. \A k \in 1..Len(Cut(s, l, o)) : o + k \in 1..n /\ Cut(s, l, o)[k] = s[o + k]
  <2>. SUFFICES ASSUME NEW k \in 1..Len(Cut(s, l, o))
                PROVE  o + k \in 1..n /\ Cut(s, l, o)[k] = s[o + k]
    OBVIOUS
  <2>1. k \in 1..(m - (o + 1) + 1) /\ k \in Int /\ 1 <= k /\ k <= m - o
    BY <1>3, <1>7
  <2>2. (o + 1) + k - 1 = o + k /\ o + k \in 1..n
    BY <1>1, <1>3, <2>1
  <2>. QED
    BY <1>4, <1>6, <2>1, <2>2
<1>9. Cut(s, l, o) = <<>> => n <= o
  <2>1. Len(<<>>) = 0
    BY EmptySeq
  <2>. QED
    BY <1>1, <1>3, <1>7, <2>1
<1>10. Len(Cut(s, l, o)) \in Nat /\ Len(Cut(s, l, o)) <= l
  BY <1>3, <1>7
<1>. QED
  BY <1>4, <1>6, <1>8, <1>9, <1>10 DEF n

-----------------------------------------------------------------------------
(* The inductive invariant *)

Newer(r) == {q \in rows : q.user = r.user /\ r.at < q.at}

\* A client's next offset is the number of items it has, all of them its user's.
PositionOK(p) ==
    /\ start[p] \subseteq RowsOf(Who[p])
    /\ Len(page[p]) <= MaxHistoryLimit
    /\ \A i \in DOMAIN seen[p] : seen[p][i].user = Who[p]
    /\ reader[p] \in {"idle", "reading"} => OffsetUsed(offset[p]) = Len(seen[p])
    /\ reader[p] = "idle" => seen[p] = <<>>

\* What it has not seen yet lies behind its offset.
AheadOK(p) ==
    reader[p] = "reading" =>
        \A r \in start[p] : Untied(r) =>
            r \in Range(seen[p]) \/ Len(seen[p]) <= Cardinality(Newer(r))

OrderOK(p) ==
    \A r, q \in start[p] :
        q.at < r.at /\ Untied(r) =>
            \A j \in DOMAIN seen[p] : seen[p][j] = q => \E i \in 1..j : seen[p][i] = r

DoneOK(p) ==
    reader[p] = "done" => \A r \in start[p] : Untied(r) => r \in Range(seen[p])

IInv == /\ TypeOK
        /\ IsFiniteSet(rows)
        /\ \A p \in Readers : PositionOK(p) /\ AheadOK(p) /\ OrderOK(p) /\ DoneOK(p)

LEMMA TypeInit == Init => TypeOK
<1>1. <<>> \in Seq(Rows)
  BY EmptySeq
<1>. QED
  BY <1>1 DEF Init, TypeOK, Times

LEMMA IInvInit == Init => IInv
<1>. SUFFICES ASSUME Init PROVE IInv
  OBVIOUS
<1>1. IsFiniteSet(rows)
  BY FS_EmptySet DEF Init
<1>2. ASSUME NEW p \in Readers
      PROVE  PositionOK(p) /\ AheadOK(p) /\ OrderOK(p) /\ DoneOK(p)
  <2>1. Len(<<>>) = 0 /\ DOMAIN <<>> = {}
    OBVIOUS
  <2>. QED
    BY <2>1 DEF Init, PositionOK, AheadOK, OrderOK, DoneOK, OffsetUsed
<1>. QED
  BY <1>1, <1>2, TypeInit DEF IInv

-----------------------------------------------------------------------------
(* Workers and the clock: rows are only added *)

LEMMA WorkerTypes ==
    ASSUME TypeOK, NEW d \in Deliveries, StampItem(d) \/ InsertItem(d) \/ InsertFails(d)
    PROVE  TypeOK'
<1>. USE DEF TypeOK, readerVars
<1>1. CASE StampItem(d)
  BY <1>1 DEF StampItem
<1>2. CASE InsertItem(d)
  <2>1. Row(d) \in Rows
    BY DEF Row, Rows
  <2>. QED
    BY <1>2, <2>1 DEF InsertItem
<1>3. CASE InsertFails(d)
  BY <1>3 DEF InsertFails
<1>. QED
  BY <1>1, <1>2, <1>3

\* More rows untie nothing and put nothing in front of an offset.
LEMMA RowsAdded ==
    ASSUME IInv, TypeOK', UNCHANGED readerVars, rows \subseteq rows', IsFiniteSet(rows')
    PROVE  IInv'
<1>1. \A r : Untied(r)' => Untied(r)
  BY DEF Untied
<1>2. \A r : Cardinality(Newer(r)) \in Nat /\ Cardinality(Newer(r))' \in Nat
             /\ Cardinality(Newer(r)) <= Cardinality(Newer(r))'
  <2>. SUFFICES ASSUME NEW r
                PROVE  Cardinality(Newer(r)) \in Nat /\ Cardinality(Newer(r)') \in Nat
                       /\ Cardinality(Newer(r)) <= Cardinality(Newer(r)')
    OBVIOUS
  <2>1. Newer(r)' \in SUBSET rows' /\ Newer(r) \in SUBSET (Newer(r)')
    BY DEF Newer
  <2>2. IsFiniteSet(Newer(r)')
    BY <2>1, FS_Subset
  <2>. QED
    BY <2>1, <2>2, FS_Subset, FS_CardinalityType
<1>3. ASSUME NEW p \in Readers
      PROVE  PositionOK(p)' /\ AheadOK(p)' /\ OrderOK(p)' /\ DoneOK(p)'
  <2>1. PositionOK(p) /\ AheadOK(p) /\ OrderOK(p) /\ DoneOK(p)
    BY DEF IInv
  <2>2. PositionOK(p)'
    BY <2>1 DEF PositionOK, RowsOf, readerVars
  <2>3. AheadOK(p)'
    <3>1. Len(seen[p]) \in Nat
      BY LenProperties DEF IInv, TypeOK
    <3>. QED
      BY <1>1, <1>2, <2>1, <3>1 DEF AheadOK, readerVars
  <2>4. OrderOK(p)' /\ DoneOK(p)'
    BY <1>1, <2>1 DEF OrderOK, DoneOK, readerVars
  <2>. QED
    BY <2>2, <2>3, <2>4
<1>. QED
  BY <1>3 DEF IInv

LEMMA WorkerStep ==
    ASSUME IInv, NEW d \in Deliveries, StampItem(d) \/ InsertItem(d) \/ InsertFails(d)
    PROVE  IInv'
<1>1. TypeOK'
  BY WorkerTypes DEF IInv
<1>2. UNCHANGED readerVars /\ rows \subseteq rows' /\ (rows' = rows \/ rows' = rows \cup {Row(d)})
  BY DEF StampItem, InsertItem, InsertFails
<1>3. IsFiniteSet(rows')
  BY <1>2, FS_AddElement DEF IInv
<1>. QED
  BY <1>1, <1>2, <1>3, RowsAdded

-----------------------------------------------------------------------------
(* A client gets a page *)

LEMMA LimitFacts == \A l \in Int : LimitUsed(l) \in 1..MaxHistoryLimit
BY DEF LimitUsed

\* The items a client has after a page that was cut behind the ones it had.
LEMMA SeenFacts ==
    ASSUME NEW a \in Seq(Rows), NEW b \in Seq(Rows)
    PROVE  /\ a \o b \in Seq(Rows)
           /\ Len(a) \in Nat /\ Len(b) \in Nat
           /\ Len(a \o b) = Len(a) + Len(b)
           /\ DOMAIN a = 1..Len(a) /\ DOMAIN (a \o b) = 1..(Len(a) + Len(b))
           /\ \A i \in 1..Len(a) : i \in DOMAIN (a \o b) /\ (a \o b)[i] = a[i]
           /\ \A k \in 1..Len(b) : Len(a) + k \in DOMAIN (a \o b) /\ (a \o b)[Len(a) + k] = b[k]
           /\ \A j \in DOMAIN (a \o b) :
                 j \in 1..Len(a) \/ \E k \in 1..Len(b) : j = Len(a) + k
           /\ Range(a) \subseteq Range(a \o b)
<1>1. /\ a \o b \in Seq(Rows) /\ Len(a \o b) = Len(a) + Len(b)
      /\ \A i \in 1..(Len(a) + Len(b)) : (a \o b)[i] = IF i <= Len(a) THEN a[i] ELSE b[i - Len(a)]
  BY ConcatProperties
<1>2. Len(a) \in Nat /\ Len(b) \in Nat /\ DOMAIN a = 1..Len(a)
      /\ DOMAIN (a \o b) = 1..(Len(a) + Len(b))
  BY <1>1, LenProperties
<1>3. \A i \in 1..Len(a) : i \in 1..(Len(a) + Len(b)) /\ (a \o b)[i] = a[i]
  BY <1>1, <1>2
<1>4. ASSUME NEW k \in 1..Len(b)
      PROVE  Len(a) + k \in 1..(Len(a) + Len(b)) /\ (a \o b)[Len(a) + k] = b[k]
  <2>1. Len(a) + k \in 1..(Len(a) + Len(b)) /\ ~(Len(a) + k <= Len(a)) /\ (Len(a) + k) - Len(a) = k
    BY <1>2
  <2>. QED
    BY <1>1, <2>1
<1>5. ASSUME NEW j \in 1..(Len(a) + Len(b)), j \notin 1..Len(a)
      PROVE  \E k \in 1..Len(b) : j = Len(a) + k
  <2>1. j - Len(a) \in 1..Len(b) /\ j = Len(a) + (j - Len(a))
    BY <1>2, <1>5
  <2>. QED
    BY <2>1
<1>6. Range(a) \subseteq Range(a \o b)
  BY <1>2, <1>3 DEF Range
<1>. QED
  BY <1>1, <1>2, <1>3, <1>4, <1>5, <1>6

\* One page for the client p: S is what its user has, s how it was listed, c the page.
LEMMA PageFacts ==
    ASSUME IInv, NEW p \in Readers, reader[p] = "reading",
           NEW S, S = RowsOf(Who[p]), NEW s \in Listings(S),
           NEW c, c = Cut(s, LimitUsed(limit[p]), OffsetUsed(offset[p]))
    PROVE  /\ IsFiniteSet(S) /\ S \subseteq Rows
           /\ seen[p] \in Seq(Rows) /\ c \in Seq(Rows) /\ c \in Seq(S)
           /\ OffsetUsed(offset[p]) = Len(seen[p]) /\ Len(seen[p]) \in Nat
           /\ Len(c) <= MaxHistoryLimit
           /\ \A k \in 1..Len(c) : /\ Len(seen[p]) + k \in 1..Cardinality(S)
                                   /\ c[k] = s[Len(seen[p]) + k]
           /\ c = <<>> => Cardinality(S) <= Len(seen[p])
<1>1. IsFiniteSet(S) /\ S \subseteq Rows
  <2>1. S \in SUBSET rows
    BY DEF RowsOf
  <2>. QED
    BY <2>1, FS_Subset DEF IInv, TypeOK
<1>2. seen[p] \in Seq(Rows) /\ OffsetUsed(offset[p]) = Len(seen[p])
  BY DEF IInv, TypeOK, PositionOK
<1>3. Len(seen[p]) \in Nat
  BY <1>2, LenProperties
<1>4. LimitUsed(limit[p]) \in Nat \ {0} /\ LimitUsed(limit[p]) <= MaxHistoryLimit
  <2>1. limit[p] \in Int
    BY DEF IInv, TypeOK
  <2>2. LimitUsed(limit[p]) \in 1..MaxHistoryLimit
    BY <2>1, LimitFacts
  <2>. QED
    BY <2>2
<1>5. c = Cut(s, LimitUsed(limit[p]), Len(seen[p]))
  BY <1>2
<1>6. /\ c \in Seq(S)
      /\ Len(c) \in Nat /\ Len(c) <= LimitUsed(limit[p])
      /\ \A k \in 1..Len(c) : Len(seen[p]) + k \in 1..Cardinality(S) /\ c[k] = s[Len(seen[p]) + k]
      /\ c = <<>> => Cardinality(S) <= Len(seen[p])
  BY <1>1, <1>3, <1>4, <1>5, CutFacts
<1>7. c \in Seq(Rows)
  BY <1>1, <1>6, SeqMonotonic
<1>. QED
  BY <1>1, <1>2, <1>3, <1>4, <1>6, <1>7

\* Where an untied row of the client's user stands when the page is cut.
LEMMA PlaceFacts ==
    ASSUME IInv, NEW p \in Readers, NEW S, S = RowsOf(Who[p]), IsFiniteSet(S), S \subseteq Rows,
           NEW s \in Listings(S), NEW r \in S, Untied(r)
    PROVE  \E i \in 1..Cardinality(S) :
              /\ s[i] = r
              /\ Cardinality(Newer(r)) = i - 1
              /\ \A j \in 1..Cardinality(S) : s[j].at < r.at => i < j
<1>1. NewerIn(S, r) = Newer(r)
  BY DEF NewerIn, Newer, RowsOf
<1>2. \A q \in S : q.at = r.at => q = r
  BY DEF Untied, RowsOf
<1>. QED
  BY <1>1, <1>2, PositionFacts

LEMMA PageStep ==
    ASSUME IInv, NEW p \in Readers, GetHistoryForUser(p)
    PROVE  IInv'
<1>. DEFINE S == RowsOf(Who[p])
            a == seen[p]
            c == page'[p]
            at == Len(seen[p])
<1>1. reader[p] = "reading" /\ UNCHANGED <<now, delivery, stamp, rows, limit>>
  BY DEF GetHistoryForUser, workerVars
<1>2. PICK s \in Listings(S) :
         page' = [page EXCEPT ![p] = Cut(s, LimitUsed(limit[p]), OffsetUsed(offset[p]))]
  BY DEF GetHistoryForUser
<1>3. c = Cut(s, LimitUsed(limit[p]), OffsetUsed(offset[p]))
  BY <1>2 DEF IInv, TypeOK
<1>4. /\ seen' = [seen EXCEPT ![p] = a \o c]
      /\ offset' = [offset EXCEPT ![p] = OffsetUsed(offset[p]) + Len(c)]
      /\ start' = [start EXCEPT ![p] = IF a = <<>> THEN S ELSE start[p]]
      /\ reader' = [reader EXCEPT ![p] = IF c = <<>> THEN "done" ELSE "reading"]
  BY DEF GetHistoryForUser
<1>5. /\ IsFiniteSet(S) /\ S \subseteq Rows
      /\ a \in Seq(Rows) /\ c \in Seq(Rows) /\ c \in Seq(S)
      /\ OffsetUsed(offset[p]) = at /\ at \in Nat
      /\ Len(c) <= MaxHistoryLimit
      /\ \A k \in 1..Len(c) : at + k \in 1..Cardinality(S) /\ c[k] = s[at + k]
      /\ c = <<>> => Cardinality(S) <= at
  BY <1>1, <1>3, PageFacts
<1>. HIDE DEF at
<1>17. Cardinality(S) \in Nat /\ \A i \in 1..Cardinality(S) : i \in Nat /\ 1 <= i /\ i <= Cardinality(S)
  <2>1. Cardinality(S) \in Nat
    BY <1>5, FS_CardinalityType
  <2>. QED
    BY <2>1
<1>6. /\ page'[p] = c /\ seen'[p] = a \o c /\ offset'[p] = at + Len(c)
      /\ start'[p] = IF a = <<>> THEN S ELSE start[p]
      /\ reader'[p] = IF c = <<>> THEN "done" ELSE "reading"
  BY <1>4, <1>5 DEF IInv, TypeOK
<1>7. /\ a \o c \in Seq(Rows) /\ Len(c) \in Nat /\ Len(a \o c) = at + Len(c)
      /\ DOMAIN a = 1..at /\ DOMAIN (a \o c) = 1..(at + Len(c))
      /\ \A i \in 1..at : i \in DOMAIN (a \o c) /\ (a \o c)[i] = a[i]
      /\ \A k \in 1..Len(c) : at + k \in DOMAIN (a \o c) /\ (a \o c)[at + k] = c[k]
      /\ \A j \in DOMAIN (a \o c) : j \in 1..at \/ \E k \in 1..Len(c) : j = at + k
      /\ Range(a) \subseteq Range(a \o c)
  BY <1>5, SeenFacts DEF at
<1>8. TypeOK'
  <2>1. page' \in [Readers -> Seq(Rows)] /\ seen' \in [Readers -> Seq(Rows)]
    BY <1>2, <1>3, <1>4, <1>5, <1>7 DEF IInv, TypeOK
  <2>2. start' \in [Readers -> SUBSET Rows]
    BY <1>4, <1>5 DEF IInv, TypeOK
  <2>3. offset' \in [Readers -> Int]
    <3>1. OffsetUsed(offset[p]) + Len(c) \in Int
      BY <1>5, <1>7
    <3>. QED
      BY <1>4, <3>1 DEF IInv, TypeOK
  <2>4. reader' \in [Readers -> {"idle", "reading", "done", "refused", "failed"}]
    BY <1>4 DEF IInv, TypeOK
  <2>. QED
    BY <1>1, <2>1, <2>2, <2>3, <2>4 DEF IInv, TypeOK
<1>9. start'[p] \subseteq S /\ (start'[p] = start[p] \/ a = <<>>)
  BY <1>6 DEF IInv, PositionOK
<1>10. \A r : Untied(r)' <=> Untied(r)
  BY <1>1 DEF Untied
\* What is new in front of the new offset has been seen.
<1>11. ASSUME NEW r \in start'[p], Untied(r), NEW i \in 1..Cardinality(S), s[i] = r,
              i <= at + Len(c), r \notin Range(a), Cardinality(Newer(r)) = i - 1
       PROVE  \E k \in 1..Len(c) : i = at + k /\ c[k] = r
  <2>1. at <= Cardinality(Newer(r))
    <3>1. CASE a = <<>>
      <4>1. at = 0
        BY <3>1, EmptySeq DEF at
      <4>2. i \in Nat /\ 1 <= i
        BY <1>17
      <4>. QED
        BY <1>11, <4>1, <4>2
    <3>2. CASE a # <<>>
      BY <1>1, <1>9, <1>11, <3>2 DEF IInv, AheadOK, at
    <3>. QED
      BY <3>1, <3>2
  <2>2. i \in Nat /\ at \in Nat /\ Len(c) \in Nat /\ at <= i - 1 /\ i <= at + Len(c)
    BY <1>5, <1>7, <1>11, <1>17, <2>1
  <2>3. i - at \in 1..Len(c) /\ i = at + (i - at)
    BY ONLY <2>2
  <2>. QED
    BY <1>5, <1>11, <2>3
<1>12. ASSUME NEW r \in start'[p], Untied(r)
       PROVE  /\ r \in Range(a \o c) \/ at + Len(c) <= Cardinality(Newer(r))
              /\ c = <<>> => r \in Range(a \o c)
  <2>1. r \in S
    BY <1>9
  <2>2. PICK i \in 1..Cardinality(S) : s[i] = r /\ Cardinality(Newer(r)) = i - 1
    BY <1>5, <1>12, <2>1, PlaceFacts
  <2>3. CASE r \in Range(a)
    BY <1>7, <2>3
  <2>4. CASE r \notin Range(a) /\ i <= at + Len(c)
    <3>1. PICK k \in 1..Len(c) : c[k] = r
      BY <1>11, <1>12, <2>2, <2>4
    <3>. QED
      BY <1>7, <3>1 DEF Range
  <2>5. CASE r \notin Range(a) /\ ~(i <= at + Len(c))
    <3>2. i \in Nat /\ at \in Nat /\ Len(c) \in Nat /\ i <= Cardinality(S) /\ Cardinality(S) \in Nat
      BY <1>5, <1>7, <1>17, <2>2
    <3>1. at + Len(c) <= i - 1
      BY <2>5, <3>2
    <3>3. c # <<>>
      <4>1. SUFFICES ASSUME c = <<>> PROVE FALSE
        OBVIOUS
      <4>2. Cardinality(S) <= at
        BY <1>5, <4>1
      <4>. QED
        BY <3>1, <3>2, <4>2
    <3>. QED
      BY <2>2, <3>1, <3>3
  <2>. QED
    BY <2>3, <2>4, <2>5
<1>13. ASSUME NEW r \in start'[p], NEW q \in start'[p], q.at < r.at, Untied(r),
              NEW j \in DOMAIN (a \o c), (a \o c)[j] = q
       PROVE  \E i \in 1..j : (a \o c)[i] = r
  <2>1. CASE j \in 1..at
    <3>1. a # <<>> /\ start'[p] = start[p]
      <4>1. a = <<>> => at = 0
        BY EmptySeq DEF at
      <4>2. at # 0
        BY <1>5, <2>1
      <4>. QED
        BY <1>9, <4>1, <4>2
    <3>4. OrderOK(p)
      BY DEF IInv
    <3>5. j \in DOMAIN seen[p] /\ seen[p][j] = q
      BY <1>7, <1>13, <2>1
    <3>6. r \in start[p] /\ q \in start[p]
      BY <3>1
    <3>2. PICK i \in 1..j : a[i] = r
      BY <1>13, <3>4, <3>5, <3>6 DEF OrderOK
    <3>3. i \in 1..at
      BY <1>5, <2>1
    <3>. QED
      BY <1>7, <3>2, <3>3
  <2>2. ASSUME NEW k \in 1..Len(c), j = at + k
        PROVE  \E i \in 1..j : (a \o c)[i] = r
    <3>1. r \in S /\ at + k \in 1..Cardinality(S) /\ s[at + k] = q
      BY <1>5, <1>7, <1>9, <1>13, <2>2
    <3>5. PICK i \in 1..Cardinality(S) :
             /\ s[i] = r
             /\ Cardinality(Newer(r)) = i - 1
             /\ \A h \in 1..Cardinality(S) : s[h].at < r.at => i < h
      <4>. HIDE DEF S
      <4>1. S = RowsOf(Who[p])
        BY DEF S
      <4>. QED
        BY <1>5, <1>13, <3>1, <4>1, PlaceFacts
    <3>6. s[at + k].at < r.at
      BY <1>13, <3>1
    <3>2. s[i] = r /\ Cardinality(Newer(r)) = i - 1 /\ i < at + k
      BY <3>1, <3>5, <3>6
    <3>3. CASE r \in Range(a)
      <4>1. PICK h \in 1..at : a[h] = r
        BY <1>7, <3>3 DEF Range
      <4>2. h \in 1..j
        <5>1. at \in Nat /\ Len(c) \in Nat /\ h \in 1..at /\ k \in 1..Len(c) /\ j = at + k
          BY <1>5, <1>7, <2>2, <4>1
        <5>. QED
          BY ONLY <5>1
      <4>. QED
        BY <1>7, <4>1, <4>2
    <3>4. CASE r \notin Range(a)
      <4>1. i <= at + Len(c)
        <5>1. i \in Nat /\ at \in Nat /\ Len(c) \in Nat /\ k \in 1..Len(c) /\ i < at + k
          BY <1>5, <1>7, <1>17, <3>2
        <5>. QED
          BY ONLY <5>1
      <4>2. PICK h \in 1..Len(c) : i = at + h /\ c[h] = r
        BY <1>11, <1>13, <3>2, <3>4, <4>1
      <4>3. at + h \in 1..j
        <5>1. at \in Nat /\ Len(c) \in Nat /\ h \in 1..Len(c) /\ k \in 1..Len(c) /\ at + h < at + k /\ j = at + k
          BY <1>5, <1>7, <2>2, <3>2, <4>2
        <5>. QED
          BY ONLY <5>1
      <4>. QED
        BY <1>7, <4>2, <4>3
    <3>. QED
      BY <3>3, <3>4
  <2>. QED
    BY <1>7, <2>1, <2>2
<1>14. PositionOK(p)'
  <2>1. \A i \in DOMAIN (a \o c) : (a \o c)[i].user = Who[p]
    <3>1. \A i \in 1..at : a[i].user = Who[p]
      BY <1>7 DEF IInv, PositionOK
    <3>2. \A k \in 1..Len(c) : c[k].user = Who[p]
      BY <1>5, ElementOfSeq DEF RowsOf
    <3>. SUFFICES ASSUME NEW i \in DOMAIN (a \o c) PROVE (a \o c)[i].user = Who[p]
      OBVIOUS
    <3>3. CASE i \in 1..at
      <4>1. (a \o c)[i] = a[i]
        BY <1>7, <3>3
      <4>. QED
        BY <3>1, <3>3, <4>1
    <3>4. ASSUME NEW k \in 1..Len(c), i = at + k
          PROVE  (a \o c)[i].user = Who[p]
      <4>1. (a \o c)[at + k] = c[k]
        BY <1>7
      <4>2. (a \o c)[i] = c[k] /\ c[k].user = Who[p]
        BY <3>2, <3>4, <4>1
      <4>. QED
        BY <4>2
    <3>. QED
      BY <1>7, <3>3, <3>4
  <2>2. OffsetUsed(at + Len(c)) = Len(a \o c)
    BY <1>5, <1>7 DEF OffsetUsed
  <2>3. RowsOf(Who[p])' = S
    BY <1>1 DEF RowsOf
  <2>. QED
    BY <1>5, <1>6, <1>9, <2>1, <2>2, <2>3 DEF PositionOK
<1>15. AheadOK(p)' /\ DoneOK(p)' /\ OrderOK(p)'
  <2>1. \A r : Newer(r)' = Newer(r)
    BY <1>1 DEF Newer
  <2>2. AheadOK(p)' /\ DoneOK(p)'
    BY <1>6, <1>7, <1>10, <1>12, <2>1 DEF AheadOK, DoneOK
  <2>3. OrderOK(p)'
    <3>. SUFFICES ASSUME NEW r \in start'[p], NEW q \in start'[p], q.at < r.at, Untied(r)',
                         NEW j \in DOMAIN seen'[p], seen'[p][j] = q
                  PROVE  \E i \in 1..j : seen'[p][i] = r
      BY DEF OrderOK
    <3>1. Untied(r) /\ j \in DOMAIN (a \o c) /\ (a \o c)[j] = q
      BY <1>6, <1>10
    <3>2. \E i \in 1..j : (a \o c)[i] = r
      BY <1>13, <3>1
    <3>. QED
      BY <1>6, <3>2
  <2>. QED
    BY <2>2, <2>3
<1>16. ASSUME NEW b \in Readers, b # p
       PROVE  PositionOK(b)' /\ AheadOK(b)' /\ OrderOK(b)' /\ DoneOK(b)'
  <2>1. /\ reader'[b] = reader[b] /\ offset'[b] = offset[b] /\ page'[b] = page[b]
        /\ seen'[b] = seen[b] /\ start'[b] = start[b]
    BY <1>2, <1>4, <1>16 DEF IInv, TypeOK
  <2>2. PositionOK(b) /\ AheadOK(b) /\ OrderOK(b) /\ DoneOK(b)
    BY DEF IInv
  <2>. QED
    BY <1>1, <2>1, <2>2 DEF PositionOK, AheadOK, OrderOK, DoneOK, RowsOf, Untied, Newer
<1>. QED
  BY <1>1, <1>8, <1>14, <1>15, <1>16 DEF IInv

\* Beginning, failing and the time.
LEMMA OtherStep ==
    ASSUME IInv,
           \/ Tick \/ UNCHANGED vars
           \/ \E p \in Readers : StartReading(p) \/ GetHistoryFails(p)
    PROVE  IInv'
<1>1. TypeOK' /\ UNCHANGED <<rows, page, seen, start>>
  <2>1. CASE Tick \/ UNCHANGED vars
    BY <2>1 DEF IInv, TypeOK, Tick, Times, vars, workerVars, readerVars
  <2>2. ASSUME NEW p \in Readers, StartReading(p)
        PROVE  TypeOK' /\ UNCHANGED <<rows, page, seen, start>>
    <3>1. UNCHANGED <<now, workerVars, page, seen, start>>
      BY <2>2 DEF StartReading
    <3>2. limit' \in [Readers -> Int] /\ offset' \in [Readers -> Int]
      <4>1. CASE UNCHANGED <<limit, offset>>
        BY <4>1 DEF IInv, TypeOK
      <4>2. ASSUME NEW l \in Limits \ {NotANumber}, NEW o \in Offsets \ {NotANumber},
                   limit' = [limit EXCEPT ![p] = l], offset' = [offset EXCEPT ![p] = o]
            PROVE  limit' \in [Readers -> Int] /\ offset' \in [Readers -> Int]
        <5>1. l \in Int /\ o \in Int
          OBVIOUS
        <5>. QED
          BY <4>2, <5>1 DEF IInv, TypeOK
      <4>. QED
        BY <2>2, <4>1, <4>2 DEF StartReading
    <3>3. reader' \in [Readers -> {"idle", "reading", "done", "refused", "failed"}]
      BY <2>2 DEF IInv, TypeOK, StartReading
    <3>. QED
      BY <3>1, <3>2, <3>3 DEF IInv, TypeOK, workerVars
  <2>3. ASSUME NEW p \in Readers, GetHistoryFails(p)
        PROVE  TypeOK' /\ UNCHANGED <<rows, page, seen, start>>
    BY <2>3 DEF IInv, TypeOK, GetHistoryFails, workerVars
  <2>. QED
    BY <2>1, <2>2, <2>3
<1>2. ASSUME NEW b \in Readers
      PROVE  \/ reader'[b] = reader[b] /\ offset'[b] = offset[b]
             \/ reader'[b] \in {"refused", "failed"}
             \/ reader[b] = "idle" /\ reader'[b] = "reading" /\ OffsetUsed(offset'[b]) = 0
  <2>1. CASE Tick \/ UNCHANGED vars
    BY <2>1 DEF Tick, vars, readerVars
  <2>2. ASSUME NEW p \in Readers, StartReading(p)
        PROVE  \/ reader'[b] = reader[b] /\ offset'[b] = offset[b]
               \/ reader'[b] \in {"refused", "failed"}
               \/ reader[b] = "idle" /\ reader'[b] = "reading" /\ OffsetUsed(offset'[b]) = 0
    BY <2>2 DEF IInv, TypeOK, StartReading, OffsetUsed
  <2>3. ASSUME NEW p \in Readers, GetHistoryFails(p)
        PROVE  \/ reader'[b] = reader[b] /\ offset'[b] = offset[b]
               \/ reader'[b] \in {"refused", "failed"}
    BY <2>3 DEF IInv, TypeOK, GetHistoryFails
  <2>. QED
    BY <2>1, <2>2, <2>3
<1>3. ASSUME NEW b \in Readers
      PROVE  PositionOK(b)' /\ AheadOK(b)' /\ OrderOK(b)' /\ DoneOK(b)'
  <2>1. PositionOK(b) /\ AheadOK(b) /\ OrderOK(b) /\ DoneOK(b)
    BY DEF IInv
  <2>2. \A r : /\ Untied(r)' <=> Untied(r)
              /\ Cardinality(Newer(r))' = Cardinality(Newer(r))
              /\ Cardinality(Newer(r)) \in Nat
    <3>1. \A r : Newer(r) \in SUBSET rows /\ Newer(r)' = Newer(r)
      BY <1>1 DEF Newer
    <3>. QED
      BY <1>1, <3>1, FS_Subset, FS_CardinalityType DEF IInv, Untied
  <2>3. Len(<<>>) = 0
    BY EmptySeq
  <2>4. PositionOK(b)'
    BY <1>1, <1>2, <2>1, <2>3 DEF PositionOK, RowsOf
  <2>5. AheadOK(b)'
    BY <1>1, <1>2, <2>1, <2>2, <2>3 DEF AheadOK, PositionOK
  <2>6. OrderOK(b)' /\ DoneOK(b)'
    BY <1>1, <1>2, <2>1, <2>2 DEF OrderOK, DoneOK
  <2>. QED
    BY <2>4, <2>5, <2>6
<1>. QED
  BY <1>1, <1>3 DEF IInv

LEMMA IInvCorrect == Spec => []IInv
<1>1. IInv /\ [Next]_vars => IInv'
  BY WorkerStep, PageStep, OtherStep DEF Next
<1>. QED
  BY <1>1, IInvInit, PTL DEF Spec

-----------------------------------------------------------------------------
(* The properties *)

\* Every variable keeps its type.
THEOREM TypeCorrect == Spec => []TypeOK
<1>1. IInv => TypeOK
  BY DEF IInv
<1>. QED
  BY <1>1, IInvCorrect, PTL

\* A client gets its user's rows and at most the maximum of them in an answer.
THEOREM OwnPagesCorrect == Spec => []OwnPages
<1>1. IInv => OwnPages
  BY DEF IInv, OwnPages, PositionOK
<1>. QED
  BY <1>1, IInvCorrect, PTL

\* Inserts between the pages make a client skip no row that it could have seen.
THEOREM NothingSkippedCorrect == Spec => []NothingSkipped
<1>1. IInv => NothingSkipped
  BY DEF IInv, NothingSkipped, DoneOK
<1>. QED
  BY <1>1, IInvCorrect, PTL

\* First sights are newest first over any number of pages.
THEOREM ReadInOrderCorrect == Spec => []ReadInOrder
<1>1. IInv => ReadInOrder
  BY DEF IInv, ReadInOrder, OrderOK
<1>. QED
  BY <1>1, IInvCorrect, PTL

-----------------------------------------------------------------------------
(* Enough items, and not too many *)

\* Ties may hide a row behind another one that is seen twice, yet a client that is done
\* has at least as many items as its user had rows when it began.
EnoughItems == \A p \in Readers : reader[p] = "done" => Cardinality(start[p]) <= Len(seen[p])

LEMMA EnoughStep ==
    ASSUME IInv, EnoughItems, [Next]_vars
    PROVE  EnoughItems'
<1>1. ASSUME NEW p \in Readers, GetHistoryForUser(p), NEW b \in Readers, reader'[b] = "done"
      PROVE  Cardinality(start'[b]) <= Len(seen'[b])
  <2>1. reader[p] = "reading"
    BY <1>1 DEF GetHistoryForUser
  <2>2. CASE b # p
    <3>1. reader'[b] = reader[b] /\ start'[b] = start[b] /\ seen'[b] = seen[b]
      BY <1>1, <2>2 DEF GetHistoryForUser, IInv, TypeOK
    <3>. QED
      BY <1>1, <3>1 DEF EnoughItems
  <2>3. CASE b = p
    <3>. DEFINE S == RowsOf(Who[p])
    <3>1. PICK s \in Listings(S) :
             page' = [page EXCEPT ![p] = Cut(s, LimitUsed(limit[p]), OffsetUsed(offset[p]))]
      BY <1>1 DEF GetHistoryForUser
    <3>2. page'[p] = Cut(s, LimitUsed(limit[p]), OffsetUsed(offset[p]))
      BY <3>1 DEF IInv, TypeOK
    <3>3. page'[p] = <<>>
      BY <1>1, <2>3 DEF GetHistoryForUser, IInv, TypeOK
    <3>4. /\ seen'[p] = seen[p] \o page'[p]
          /\ start'[p] = IF seen[p] = <<>> THEN S ELSE start[p]
      BY <1>1 DEF GetHistoryForUser, IInv, TypeOK
    <3>5. /\ IsFiniteSet(S) /\ seen[p] \in Seq(Rows)
          /\ Cardinality(S) <= Len(seen[p]) /\ Len(seen[p]) \in Nat
      BY <2>1, <3>2, <3>3, PageFacts
    <3>6. seen'[p] = seen[p]
      BY <3>3, <3>4, <3>5, ConcatEmptySeq
    <3>7. start'[p] \in SUBSET S
      BY <3>4 DEF IInv, PositionOK
    <3>8. Cardinality(start'[p]) <= Cardinality(S) /\ Cardinality(start'[p]) \in Nat
          /\ Cardinality(S) \in Nat
      BY <3>5, <3>7, FS_Subset, FS_CardinalityType
    <3>. HIDE DEF S
    <3>. QED
      BY <2>3, <3>5, <3>6, <3>8
  <2>. QED
    BY <2>2, <2>3
<1>2. ASSUME NEW b \in Readers, reader'[b] = "done",
             \/ Tick \/ UNCHANGED vars
             \/ \E d \in Deliveries : StampItem(d) \/ InsertItem(d) \/ InsertFails(d)
             \/ \E p \in Readers : StartReading(p) \/ GetHistoryFails(p)
      PROVE  Cardinality(start'[b]) <= Len(seen'[b])
  <2>1. start' = start /\ seen' = seen
    BY <1>2 DEF Tick, vars, readerVars, StampItem, InsertItem, InsertFails, StartReading,
                GetHistoryFails
  <2>2. reader[b] = "done"
    BY <1>2 DEF Tick, vars, readerVars, StampItem, InsertItem, InsertFails, StartReading,
                GetHistoryFails, IInv, TypeOK
  <2>. QED
    BY <2>1, <2>2 DEF EnoughItems
<1>. QED
  BY <1>1, <1>2 DEF Next, EnoughItems

\* No client ends with fewer items than there were rows at its first page.
THEOREM EnoughItemsCorrect == Spec => []EnoughItems
<1>1. Init => EnoughItems
  BY DEF Init, EnoughItems
<1>. QED
  BY <1>1, EnoughStep, IInvCorrect, PTL DEF Spec

\* Rows inserted in front of the offset are seen twice, yet a client never has more
\* items than its user has rows: each page starts behind as many rows as it has items.
NoSurplus == \A p \in Readers : Len(seen[p]) <= Cardinality(RowsOf(Who[p]))

LEMMA RowsOfGrow ==
    ASSUME IInv, IsFiniteSet(rows'), rows \subseteq rows', NEW u
    PROVE  /\ Cardinality(RowsOf(u)) \in Nat /\ Cardinality(RowsOf(u)') \in Nat
           /\ Cardinality(RowsOf(u)) <= Cardinality(RowsOf(u)')
<1>1. RowsOf(u)' \in SUBSET rows' /\ RowsOf(u) \in SUBSET (RowsOf(u)')
  BY DEF RowsOf
<1>2. IsFiniteSet(RowsOf(u)')
  BY <1>1, FS_Subset
<1>. QED
  BY <1>1, <1>2, FS_Subset, FS_CardinalityType

LEMMA NoSurplusStep ==
    ASSUME IInv, IInv', NoSurplus, [Next]_vars
    PROVE  NoSurplus'
<1>1. ASSUME NEW p \in Readers, GetHistoryForUser(p), NEW b \in Readers
      PROVE  Len(seen'[b]) <= Cardinality(RowsOf(Who[b])')
  <2>1. reader[p] = "reading" /\ rows' = rows
    BY <1>1 DEF GetHistoryForUser, workerVars
  <2>2. RowsOf(Who[b])' = RowsOf(Who[b])
    BY <2>1 DEF RowsOf
  <2>3. CASE b # p
    <3>1. seen'[b] = seen[b]
      BY <1>1, <2>3 DEF GetHistoryForUser, IInv, TypeOK
    <3>. QED
      BY <2>2, <3>1 DEF NoSurplus
  <2>4. CASE b = p
    <3>. DEFINE S == RowsOf(Who[p])
                c == page'[p]
    <3>1. PICK s \in Listings(S) :
             page' = [page EXCEPT ![p] = Cut(s, LimitUsed(limit[p]), OffsetUsed(offset[p]))]
      BY <1>1 DEF GetHistoryForUser
    <3>2. c = Cut(s, LimitUsed(limit[p]), OffsetUsed(offset[p]))
      BY <3>1 DEF IInv, TypeOK
    <3>3. /\ seen[p] \in Seq(Rows) /\ c \in Seq(Rows)
          /\ \A k \in 1..Len(c) : Len(seen[p]) + k \in 1..Cardinality(S)
      BY <2>1, <3>2, PageFacts
    <3>4. seen'[p] = seen[p] \o c
      BY <1>1 DEF GetHistoryForUser, IInv, TypeOK
    <3>5. /\ Len(seen'[p]) = Len(seen[p]) + Len(c)
          /\ Len(seen[p]) \in Nat /\ Len(c) \in Nat
      BY <3>3, <3>4, SeenFacts
    <3>6. Len(seen[p]) <= Cardinality(S)
      BY DEF NoSurplus
    <3>. HIDE DEF S, c
    <3>7. Len(seen'[p]) <= Cardinality(S)
      <4>1. CASE Len(c) = 0
        BY <3>5, <3>6, <4>1
      <4>2. CASE Len(c) # 0
        <5>1. Len(c) \in 1..Len(c)
          BY <3>5, <4>2
        <5>2. Len(seen[p]) + Len(c) \in 1..Cardinality(S)
          BY <3>3, <5>1
        <5>. QED
          BY <3>5, <5>2
      <4>. QED
        BY <4>1, <4>2
    <3>. QED
      BY <2>2, <2>4, <3>7 DEF S
  <2>. QED
    BY <2>3, <2>4
<1>2. ASSUME NEW b \in Readers,
             \/ Tick \/ UNCHANGED vars
             \/ \E d \in Deliveries : StampItem(d) \/ InsertItem(d) \/ InsertFails(d)
             \/ \E p \in Readers : StartReading(p) \/ GetHistoryFails(p)
      PROVE  Len(seen'[b]) <= Cardinality(RowsOf(Who[b])')
  <2>1. seen' = seen /\ rows \subseteq rows'
    BY <1>2 DEF Tick, vars, readerVars, workerVars, StampItem, InsertItem, InsertFails,
                StartReading, GetHistoryFails
  <2>2. Len(seen[b]) <= Cardinality(RowsOf(Who[b])) /\ Len(seen[b]) \in Nat
    BY LenProperties DEF NoSurplus, IInv, TypeOK
  <2>3. /\ Cardinality(RowsOf(Who[b])) \in Nat /\ Cardinality(RowsOf(Who[b])') \in Nat
        /\ Cardinality(RowsOf(Who[b])) <= Cardinality(RowsOf(Who[b])')
    BY <2>1, RowsOfGrow DEF IInv
  <2>. QED
    BY <2>1, <2>2, <2>3
<1>. QED
  BY <1>1, <1>2 DEF Next, NoSurplus

\* However many rows workers insert between its pages, a client ends after at most as
\* many pages with items as its user has rows then: re-reading cannot feed itself.
THEOREM NoSurplusCorrect == Spec => []NoSurplus
<1>1. Init => NoSurplus
  <2>. SUFFICES ASSUME Init, NEW p \in Readers
                PROVE  Len(seen[p]) <= Cardinality(RowsOf(Who[p]))
    BY DEF NoSurplus
  <2>1. RowsOf(Who[p]) = {} /\ Len(seen[p]) = 0
    BY DEF Init, RowsOf
  <2>. QED
    BY <2>1, FS_EmptySet
<1>. QED
  BY <1>1, NoSurplusStep, IInvCorrect, PTL DEF Spec
=============================================================================
