--------------------------- MODULE PublishOrderProofs ---------------------------
(***************************************************************************)
(* The rows of a worker are in the order in which Publish accepted their   *)
(* events: PublishOrderKept of EventPipeline, for every set of solves,     *)
(* payloads and workers, every limit and any incidents.                    *)
(*                                                                         *)
(* A worker's path is its rows, its handler, its queue and the             *)
(* web-server's buffer, one behind the other.  No step but Publish puts    *)
(* two events of a path in a new order, and Publish adds at the end.       *)
(***************************************************************************)
EXTENDS EventPipelineProofs

USE EventAssumption, LimitAssumption

\* x is before y in the sequence s.
InOrder(s, x, y) == \E i, j \in DOMAIN s : i < j /\ s[i] = x /\ s[j] = y

\* x is on the path of worker w.
OnPath(w, x) == x \in Range(outbuf) \/ Held(x, w) \/ <<x, w>> \in Range(history)

\* What is behind the rows of worker w, and behind its handler.
Waiting(w, y) == y \in Range(inbox[w]) \/ y \in Range(outbuf)

\* x is before y on the path of worker w.
Ahead(w, x, y) ==
    \/ InOrder(history, <<x, w>>, <<y, w>>)
    \/ <<x, w>> \in Range(history) /\ (y = current[w] \/ Waiting(w, y))
    \/ x = current[w] /\ Waiting(w, y)
    \/ InOrder(inbox[w], x, y)
    \/ x \in Range(inbox[w]) /\ y \in Range(outbuf)
    \/ InOrder(outbuf, x, y)

\* Every path is in the order of the publishes.
PathOrder ==
    \A w \in Workers : \A x, y \in Solves : /\ OnPath(w, x) => x \in Range(published)
                                            /\ Ahead(w, x, y) => InOrder(published, x, y)

-----------------------------------------------------------------------------
(* The order in a queue *)

\* Appending puts the new element behind all others.
LEMMA AppendOrder ==
    ASSUME NEW S, NEW s \in Seq(S), NEW e \in S, NEW x, NEW y
    PROVE  InOrder(Append(s, e), x, y) <=> InOrder(s, x, y) \/ (x \in Range(s) /\ y = e)
<1>1. /\ Len(s) \in Nat
      /\ DOMAIN s = 1..Len(s)
      /\ DOMAIN Append(s, e) = 1..Len(s)+1
      /\ \A i \in 1..Len(s) : Append(s, e)[i] = s[i]
      /\ Append(s, e)[Len(s)+1] = e
  BY AppendProperties, LenProperties
<1>2. ASSUME InOrder(Append(s, e), x, y)
      PROVE  InOrder(s, x, y) \/ (x \in Range(s) /\ y = e)
  <2>1. PICK i, j \in 1..Len(s)+1 : i < j /\ Append(s, e)[i] = x /\ Append(s, e)[j] = y
    BY <1>1, <1>2 DEF InOrder
  <2>2. i \in 1..Len(s) /\ x = s[i] /\ x \in Range(s)
    BY <1>1, <2>1 DEF Range
  <2>3. CASE j \in 1..Len(s)
    BY <1>1, <2>1, <2>2, <2>3 DEF InOrder
  <2>4. CASE j = Len(s)+1
    BY <1>1, <2>1, <2>2, <2>4
  <2>. QED
    BY <1>1, <2>1, <2>3, <2>4
<1>3. ASSUME InOrder(s, x, y)
      PROVE  InOrder(Append(s, e), x, y)
  <2>1. PICK i, j \in 1..Len(s) : i < j /\ s[i] = x /\ s[j] = y
    BY <1>1, <1>3 DEF InOrder
  <2>2. i \in 1..Len(s)+1 /\ j \in 1..Len(s)+1
    BY <1>1, <2>1
  <2>. QED
    BY <1>1, <2>1, <2>2 DEF InOrder
<1>4. ASSUME x \in Range(s), y = e
      PROVE  InOrder(Append(s, e), x, y)
  <2>1. PICK i \in 1..Len(s) : s[i] = x
    BY <1>1, <1>4 DEF Range
  <2>2. i \in 1..Len(s)+1 /\ Len(s)+1 \in 1..Len(s)+1 /\ i < Len(s)+1
    BY <1>1, <2>1
  <2>. QED
    BY <1>1, <1>4, <2>1, <2>2 DEF InOrder
<1>. QED
  BY <1>2, <1>3, <1>4

\* A contiguous part keeps the order.
LEMMA SubSeqOrder ==
    ASSUME NEW S, NEW s \in Seq(S), NEW m \in 1..(Len(s)+1), NEW n \in 0..Len(s),
           NEW x, NEW y, InOrder(SubSeq(s, m, n), x, y)
    PROVE  InOrder(s, x, y)
<1>1. Len(s) \in Nat /\ DOMAIN s = 1..Len(s) /\ m \in Int /\ n \in Int
  BY LenProperties
<1>2. \A i \in m..n : i \in 1..Len(s) /\ s[i] \in S
  BY <1>1, ElementOfSeq
<1>3. /\ SubSeq(s, m, n) \in Seq(S)
      /\ Len(SubSeq(s, m, n)) = IF m <= n THEN n-m+1 ELSE 0
      /\ \A i \in 1..n-m+1 : SubSeq(s, m, n)[i] = s[m+i-1]
  BY <1>1, <1>2, SubSeqProperties
<1>4. /\ DOMAIN SubSeq(s, m, n) = 1..(n-m+1)
      /\ \A i \in 1..(n-m+1) : m+i-1 \in 1..Len(s)
  BY <1>1, <1>3, LenProperties
<1>5. PICK i, j \in 1..(n-m+1) : i < j /\ SubSeq(s, m, n)[i] = x /\ SubSeq(s, m, n)[j] = y
  BY <1>4 DEF InOrder
<1>6. /\ m+i-1 \in 1..Len(s) /\ m+j-1 \in 1..Len(s) /\ m+i-1 < m+j-1
      /\ s[m+i-1] = x /\ s[m+j-1] = y
  BY <1>1, <1>3, <1>4, <1>5
<1>. QED
  BY <1>1, <1>6 DEF InOrder

\* The head is before the rest, which keeps its order.
LEMMA TailOrder ==
    ASSUME NEW S, NEW s \in Seq(S), s # <<>>, NEW x, NEW y
    PROVE  /\ InOrder(Tail(s), x, y) => InOrder(s, x, y)
           /\ x = Head(s) /\ y \in Range(Tail(s)) => InOrder(s, x, y)
<1>1. /\ Head(s) = s[1]
      /\ Len(s) \in Nat \ {0}
      /\ DOMAIN s = 1..Len(s)
      /\ DOMAIN Tail(s) = 1..Len(s)-1
      /\ \A i \in 1..Len(s)-1 : Tail(s)[i] = s[i+1]
  <2>1. Len(Tail(s)) = Len(s) - 1 /\ DOMAIN Tail(s) = 1..Len(Tail(s))
    BY HeadTailProperties, LenProperties
  <2>2. Head(s) = s[1]
    OBVIOUS
  <2>. QED
    BY <2>1, <2>2, HeadTailProperties, LenProperties, EmptySeq
<1>2. ASSUME InOrder(Tail(s), x, y) PROVE InOrder(s, x, y)
  <2>1. PICK i, j \in 1..Len(s)-1 : i < j /\ Tail(s)[i] = x /\ Tail(s)[j] = y
    BY <1>1, <1>2 DEF InOrder
  <2>2. /\ i+1 \in 1..Len(s) /\ j+1 \in 1..Len(s) /\ i+1 < j+1
        /\ s[i+1] = x /\ s[j+1] = y
    BY <1>1, <2>1
  <2>. QED
    BY <1>1, <2>2 DEF InOrder
<1>3. ASSUME x = Head(s), y \in Range(Tail(s)) PROVE InOrder(s, x, y)
  <2>1. PICK j \in 1..Len(s)-1 : Tail(s)[j] = y
    BY <1>1, <1>3 DEF Range
  <2>2. 1 \in 1..Len(s) /\ j+1 \in 1..Len(s) /\ 1 < j+1 /\ s[1] = x /\ s[j+1] = y
    BY <1>1, <1>3, <2>1
  <2>. QED
    BY <1>1, <2>2 DEF InOrder
<1>. QED
  BY <1>2, <1>3

LEMMA EmptyOrder == \A x, y : ~InOrder(<<>>, x, y)
  BY DEF InOrder

-----------------------------------------------------------------------------
(* Steps that put no two events of a path in a new order *)

NoNewOrder ==
    \A w \in Workers : \A x, y \in Solves : /\ OnPath(w, x)' => OnPath(w, x)
                                            /\ Ahead(w, x, y)' => Ahead(w, x, y)

LEMMA NoNewOrderKeeps ==
    ASSUME PathOrder, NoNewOrder, UNCHANGED published
    PROVE  PathOrder'
  BY DEF PathOrder, NoNewOrder

\* A step that takes events out of queues and handlers, or leaves them alone.
Drains ==
    /\ UNCHANGED <<history, published>>
    /\ Range(outbuf') \subseteq Range(outbuf)
    /\ \A x, y \in Solves : InOrder(outbuf', x, y) => InOrder(outbuf, x, y)
    /\ \A w \in Workers :
          /\ current'[w] \in {current[w], NoEvent}
          /\ Range(inbox'[w]) \subseteq Range(inbox[w])
          /\ \A x, y \in Solves : InOrder(inbox'[w], x, y) => InOrder(inbox[w], x, y)

LEMMA DrainKeepsOrder ==
    ASSUME PathOrder, Drains
    PROVE  PathOrder'
<1>1. ASSUME NEW w \in Workers, NEW x \in Solves, NEW y \in Solves
      PROVE  /\ OnPath(w, x)' => OnPath(w, x)
             /\ Ahead(w, x, y)' => Ahead(w, x, y)
  <2>1. x # NoEvent /\ y # NoEvent
    BY DEF Events
  <2>2. \A z : Waiting(w, z)' => Waiting(w, z)
    BY DEF Drains, Waiting
  <2>3. \A z \in Solves : z = current'[w] => z = current[w]
    BY <2>1 DEF Drains, Events
  <2>4. OnPath(w, x)' => OnPath(w, x)
    BY <2>3 DEF Drains, OnPath, Held
  <2>5. Ahead(w, x, y)' => Ahead(w, x, y)
    BY <2>2, <2>3 DEF Drains, Ahead
  <2>. QED
    BY <2>4, <2>5
<1>. QED
  BY <1>1, NoNewOrderKeeps DEF NoNewOrder, Drains

\* The end of either process drains.
LEMMA DeathDrains ==
    ASSUME TypeOK
    PROVE  /\ WebDies /\ UNCHANGED <<published, inbox, current, history>> => Drains
           /\ \A w \in Workers : WorkerDies(w) /\ UNCHANGED <<published, outbuf, history>>
                                    => Drains
<1>1. WebDies /\ UNCHANGED <<published, inbox, current, history>> => Drains
  BY EmptyFacts, EmptyOrder DEF WebDies, Drains
<1>2. ASSUME NEW w \in Workers, WorkerDies(w), UNCHANGED <<published, outbuf, history>>
      PROVE  Drains
  <2>1. \A v \in Workers : /\ inbox'[v] \in {inbox[v], <<>>}
                           /\ current'[v] \in {current[v], NoEvent}
    BY <1>2 DEF WorkerDies, TypeOK
  <2>2. \A v \in Workers : /\ Range(inbox'[v]) \subseteq Range(inbox[v])
                           /\ \A x, y : InOrder(inbox'[v], x, y) => InOrder(inbox[v], x, y)
    BY <2>1, EmptyFacts, EmptyOrder
  <2>. QED
    BY <1>2, <2>1, <2>2 DEF Drains
<1>. QED
  BY <1>1, <1>2

\* So does an outage.
LEMMA OutageDrains ==
    ASSUME TypeOK, NatsFails
    PROVE  Drains
<1>1. /\ Range(outbuf') \subseteq Range(outbuf)
      /\ \A x, y \in Solves : InOrder(outbuf', x, y) => InOrder(outbuf, x, y)
  <2>1. PICK lost \in 0..Len(outbuf) : outbuf' = SubSeq(outbuf, lost + 1, Len(outbuf))
    BY DEF NatsFails
  <2>2. Len(outbuf) \in Nat /\ outbuf \in Seq(Solves)
    BY LenProperties DEF TypeOK
  <2>3. lost + 1 \in 1..Len(outbuf)+1 /\ Len(outbuf) \in 0..Len(outbuf)
    BY <2>1, <2>2
  <2>. QED
    BY <2>1, <2>2, <2>3, SubSeqFacts, SubSeqOrder
<1>2. ASSUME NEW w \in Workers
      PROVE  /\ Range(inbox'[w]) \subseteq Range(inbox[w])
             /\ \A x, y \in Solves : InOrder(inbox'[w], x, y) => InOrder(inbox[w], x, y)
  <2>1. PICK kept \in [Workers -> 0..PendingLimit] :
           /\ \A v \in Workers : kept[v] <= Len(inbox[v])
           /\ inbox' = [v \in Workers |-> SubSeq(inbox[v], 1, kept[v])]
    BY DEF NatsFails
  <2>2. inbox[w] \in Seq(Events) /\ Len(inbox[w]) \in Nat
    BY LenProperties DEF TypeOK
  <2>3. kept[w] \in 0..Len(inbox[w]) /\ 1 \in 1..Len(inbox[w])+1
    BY <2>1, <2>2
  <2>4. inbox'[w] = SubSeq(inbox[w], 1, kept[w])
    BY <2>1
  <2>. QED
    BY <2>2, <2>3, <2>4, SubSeqFacts, SubSeqOrder
<1>. QED
  BY <1>1, <1>2 DEF NatsFails, webVars, storeVars, Drains

-----------------------------------------------------------------------------
(* Each step keeps the paths in order *)

\* Publish puts its event behind all that were published before.
LEMMA PublishKeepsOrder ==
    ASSUME TypeOK, PathOrder, NEW r \in Solves, PublishProblemSolved(r)
    PROVE  PathOrder'
<1>1. /\ outbuf' = Append(outbuf, r) /\ outbuf \in Seq(Solves)
      /\ published' = Append(published, r) /\ published \in Seq(Solves)
      /\ UNCHANGED <<inbox, current, history>>
  BY DEF PublishProblemSolved, workerVars, storeVars, TypeOK
<1>2. Range(outbuf') = Range(outbuf) \cup {r} /\ Range(published') = Range(published) \cup {r}
  BY <1>1, AppendFacts
<1>3. \A x, y \in Solves :
         /\ InOrder(outbuf', x, y) <=> InOrder(outbuf, x, y) \/ (x \in Range(outbuf) /\ y = r)
         /\ InOrder(published', x, y) <=> InOrder(published, x, y) \/ (x \in Range(published) /\ y = r)
  BY <1>1, AppendOrder
<1>. SUFFICES ASSUME NEW w \in Workers, NEW x \in Solves, NEW y \in Solves
              PROVE  /\ OnPath(w, x)' => x \in Range(published')
                     /\ Ahead(w, x, y)' => InOrder(published', x, y)
  BY DEF PathOrder
<1>4. OnPath(w, x)' => OnPath(w, x) \/ x = r
  BY <1>1, <1>2 DEF OnPath, Held
<1>5. Ahead(w, x, y)' => Ahead(w, x, y) \/ (OnPath(w, x) /\ y = r)
  BY <1>1, <1>2, <1>3 DEF Ahead, Waiting, OnPath, Held
<1>. QED
  BY <1>2, <1>3, <1>4, <1>5 DEF PathOrder

\* Routing moves the buffer's first event behind what each queue holds.
LEMMA FlushKeepsOrder ==
    ASSUME TypeOK, PathOrder, Flush
    PROVE  PathOrder'
<1>1. /\ outbuf \in Seq(Solves) /\ outbuf # <<>> /\ outbuf' = Tail(outbuf)
      /\ FanOut(Head(outbuf))
      /\ UNCHANGED <<published, current, history>>
  BY DEF Flush, TypeOK
<1>2. Head(outbuf) \in Solves /\ Range(outbuf) = {Head(outbuf)} \cup Range(outbuf')
  BY <1>1, TailFacts
<1>. PICK e \in Solves : e = Head(outbuf)
  BY <1>2
<1>3. \A x, y \in Solves : /\ InOrder(outbuf', x, y) => InOrder(outbuf, x, y)
                           /\ x = e /\ y \in Range(outbuf') => InOrder(outbuf, x, y)
  BY <1>1, TailOrder
<1>4. ASSUME NEW w \in Workers, NEW x \in Solves, NEW y \in Solves
      PROVE  /\ OnPath(w, x)' => OnPath(w, x)
             /\ Ahead(w, x, y)' => Ahead(w, x, y)
  <2>1. inbox[w] \in Seq(Events) /\ inbox'[w] \in {inbox[w], Append(inbox[w], e)}
    BY <1>1 DEF FanOut, TypeOK
  <2>2. /\ Range(inbox'[w]) \subseteq Range(inbox[w]) \cup {e}
        /\ InOrder(inbox'[w], x, y) => InOrder(inbox[w], x, y) \/ (x \in Range(inbox[w]) /\ y = e)
    <3>1. CASE inbox'[w] = inbox[w]
      BY <3>1
    <3>2. CASE inbox'[w] = Append(inbox[w], e)
      <4>1. e \in Events
        BY DEF Events
      <4>2. /\ Range(Append(inbox[w], e)) = Range(inbox[w]) \cup {e}
            /\ InOrder(Append(inbox[w], e), x, y) <=>
                  InOrder(inbox[w], x, y) \/ (x \in Range(inbox[w]) /\ y = e)
        BY <2>1, <4>1, AppendFacts, AppendOrder
      <4>. QED
        BY <3>2, <4>2
    <3>. QED
      BY <2>1, <3>1, <3>2
  <2>3. \A z : Waiting(w, z)' => Waiting(w, z)
    BY <1>2, <2>2 DEF Waiting
  <2>4. OnPath(w, x)' => OnPath(w, x)
    BY <1>1, <1>2, <2>2 DEF OnPath, Held
  <2>5. Ahead(w, x, y)' => Ahead(w, x, y)
    BY <1>1, <1>2, <1>3, <2>2, <2>3 DEF Ahead
  <2>. QED
    BY <2>4, <2>5
<1>. QED
  BY <1>1, <1>4, NoNewOrderKeeps DEF NoNewOrder

\* A foreign payload is no solve, wherever it is queued.
LEMMA ForeignKeepsOrder ==
    ASSUME TypeOK, PathOrder, NEW j \in Foreign, ForeignPublish(j)
    PROVE  PathOrder'
<1>1. j \in Events /\ FanOut(j) /\ UNCHANGED <<outbuf, published, current, history>>
  BY DEF ForeignPublish, connVars, Events
<1>2. ASSUME NEW w \in Workers, NEW x \in Solves, NEW y \in Solves
      PROVE  /\ OnPath(w, x)' => OnPath(w, x)
             /\ Ahead(w, x, y)' => Ahead(w, x, y)
  <2>1. x # j /\ y # j
    OBVIOUS
  <2>2. inbox[w] \in Seq(Events) /\ inbox'[w] \in {inbox[w], Append(inbox[w], j)}
    BY <1>1 DEF FanOut, TypeOK
  <2>3. /\ x \in Range(inbox'[w]) => x \in Range(inbox[w])
        /\ y \in Range(inbox'[w]) => y \in Range(inbox[w])
        /\ InOrder(inbox'[w], x, y) => InOrder(inbox[w], x, y)
    <3>1. CASE inbox'[w] = inbox[w]
      BY <3>1
    <3>2. CASE inbox'[w] = Append(inbox[w], j)
      <4>1. /\ Range(Append(inbox[w], j)) = Range(inbox[w]) \cup {j}
            /\ InOrder(Append(inbox[w], j), x, y) <=>
                  InOrder(inbox[w], x, y) \/ (x \in Range(inbox[w]) /\ y = j)
        BY <1>1, <2>2, AppendFacts, AppendOrder
      <4>. QED
        BY <2>1, <3>2, <4>1
    <3>. QED
      BY <2>2, <3>1, <3>2
  <2>. QED
    BY <1>1, <2>3 DEF OnPath, Held, Ahead, Waiting
<1>. QED
  BY <1>1, <1>2, NoNewOrderKeeps DEF NoNewOrder

\* The handler takes the first of its queue.
LEMMA TakeKeepsOrder ==
    ASSUME TypeOK, PathOrder, NEW w \in Workers, Take(w)
    PROVE  PathOrder'
<1>1. /\ UNCHANGED <<outbuf, published, history>>
      /\ inbox[w] \in Seq(Events) /\ inbox[w] # <<>>
      /\ current'[w] = Head(inbox[w]) /\ inbox'[w] = Tail(inbox[w])
      /\ \A v \in Workers : v # w => current'[v] = current[v] /\ inbox'[v] = inbox[v]
  BY DEF Take, TypeOK, connVars, storeVars
<1>2. Range(inbox[w]) = {current'[w]} \cup Range(inbox'[w])
  BY <1>1, TailFacts
<1>3. \A x, y \in Solves :
         /\ InOrder(inbox'[w], x, y) => InOrder(inbox[w], x, y)
         /\ x = current'[w] /\ y \in Range(inbox'[w]) => InOrder(inbox[w], x, y)
  BY <1>1, TailOrder
<1>4. ASSUME NEW v \in Workers, NEW x \in Solves, NEW y \in Solves
      PROVE  /\ OnPath(v, x)' => OnPath(v, x)
             /\ Ahead(v, x, y)' => Ahead(v, x, y)
  <2>1. CASE v # w
    BY <1>1, <2>1 DEF OnPath, Held, Ahead, Waiting
  <2>2. CASE v = w
    <3>1. \A z : Waiting(w, z)' \/ z = current'[w] => Waiting(w, z)
      BY <1>1, <1>2 DEF Waiting
    <3>2. OnPath(w, x)' => OnPath(w, x)
      BY <1>1, <1>2 DEF OnPath, Held
    <3>3. x = current'[w] /\ Waiting(w, y)' => Ahead(w, x, y)
      <4>. SUFFICES ASSUME x = current'[w], Waiting(w, y)' PROVE Ahead(w, x, y)
        OBVIOUS
      <4>1. CASE y \in Range(inbox'[w])
        BY <1>3, <4>1 DEF Ahead
      <4>2. CASE y \in Range(outbuf')
        BY <1>1, <1>2, <4>2 DEF Ahead
      <4>. QED
        BY <4>1, <4>2 DEF Waiting
    <3>4. x \in Range(inbox'[w]) => x \in Range(inbox[w])
      BY <1>2
    <3>5. InOrder(inbox'[w], x, y) => InOrder(inbox[w], x, y)
      BY <1>3
    <3>6. Ahead(w, x, y)' => Ahead(w, x, y)
      BY <1>1, <3>1, <3>3, <3>4, <3>5 DEF Ahead
    <3>. QED
      BY <2>2, <3>2, <3>6
  <2>. QED
    BY <2>1, <2>2
<1>. QED
  BY <1>1, <1>4, NoNewOrderKeeps DEF NoNewOrder

\* A row is behind the worker's other rows and in front of all else.
LEMMA InsertKeepsOrder ==
    ASSUME TypeOK, PathOrder, NEW w \in Workers, CreateHistoryItem(w)
    PROVE  PathOrder'
<1>1. PICK row \in Solves \X Workers : row = <<current[w], w>>
  BY DEF CreateHistoryItem
<1>2. /\ UNCHANGED <<outbuf, published, inbox>>
      /\ history \in Seq(Solves \X Workers) /\ history' = Append(history, row)
      /\ current'[w] = NoEvent
      /\ \A v \in Workers : v # w => current'[v] = current[v]
  BY <1>1 DEF CreateHistoryItem, TypeOK, connVars
<1>3. /\ Range(history') = Range(history) \cup {row}
      /\ \A p, q : InOrder(history', p, q) <=> InOrder(history, p, q) \/ (p \in Range(history) /\ q = row)
  BY <1>2, AppendFacts, AppendOrder
<1>4. ASSUME NEW v \in Workers, NEW x \in Solves, NEW y \in Solves
      PROVE  /\ OnPath(v, x)' => OnPath(v, x)
             /\ Ahead(v, x, y)' => Ahead(v, x, y)
  <2>1. x # NoEvent /\ y # NoEvent
    BY DEF Events
  <2>2. \A z : <<z, v>> = row <=> z = current[w] /\ v = w
    BY <1>1
  <2>3. /\ <<x, v>> \in Range(history') => <<x, v>> \in Range(history) \/ (v = w /\ x = current[w])
        /\ InOrder(history', <<x, v>>, <<y, v>>) =>
              InOrder(history, <<x, v>>, <<y, v>>)
                \/ (<<x, v>> \in Range(history) /\ v = w /\ y = current[w])
    BY <1>3, <2>2
  <2>4. \A z \in Solves : z = current'[v] => z = current[v]
    BY <1>2 DEF Events
  <2>5. OnPath(v, x)' => OnPath(v, x)
    BY <1>2, <2>3, <2>4 DEF OnPath, Held
  <2>6. Ahead(v, x, y)' => Ahead(v, x, y)
    <3>1. /\ inbox' = inbox /\ outbuf' = outbuf
          /\ \A z : Waiting(v, z)' <=> Waiting(v, z)
      BY <1>2 DEF Waiting
    <3>2. <<x, v>> \in Range(history') /\ (y = current'[v] \/ Waiting(v, y)') => Ahead(v, x, y)
      <4>1. CASE v = w
        <5>1. y # current'[v]
          BY <1>2, <2>1, <4>1
        <5>. QED
          BY <2>3, <3>1, <4>1, <5>1 DEF Ahead
      <4>2. CASE v # w
        BY <1>2, <2>3, <3>1, <4>2 DEF Ahead
      <4>. QED
        BY <4>1, <4>2
    <3>3. InOrder(history', <<x, v>>, <<y, v>>) => Ahead(v, x, y)
      BY <2>3 DEF Ahead
    <3>4. x = current'[v] /\ Waiting(v, y)' => Ahead(v, x, y)
      BY <2>4, <3>1 DEF Ahead
    <3>. QED
      BY <3>1, <3>2, <3>3, <3>4 DEF Ahead
  <2>. QED
    BY <2>5, <2>6
<1>. QED
  BY <1>2, <1>4, NoNewOrderKeeps DEF NoNewOrder

LEMMA OrderInit == Init => PathOrder
<1>. SUFFICES ASSUME Init, NEW w \in Workers, NEW x \in Solves, NEW y \in Solves
              PROVE  ~OnPath(w, x) /\ ~Ahead(w, x, y)
  BY DEF PathOrder
<1>1. outbuf = <<>> /\ inbox[w] = <<>> /\ history = <<>> /\ current[w] = NoEvent /\ x # NoEvent
  BY DEF Init, Events
<1>. QED
  BY <1>1, EmptyFacts, EmptyOrder DEF OnPath, Held, Ahead, Waiting

\* Every step of the system does.
LEMMA OrderNext ==
    ASSUME TypeOK, PathOrder, [Next]_vars
    PROVE  PathOrder'
<1>. USE DEF webVars, connVars, workerVars, storeVars, faultVars
<1>1. ASSUME NEW r \in Solves, SolveStep(r) PROVE PathOrder'
  <2>1. CASE PublishProblemSolved(r)
    BY <2>1, PublishKeepsOrder
  <2>2. CASE AcceptSolve(r) \/ RefuseSolve(r) \/ SpawnPublisher(r) \/ AnswerSolve(r) \/ PublishFails(r)
    BY <2>2, DrainKeepsOrder DEF AcceptSolve, RefuseSolve, SpawnPublisher, AnswerSolve,
                                 PublishFails, Drains
  <2>. QED
    BY <1>1, <2>1, <2>2 DEF SolveStep
<1>2. ASSUME NEW w \in Workers, HandlerStep(w) PROVE PathOrder'
  <2>1. CASE Discard(w) \/ CreateHistoryItemFails(w)
    BY <2>1, DrainKeepsOrder DEF Discard, CreateHistoryItemFails, Drains, TypeOK
  <2>. QED
    BY <1>2, <2>1, TakeKeepsOrder, InsertKeepsOrder DEF HandlerStep
<1>3. ASSUME NEW w \in Workers, WorkerStep(w) PROVE PathOrder'
  <2>1. CASE WorkerReconnects(w) \/ WorkerStarts(w)
    BY <2>1, DrainKeepsOrder DEF WorkerReconnects, WorkerStarts, Drains
  <2>2. CASE WorkerStops(w)
    <3>1. \A v \in Workers : inbox'[v] \in {inbox[v], <<>>}
      BY <2>2 DEF WorkerStops, TypeOK
    <3>2. \A v \in Workers : /\ Range(inbox'[v]) \subseteq Range(inbox[v])
                             /\ \A x, y : InOrder(inbox'[v], x, y) => InOrder(inbox[v], x, y)
      BY <3>1, EmptyFacts, EmptyOrder
    <3>. QED
      BY <2>2, <3>2, DrainKeepsOrder DEF WorkerStops, Drains
  <2>3. CASE WorkerExits(w) \/ WorkerCrashes(w)
    BY <2>3, DeathDrains, DrainKeepsOrder DEF WorkerExits, WorkerCrashes
  <2>. QED
    BY <1>3, <2>1, <2>2, <2>3 DEF WorkerStep
<1>4. ASSUME NEW j \in Foreign, ForeignPublish(j) PROVE PathOrder'
  BY <1>4, ForeignKeepsOrder
<1>5. ASSUME WebStep PROVE PathOrder'
  <2>1. CASE Flush
    BY <2>1, FlushKeepsOrder
  <2>2. CASE WebReconnects \/ WebStops \/ WebStarts
    BY <2>2, DrainKeepsOrder DEF WebReconnects, WebStops, WebStarts, Drains
  <2>3. CASE WebGivesUp
    BY <2>3, EmptyFacts, EmptyOrder, DrainKeepsOrder DEF WebGivesUp, Drains
  <2>4. CASE WebExits \/ WebCrashes
    BY <2>4, DeathDrains, DrainKeepsOrder DEF WebExits, WebCrashes
  <2>. QED
    BY <1>5, <2>1, <2>2, <2>3, <2>4 DEF WebStep
<1>6. CASE NatsFails
  BY <1>6, OutageDrains, DrainKeepsOrder
<1>7. CASE NatsRecovers \/ DbFails \/ DbRecovers \/ UNCHANGED vars
  BY <1>7, DrainKeepsOrder DEF NatsRecovers, DbFails, DbRecovers, vars, Drains
<1>. QED
  BY <1>1, <1>2, <1>3, <1>4, <1>5, <1>6, <1>7 DEF Next, ServerStep

-----------------------------------------------------------------------------

\* A worker's rows are in the order of the publishes: what ImplementsLedger does not
\* say, and what one handler per subscription and one connection are for.
THEOREM PublishOrderKeptCorrect == Spec => []PublishOrderKept
<1>1. TypeOK /\ PathOrder => PublishOrderKept
  <2>. SUFFICES ASSUME TypeOK, PathOrder,
                       NEW i \in DOMAIN history, NEW j \in DOMAIN history,
                       i < j, history[i][2] = history[j][2]
                PROVE  InOrder(published, history[i][1], history[j][1])
    BY DEF PublishOrderKept, InOrder
  <2>1. history[i] \in Solves \X Workers /\ history[j] \in Solves \X Workers
    BY LenProperties DEF TypeOK
  <2>2. PICK x \in Solves, y \in Solves, w \in Workers :
           history[i] = <<x, w>> /\ history[j] = <<y, w>>
    BY <2>1
  <2>3. Ahead(w, x, y)
    BY <2>2 DEF InOrder, Ahead
  <2>. QED
    BY <2>2, <2>3 DEF PathOrder
<1>. QED
  BY <1>1, TypeCorrect, OrderInit, OrderNext, PTL DEF Spec

=============================================================================
