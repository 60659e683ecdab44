------------------------------ MODULE EventPipelineProofs ------------------------------
(***************************************************************************)
(* Proofs about EventPipeline for every set of solves, foreign payloads    *)
(* and workers, every limit, and any number and kind of incidents.         *)
(***************************************************************************)
EXTENDS EventPipeline, DataLemmas

USE EventAssumption, LimitAssumption

-----------------------------------------------------------------------------
(* Type correctness *)

\* Routing an event keeps every queue a sequence of events.
LEMMA FanOutType ==
    ASSUME TypeOK, NEW e \in Events, FanOut(e)
    PROVE  /\ inbox' \in [Workers -> Seq(Events)]
           /\ dropped' \subseteq Events \X Workers
<1>1. \A w \in Workers : Append(inbox[w], e) \in Seq(Events)
  BY AppendFacts DEF TypeOK
<1>. QED
  BY <1>1 DEF TypeOK, FanOut

\* An outage leaves part of each queue.
LEMMA OutageType ==
    ASSUME TypeOK, NatsFails
    PROVE  outbuf' \in Seq(Solves) /\ inbox' \in [Workers -> Seq(Events)]
<1>1. outbuf' \in Seq(Solves)
  <2>1. PICK lost \in 0..Len(outbuf) : outbuf' = SubSeq(outbuf, lost + 1, Len(outbuf))
    BY DEF NatsFails
  <2>2. Len(outbuf) \in Nat
    BY LenProperties DEF TypeOK
  <2>. QED
    BY <2>1, <2>2, SubSeqFacts DEF TypeOK
<1>2. inbox' \in [Workers -> Seq(Events)]
  <2>1. PICK kept \in [Workers -> 0..PendingLimit] :
           /\ \A w \in Workers : kept[w] <= Len(inbox[w])
           /\ inbox' = [w \in Workers |-> SubSeq(inbox[w], 1, kept[w])]
    BY DEF NatsFails
  <2>2. \A w \in Workers : inbox[w] \in Seq(Events) /\ Len(inbox[w]) \in Nat
    BY LenProperties DEF TypeOK
  <2>3. ASSUME NEW w \in Workers PROVE SubSeq(inbox[w], 1, kept[w]) \in Seq(Events)
    <3>1. kept[w] \in 0..Len(inbox[w]) /\ 1 \in 1..Len(inbox[w])+1
      BY <2>1, <2>2
    <3>. QED
      BY <3>1, <2>2, SubSeqFacts
  <2>. QED
    BY <2>1, <2>3
<1>. QED
  BY <1>1, <1>2

LEMMA TypeInit == Init => TypeOK
<1>. SUFFICES ASSUME Init PROVE TypeOK
  OBVIOUS
<1>1. <<>> \in Seq(Solves) /\ <<>> \in Seq(Events) /\ <<>> \in Seq(Solves \X Workers)
  BY EmptyFacts
<1>. QED
  BY <1>1 DEF Init, TypeOK, Events

\* Every step of the web-server's requests and goroutines is well typed.
LEMMA TypeSolveStep ==
    ASSUME TypeOK, NEW r \in Solves, SolveStep(r)
    PROVE  TypeOK'
<1>. USE DEF TypeOK, webVars, connVars, workerVars, storeVars, faultVars
<1>1. CASE AcceptSolve(r) BY <1>1 DEF AcceptSolve
<1>2. CASE RefuseSolve(r) BY <1>2 DEF RefuseSolve
<1>3. CASE SpawnPublisher(r) BY <1>3 DEF SpawnPublisher, Events
<1>4. CASE AnswerSolve(r) BY <1>4 DEF AnswerSolve
<1>5. CASE PublishProblemSolved(r)
  <2>1. Append(outbuf, r) \in Seq(Solves) /\ Append(published, r) \in Seq(Solves)
    BY AppendFacts
  <2>. QED
    BY <1>5, <2>1 DEF PublishProblemSolved, Events
<1>6. CASE PublishFails(r) BY <1>6 DEF PublishFails, Events
<1>. QED
  BY <1>1, <1>2, <1>3, <1>4, <1>5, <1>6 DEF SolveStep

\* Every step of a worker's handler is well typed.
LEMMA TypeHandlerStep ==
    ASSUME TypeOK, NEW w \in Workers, HandlerStep(w)
    PROVE  TypeOK'
<1>. USE DEF TypeOK, webVars, connVars, workerVars, storeVars, faultVars
<1>1. CASE Take(w)
  <2>1. Head(inbox[w]) \in Events /\ Tail(inbox[w]) \in Seq(Events)
    BY <1>1, TailFacts DEF Take
  <2>. QED
    BY <1>1, <2>1 DEF Take
<1>2. CASE Discard(w) BY <1>2 DEF Discard
<1>3. CASE CreateHistoryItem(w)
  <2>1. Append(history, <<current[w], w>>) \in Seq(Solves \X Workers)
    BY <1>3, AppendFacts DEF CreateHistoryItem
  <2>. QED
    BY <1>3, <2>1 DEF CreateHistoryItem
<1>4. CASE CreateHistoryItemFails(w) BY <1>4 DEF CreateHistoryItemFails
<1>. QED
  BY <1>1, <1>2, <1>3, <1>4 DEF HandlerStep

\* Every stop, crash, start or reconnect of a worker is well typed.
LEMMA TypeWorkerStep ==
    ASSUME TypeOK, NEW w \in Workers, WorkerStep(w)
    PROVE  TypeOK'
<1>. USE DEF TypeOK, webVars, connVars, storeVars, faultVars, Incident
<1>0. <<>> \in Seq(Events)
  BY EmptyFacts
<1>1. CASE WorkerReconnects(w) BY <1>1 DEF WorkerReconnects
<1>2. CASE WorkerStops(w) BY <1>0, <1>2 DEF WorkerStops
<1>3. CASE WorkerExits(w) BY <1>0, <1>3 DEF WorkerExits, WorkerDies
<1>4. CASE WorkerCrashes(w) BY <1>0, <1>4 DEF WorkerCrashes, WorkerDies
<1>5. CASE WorkerStarts(w) BY <1>5 DEF WorkerStarts
<1>. QED
  BY <1>1, <1>2, <1>3, <1>4, <1>5 DEF WorkerStep

\* The end of the process leaves its variables well typed.
LEMMA WebDiesType ==
    ASSUME TypeOK, WebDies
    PROVE  /\ web' \in {"up", "draining", "down"}
           /\ request' \in [Solves -> {"idle", "handling", "responding", "done", "refused", "cut"}]
           /\ publisher' \in [Events -> {"none", "ready", "done", "killed"}]
           /\ conn' \in {"connected", "reconnecting", "closed"}
           /\ outbuf' \in Seq(Solves)
<1>1. request' \in [Solves -> {"idle", "handling", "responding", "done", "refused", "cut"}]
  BY DEF TypeOK, WebDies
<1>2. publisher' \in [Events -> {"none", "ready", "done", "killed"}]
  BY DEF TypeOK, WebDies
<1>3. outbuf' \in Seq(Solves)
  BY EmptyFacts DEF WebDies
<1>. QED
  BY <1>1, <1>2, <1>3 DEF WebDies

\* Every step of the web-server's connection or process is well typed.
LEMMA TypeWebStep ==
    ASSUME TypeOK, WebStep
    PROVE  TypeOK'
<1>a. WebDies => /\ web' \in {"up", "draining", "down"}
                 /\ request' \in [Solves -> {"idle", "handling", "responding", "done", "refused", "cut"}]
                 /\ publisher' \in [Events -> {"none", "ready", "done", "killed"}]
                 /\ conn' \in {"connected", "reconnecting", "closed"}
                 /\ outbuf' \in Seq(Solves)
  BY WebDiesType
<1>. USE DEF TypeOK, webVars, connVars, workerVars, storeVars, faultVars, Incident
<1>0. <<>> \in Seq(Solves)
  BY EmptyFacts
<1>1. CASE Flush
  <2>1. Head(outbuf) \in Events /\ Tail(outbuf) \in Seq(Solves)
    BY <1>1, TailFacts DEF Flush, Events
  <2>2. /\ inbox' \in [Workers -> Seq(Events)]
        /\ dropped' \subseteq Events \X Workers
    BY <1>1, <2>1, FanOutType DEF Flush
  <2>. QED
    BY <1>1, <2>1, <2>2 DEF Flush
<1>2. CASE WebReconnects BY <1>2 DEF WebReconnects
<1>3. CASE WebGivesUp BY <1>0, <1>3 DEF WebGivesUp
<1>4. CASE WebStops BY <1>4 DEF WebStops
<1>5. CASE WebExits BY <1>5, <1>a DEF WebExits
<1>6. CASE WebCrashes BY <1>6, <1>a DEF WebCrashes
<1>7. CASE WebStarts BY <1>7 DEF WebStarts
<1>. QED
  BY <1>1, <1>2, <1>3, <1>4, <1>5, <1>6, <1>7 DEF WebStep

\* Every step of the system is well typed.
LEMMA TypeNext ==
    ASSUME TypeOK, [Next]_vars
    PROVE  TypeOK'
<1>a. \A k : Incident(k) => incidents' \in 0..MaxIncidents
  BY DEF TypeOK, Incident
<1>b. NatsFails => outbuf' \in Seq(Solves) /\ inbox' \in [Workers -> Seq(Events)]
  BY OutageType
<1>. USE DEF TypeOK, webVars, connVars, workerVars, storeVars, faultVars
<1>1. CASE \E r \in Solves : SolveStep(r)
  BY <1>1, TypeSolveStep
<1>2. CASE \E w \in Workers : HandlerStep(w) \/ WorkerStep(w)
  BY <1>2, TypeHandlerStep, TypeWorkerStep
<1>3. ASSUME NEW j \in Foreign, ForeignPublish(j) PROVE TypeOK'
  <2>1. /\ inbox' \in [Workers -> Seq(Events)]
        /\ dropped' \subseteq Events \X Workers
    BY <1>3, FanOutType DEF ForeignPublish, Events
  <2>. QED
    BY <1>3, <2>1 DEF ForeignPublish, Events
<1>4. CASE WebStep
  BY <1>4, TypeWebStep
<1>5. CASE NatsFails
  <2>1. /\ outbuf' \in Seq(Solves)
        /\ inbox' \in [Workers -> Seq(Events)]
        /\ incidents' \in 0..MaxIncidents
    BY <1>5, <1>a, <1>b DEF NatsFails
  <2>2. worker' \in [Workers -> {"subscribed", "reconnecting", "closing", "down"}]
    BY <1>5 DEF NatsFails
  <2>. QED
    BY <1>5, <2>1, <2>2, Zenon DEF NatsFails
<1>6. CASE NatsRecovers BY <1>6 DEF NatsRecovers
<1>7. CASE DbFails
  <2>1. incidents' \in 0..MaxIncidents
    BY <1>7, <1>a DEF DbFails
  <2>. QED
    BY <1>7, <2>1, Zenon DEF DbFails
<1>8. CASE DbRecovers BY <1>8 DEF DbRecovers
<1>9. CASE UNCHANGED vars BY <1>9 DEF vars
<1>. QED
  BY <1>1, <1>2, <1>3, <1>4, <1>5, <1>6, <1>7, <1>8, <1>9 DEF Next, ServerStep

\* Every variable keeps its type in every behaviour.
THEOREM TypeCorrect == Spec => []TypeOK
  BY TypeInit, TypeNext, PTL DEF Spec

-----------------------------------------------------------------------------
(* Every event is in one place *)

IInv == TypeOK /\ OnePlace

\* A step that only takes events out of their places keeps them in one place.
Shrinks ==
    /\ history' = history
    /\ IsInjective(outbuf') /\ Range(outbuf') \subseteq Range(outbuf)
    /\ \A w \in Workers : /\ IsInjective(inbox'[w])
                          /\ Range(inbox'[w]) \subseteq Range(inbox[w])
                          /\ current'[w] \in {current[w], NoEvent}
    /\ \A e \in Events : \/ publisher'[e] = publisher[e]
                         \/ publisher[e] = "ready" /\ publisher'[e] \in {"done", "killed"}
    /\ \A r \in Solves : request'[r] \in {"idle", "handling"} =>
                            request[r] \in {"idle", "handling"}

LEMMA ShrinkKeepsPlace ==
    ASSUME IInv, Shrinks
    PROVE  OnePlace'
<1>. USE DEF IInv, OnePlace, Shrinks
<1>1. \A w \in Workers, e \in Events : Held(e, w)' => Held(e, w)
  BY DEF Held, Events
<1>2. \A e \in Events : /\ Unrouted(e)' => Unrouted(e)
                        /\ Live(e)' => Live(e)
                        /\ Recorded(e)' <=> Recorded(e)
  BY <1>1 DEF Unrouted, Live, Recorded
<1>3. \A e \in Events : /\ publisher'[e] = "ready" => publisher[e] = "ready"
                        /\ publisher'[e] = "none" <=> publisher[e] = "none"
  OBVIOUS
<1>4. \A r \in Solves : request'[r] \in {"idle", "handling"} => publisher'[r] = "none"
  BY <1>3 DEF Events
<1>5. ASSUME NEW e \in Events
      PROVE  /\ publisher'[e] = "ready" => e \notin Range(outbuf')
             /\ publisher'[e] = "none" => ~Live(e)' /\ ~Recorded(e)'
             /\ Unrouted(e)' => \A w \in Workers : ~Held(e, w)' /\ <<e, w>> \notin Range(history')
  BY <1>1, <1>2, <1>3
<1>6. ASSUME NEW w \in Workers
      PROVE  /\ IsInjective(inbox'[w])
             /\ current'[w] \notin Range(inbox'[w])
             /\ \A e \in Events : Held(e, w)' => <<e, w>> \notin Range(history')
  <2>1. NoEvent \notin Range(inbox[w])
    <3>1. inbox[w] \in Seq(Events)
      BY DEF TypeOK
    <3>2. Range(inbox[w]) \subseteq Events
      BY <3>1, LenProperties DEF Range
    <3>. QED
      BY <3>2
  <2>. QED
    BY <1>1, <2>1
<1>. QED
  BY <1>4, <1>5, <1>6

\* Routing an event no worker has yet leaves it in one place: the queues.
LEMMA FanOutPlaces ==
    ASSUME IInv, NEW e \in Events, FanOut(e),
           \A w \in Workers : ~Held(e, w) /\ <<e, w>> \notin Range(history)
    PROVE  \A w \in Workers : /\ IsInjective(inbox'[w])
                              /\ Range(inbox'[w]) \subseteq Range(inbox[w]) \cup {e}
                              /\ current[w] \notin Range(inbox'[w])
<1>. TAKE w \in Workers
<1>1. inbox[w] \in Seq(Events) /\ inbox'[w] \in {inbox[w], Append(inbox[w], e)}
  BY DEF IInv, TypeOK, FanOut
<1>2. e \notin Range(inbox[w]) /\ current[w] # e /\ IsInjective(inbox[w])
      /\ current[w] \notin Range(inbox[w])
  BY DEF Held, IInv, OnePlace
<1>3. CASE inbox'[w] = inbox[w]
  BY <1>2, <1>3
<1>4. CASE inbox'[w] = Append(inbox[w], e)
  <2>1. /\ Range(Append(inbox[w], e)) = Range(inbox[w]) \cup {e}
        /\ IsInjective(Append(inbox[w], e))
    BY <1>1, <1>2, AppendFacts
  <2>. QED
    BY <1>2, <1>4, <2>1
<1>. QED
  BY <1>1, <1>3, <1>4

\* Routing the event e, no longer in the buffer or its goroutine, keeps OnePlace.
LEMMA RoutingKeepsPlace ==
    ASSUME IInv, NEW e \in Events, FanOut(e), Unrouted(e), ~Unrouted(e)',
           publisher'[e] \notin {"none", "ready"},
           \A d \in Events : d # e => (Unrouted(d)' <=> Unrouted(d)) /\ publisher'[d] = publisher[d],
           IsInjective(outbuf'), Range(outbuf') \subseteq Range(outbuf),
           UNCHANGED <<request, current, history>>,
           \A r \in Solves : request[r] \in {"idle", "handling"} => r # e
    PROVE  OnePlace'
<1>1. \A w \in Workers : ~Held(e, w) /\ <<e, w>> \notin Range(history)
  BY DEF IInv, OnePlace
<1>2. \A w \in Workers : /\ IsInjective(inbox'[w])
                         /\ Range(inbox'[w]) \subseteq Range(inbox[w]) \cup {e}
                         /\ current[w] \notin Range(inbox'[w])
  BY <1>1, FanOutPlaces
<1>3. \A w \in Workers, d \in Events : d # e => (Held(d, w)' => Held(d, w))
  BY <1>2 DEF Held
<1>4. \A d \in Events : d # e => (Live(d)' => Live(d)) /\ (Recorded(d)' <=> Recorded(d))
  BY <1>3 DEF Live, Recorded
<1>5. \A r \in Solves : request'[r] \in {"idle", "handling"} => publisher'[r] = "none"
  BY DEF IInv, OnePlace, Events
<1>6. ASSUME NEW d \in Events
      PROVE  /\ publisher'[d] = "ready" => d \notin Range(outbuf')
             /\ publisher'[d] = "none" => ~Live(d)' /\ ~Recorded(d)'
             /\ Unrouted(d)' => \A w \in Workers : ~Held(d, w)' /\ <<d, w>> \notin Range(history')
  <2>1. CASE d = e
    BY <2>1
  <2>2. CASE d # e
    BY <2>2, <1>3, <1>4 DEF IInv, OnePlace
  <2>. QED
    BY <2>1, <2>2
<1>7. ASSUME NEW w \in Workers
      PROVE  /\ IsInjective(inbox'[w])
             /\ current'[w] \notin Range(inbox'[w])
             /\ \A d \in Events : Held(d, w)' => <<d, w>> \notin Range(history')
  BY <1>1, <1>2, <1>3 DEF IInv, OnePlace
<1>. QED
  BY <1>5, <1>6, <1>7 DEF OnePlace

LEMMA PlaceInit == Init => OnePlace
<1>. SUFFICES ASSUME Init PROVE OnePlace
  OBVIOUS
<1>1. \A e \in Events, w \in Workers : ~Held(e, w) /\ <<e, w>> \notin Range(history)
  BY EmptyFacts DEF Init, Held
<1>2. \A e \in Events : e \notin Range(outbuf)
  BY EmptyFacts DEF Init
<1>3. \A e \in Events : publisher[e] = "none" => ~Live(e) /\ ~Recorded(e)
  BY <1>1, <1>2 DEF Live, Recorded, Unrouted
<1>4. \A r \in Solves : publisher[r] = "none"
  BY DEF Init, Events
<1>5. \A w \in Workers : IsInjective(inbox[w]) /\ current[w] \notin Range(inbox[w])
  BY EmptyFacts DEF Init
<1>6. IsInjective(outbuf)
  BY EmptyFacts DEF Init
<1>. QED
  BY <1>1, <1>2, <1>3, <1>4, <1>5, <1>6 DEF OnePlace

\* The end of either process takes events out of their places.
LEMMA DeathShrinks ==
    ASSUME IInv
    PROVE  /\ WebDies /\ UNCHANGED <<inbox, current, history>> => Shrinks
           /\ \A w \in Workers : WorkerDies(w) /\ UNCHANGED <<request, publisher, outbuf, history>>
                                    => Shrinks
<1>1. ASSUME WebDies, UNCHANGED <<inbox, current, history>>
      PROVE  Shrinks
  <2>1. /\ \A e \in Events : \/ publisher'[e] = publisher[e]
                             \/ publisher[e] = "ready" /\ publisher'[e] \in {"done", "killed"}
        /\ \A r \in Solves : request'[r] \in {"idle", "handling"} =>
                               request[r] \in {"idle", "handling"}
    BY <1>1 DEF WebDies
  <2>2. IsInjective(outbuf') /\ Range(outbuf') = {}
    BY <1>1, EmptyFacts DEF WebDies
  <2>. QED
    BY <1>1, <2>1, <2>2 DEF Shrinks, IInv, OnePlace
<1>2. ASSUME NEW w \in Workers, WorkerDies(w), UNCHANGED <<request, publisher, outbuf, history>>
      PROVE  Shrinks
  <2>1. \A v \in Workers : /\ inbox'[v] \in {inbox[v], <<>>}
                           /\ current'[v] \in {current[v], NoEvent}
    BY <1>2 DEF WorkerDies, IInv, TypeOK
  <2>2. \A v \in Workers : IsInjective(inbox'[v]) /\ Range(inbox'[v]) \subseteq Range(inbox[v])
    BY <2>1, EmptyFacts DEF IInv, OnePlace
  <2>. QED
    BY <1>2, <2>1, <2>2 DEF Shrinks, IInv, OnePlace
<1>. QED
  BY <1>1, <1>2

\* So does an outage of NATS.
LEMMA OutageShrinks ==
    ASSUME IInv, NatsFails
    PROVE  Shrinks
<1>1. IsInjective(outbuf') /\ Range(outbuf') \subseteq Range(outbuf)
  <2>1. PICK lost \in 0..Len(outbuf) : outbuf' = SubSeq(outbuf, lost + 1, Len(outbuf))
    BY DEF NatsFails
  <2>2. Len(outbuf) \in Nat /\ outbuf \in Seq(Solves)
    BY LenProperties DEF IInv, TypeOK
  <2>3. lost + 1 \in 1..Len(outbuf)+1 /\ Len(outbuf) \in 0..Len(outbuf)
    BY <2>1, <2>2
  <2>. QED
    BY <2>1, <2>2, <2>3, SubSeqFacts DEF IInv, OnePlace
<1>2. ASSUME NEW w \in Workers
      PROVE  IsInjective(inbox'[w]) /\ Range(inbox'[w]) \subseteq Range(inbox[w])
  <2>1. PICK kept \in [Workers -> 0..PendingLimit] :
           /\ \A v \in Workers : kept[v] <= Len(inbox[v])
           /\ inbox' = [v \in Workers |-> SubSeq(inbox[v], 1, kept[v])]
    BY DEF NatsFails
  <2>2. inbox[w] \in Seq(Events) /\ Len(inbox[w]) \in Nat
    BY LenProperties DEF IInv, TypeOK
  <2>3. kept[w] \in 0..Len(inbox[w]) /\ 1 \in 1..Len(inbox[w])+1
    BY <2>1, <2>2
  <2>. QED
    BY <2>1, <2>2, <2>3, SubSeqFacts DEF IInv, OnePlace
<1>. QED
  BY <1>1, <1>2 DEF NatsFails, webVars, storeVars, Shrinks

LEMMA PlaceSolveStep ==
    ASSUME IInv, NEW r \in Solves, SolveStep(r)
    PROVE  OnePlace'
<1>. USE DEF webVars, connVars, workerVars, storeVars, faultVars
<1>0. r \in Events
  BY DEF Events
<1>1. CASE AcceptSolve(r)
  BY <1>1, ShrinkKeepsPlace DEF AcceptSolve, Shrinks, IInv, TypeOK, OnePlace
<1>2. CASE RefuseSolve(r)
  BY <1>2, ShrinkKeepsPlace DEF RefuseSolve, Shrinks, IInv, TypeOK, OnePlace
<1>3. CASE SpawnPublisher(r)
  <2>1. publisher[r] = "none" /\ ~Live(r) /\ ~Recorded(r)
    BY <1>0, <1>3 DEF SpawnPublisher, IInv, OnePlace
  <2>2. /\ UNCHANGED <<outbuf, inbox, current, history>>
        /\ \A e \in Events : e # r => publisher'[e] = publisher[e]
        /\ publisher'[r] = "ready"
        /\ \A q \in Solves : request'[q] \in {"idle", "handling"} =>
                               q # r /\ request[q] \in {"idle", "handling"}
    BY <1>0, <1>3 DEF SpawnPublisher, IInv, TypeOK
  <2>3. \A e \in Events, w \in Workers : Held(e, w)' <=> Held(e, w)
    BY <2>2 DEF Held
  <2>4. \A e \in Events : e # r => (Unrouted(e)' <=> Unrouted(e)) /\ (Live(e)' <=> Live(e))
    BY <2>2, <2>3 DEF Unrouted, Live
  <2>5. \A e \in Events : Recorded(e)' <=> Recorded(e)
    BY <2>2 DEF Recorded
  <2>6. r \notin Range(outbuf) /\ \A w \in Workers : ~Held(r, w) /\ <<r, w>> \notin Range(history)
    BY <2>1 DEF Live, Unrouted, Recorded
  <2>7. \A e \in Events :
          /\ publisher'[e] = "ready" => e \notin Range(outbuf')
          /\ publisher'[e] = "none" => ~Live(e)' /\ ~Recorded(e)'
          /\ Unrouted(e)' => \A w \in Workers : ~Held(e, w)' /\ <<e, w>> \notin Range(history')
    BY <2>2, <2>3, <2>4, <2>5, <2>6 DEF IInv, OnePlace
  <2>8. \A q \in Solves : request'[q] \in {"idle", "handling"} => publisher'[q] = "none"
    BY <2>2 DEF IInv, OnePlace, Events
  <2>. QED
    BY <2>2, <2>3, <2>7, <2>8 DEF IInv, OnePlace
<1>4. CASE AnswerSolve(r)
  BY <1>4, ShrinkKeepsPlace DEF AnswerSolve, Shrinks, IInv, TypeOK, OnePlace
<1>5. CASE PublishProblemSolved(r)
  <2>1. /\ publisher[r] = "ready" /\ r \notin Range(outbuf)
        /\ UNCHANGED <<request, inbox, current, history>>
        /\ \A e \in Events : e # r => publisher'[e] = publisher[e]
        /\ publisher'[r] = "done"
    BY <1>0, <1>5 DEF PublishProblemSolved, IInv, TypeOK, OnePlace
  <2>2. Range(outbuf') = Range(outbuf) \cup {r} /\ IsInjective(outbuf')
    BY <1>5, <2>1, AppendFacts DEF PublishProblemSolved, IInv, TypeOK, OnePlace
  <2>3. \A e \in Events, w \in Workers : Held(e, w)' <=> Held(e, w)
    BY <2>1 DEF Held
  <2>4. \A e \in Events : /\ Unrouted(e)' <=> Unrouted(e)
                          /\ Live(e)' <=> Live(e)
                          /\ Recorded(e)' <=> Recorded(e)
    BY <2>1, <2>2, <2>3 DEF Unrouted, Live, Recorded
  <2>5. \A e \in Events :
          /\ publisher'[e] = "ready" => e \notin Range(outbuf')
          /\ publisher'[e] = "none" => ~Live(e)' /\ ~Recorded(e)'
          /\ Unrouted(e)' => \A w \in Workers : ~Held(e, w)' /\ <<e, w>> \notin Range(history')
    BY <2>1, <2>2, <2>3, <2>4 DEF IInv, OnePlace
  <2>6. \A q \in Solves : request'[q] \in {"idle", "handling"} => publisher'[q] = "none"
    BY <2>1 DEF IInv, OnePlace, Events
  <2>. QED
    BY <2>1, <2>2, <2>3, <2>5, <2>6 DEF IInv, OnePlace
<1>6. CASE PublishFails(r)
  BY <1>0, <1>6, ShrinkKeepsPlace DEF PublishFails, Shrinks, IInv, TypeOK, OnePlace
<1>. QED
  BY <1>1, <1>2, <1>3, <1>4, <1>5, <1>6 DEF SolveStep

LEMMA PlaceHandlerStep ==
    ASSUME IInv, NEW w \in Workers, HandlerStep(w)
    PROVE  OnePlace'
<1>. USE DEF webVars, connVars, workerVars, storeVars, faultVars
<1>1. CASE Take(w)
  <2>1. /\ UNCHANGED <<request, publisher, outbuf, history>>
        /\ current[w] = NoEvent
        /\ current'[w] = Head(inbox[w])
        /\ inbox'[w] = Tail(inbox[w])
        /\ \A v \in Workers : v # w => current'[v] = current[v] /\ inbox'[v] = inbox[v]
    BY <1>1 DEF Take, IInv, TypeOK
  <2>2. /\ Range(inbox[w]) = {current'[w]} \cup Range(inbox'[w])
        /\ IsInjective(inbox'[w]) /\ current'[w] \notin Range(inbox'[w])
    BY <1>1, <2>1, TailFacts DEF Take, IInv, TypeOK, OnePlace
  <2>3. \A e \in Events, v \in Workers : Held(e, v)' => Held(e, v)
    BY <2>1, <2>2 DEF Held
  <2>4. \A e \in Events : /\ Unrouted(e)' <=> Unrouted(e)
                          /\ Live(e)' => Live(e)
                          /\ Recorded(e)' <=> Recorded(e)
    BY <2>1, <2>3 DEF Unrouted, Live, Recorded
  <2>. QED
    BY <2>1, <2>2, <2>3, <2>4 DEF IInv, OnePlace
<1>2. CASE Discard(w)
  BY <1>2, ShrinkKeepsPlace DEF Discard, Shrinks, IInv, TypeOK, OnePlace
<1>3. CASE CreateHistoryItem(w)
  <2>1. /\ UNCHANGED <<request, publisher, outbuf, inbox>>
        /\ current[w] \in Solves
        /\ current'[w] = NoEvent
        /\ \A v \in Workers : v # w => current'[v] = current[v]
        /\ history' = Append(history, <<current[w], w>>)
    BY <1>3 DEF CreateHistoryItem, IInv, TypeOK
  <2>2. Range(history') = Range(history) \cup {<<current[w], w>>}
    <3>1. history \in Seq(Solves \X Workers) /\ <<current[w], w>> \in Solves \X Workers
      BY <2>1 DEF IInv, TypeOK
    <3>2. PICK row \in Solves \X Workers : row = <<current[w], w>>
      BY <3>1
    <3>3. Range(Append(history, row)) = Range(history) \cup {row}
      BY <3>1, <3>2, AppendFacts
    <3>. QED
      BY <2>1, <3>2, <3>3
  <2>3. Held(current[w], w) /\ current[w] \in Events
    BY <2>1 DEF Held, Events
  <2>4. \A e \in Events, v \in Workers : Held(e, v)' => Held(e, v) /\ <<e, v>> # <<current[w], w>>
    BY <2>1 DEF Held, IInv, OnePlace, Events
  <2>5. NoEvent \notin Range(inbox[w])
    <3>1. inbox[w] \in Seq(Events)
      BY DEF IInv, TypeOK
    <3>2. Range(inbox[w]) \subseteq Events
      BY <3>1, LenProperties DEF Range
    <3>. QED
      BY <3>2
  <2>6. ~Unrouted(current[w]) /\ publisher[current[w]] # "none"
    BY <2>3 DEF IInv, OnePlace, Live
  <2>7. \A e \in Events : /\ Unrouted(e)' <=> Unrouted(e)
                          /\ Live(e)' => Live(e)
                          /\ e # current[w] => (Recorded(e)' => Recorded(e))
    BY <2>1, <2>2, <2>4 DEF Unrouted, Live, Recorded
  <2>8. \A e \in Events :
          /\ publisher'[e] = "ready" => e \notin Range(outbuf')
          /\ publisher'[e] = "none" => ~Live(e)' /\ ~Recorded(e)'
          /\ Unrouted(e)' => \A v \in Workers : ~Held(e, v)' /\ <<e, v>> \notin Range(history')
    BY <2>1, <2>2, <2>4, <2>6, <2>7 DEF IInv, OnePlace
  <2>9. \A v \in Workers :
          /\ IsInjective(inbox'[v])
          /\ current'[v] \notin Range(inbox'[v])
          /\ \A e \in Events : Held(e, v)' => <<e, v>> \notin Range(history')
    BY <2>1, <2>2, <2>4, <2>5 DEF IInv, OnePlace
  <2>. QED
    BY <2>1, <2>8, <2>9 DEF IInv, OnePlace
<1>4. CASE CreateHistoryItemFails(w)
  BY <1>4, ShrinkKeepsPlace DEF CreateHistoryItemFails, Shrinks, IInv, TypeOK, OnePlace
<1>. QED
  BY <1>1, <1>2, <1>3, <1>4 DEF HandlerStep

LEMMA PlaceWorkerStep ==
    ASSUME IInv, NEW w \in Workers, WorkerStep(w)
    PROVE  OnePlace'
<1>. USE DEF webVars, connVars, workerVars, storeVars, faultVars
<1>1. CASE WorkerReconnects(w)
  BY <1>1, ShrinkKeepsPlace DEF WorkerReconnects, Shrinks, IInv, OnePlace
<1>2. CASE WorkerStops(w)
  <2>1. \A v \in Workers : inbox'[v] \in {inbox[v], <<>>}
    BY <1>2 DEF WorkerStops, IInv, TypeOK
  <2>2. \A v \in Workers : IsInjective(inbox'[v]) /\ Range(inbox'[v]) \subseteq Range(inbox[v])
    BY <2>1, EmptyFacts DEF IInv, OnePlace
  <2>. QED
    BY <1>2, <2>2, ShrinkKeepsPlace DEF WorkerStops, Shrinks, IInv, OnePlace
<1>3. CASE WorkerExits(w)
  BY <1>3, DeathShrinks, ShrinkKeepsPlace DEF WorkerExits
<1>4. CASE WorkerCrashes(w)
  BY <1>4, DeathShrinks, ShrinkKeepsPlace DEF WorkerCrashes
<1>5. CASE WorkerStarts(w)
  BY <1>5, ShrinkKeepsPlace DEF WorkerStarts, Shrinks, IInv, OnePlace
<1>. QED
  BY <1>1, <1>2, <1>3, <1>4, <1>5 DEF WorkerStep

LEMMA PlaceWebStep ==
    ASSUME IInv, WebStep
    PROVE  OnePlace'
<1>. USE DEF webVars, connVars, workerVars, storeVars, faultVars
<1>1. CASE Flush
  <2>0. /\ Head(outbuf) \in Solves
        /\ Range(outbuf) = {Head(outbuf)} \cup Range(outbuf')
        /\ IsInjective(outbuf') /\ Head(outbuf) \notin Range(outbuf')
    BY <1>1, TailFacts DEF Flush, IInv, TypeOK, OnePlace
  <2>. PICK e \in Solves : e = Head(outbuf)
    BY <2>0
  <2>1. /\ e \in Range(outbuf) /\ e \in Events
        /\ Range(outbuf) = {e} \cup Range(outbuf')
        /\ IsInjective(outbuf') /\ e \notin Range(outbuf')
    BY <2>0 DEF Events
  <2>2. /\ FanOut(e)
        /\ UNCHANGED <<request, publisher, current, history>>
    BY <1>1 DEF Flush
  <2>3. publisher[e] = "done" \/ publisher[e] = "killed"
    BY <2>1 DEF IInv, TypeOK, OnePlace, Unrouted, Live
  <2>4. Unrouted(e) /\ ~Unrouted(e)' /\ publisher'[e] \notin {"none", "ready"}
    BY <2>1, <2>2, <2>3 DEF Unrouted
  <2>5. \A d \in Events : d # e => (Unrouted(d)' <=> Unrouted(d)) /\ publisher'[d] = publisher[d]
    BY <2>1, <2>2 DEF Unrouted
  <2>6. \A r \in Solves : request[r] \in {"idle", "handling"} => r # e
    BY <2>3 DEF IInv, OnePlace
  <2>. QED
    BY <2>1, <2>2, <2>4, <2>5, <2>6, RoutingKeepsPlace
<1>2. CASE WebReconnects
  BY <1>2, ShrinkKeepsPlace DEF WebReconnects, Shrinks, IInv, OnePlace
<1>3. CASE WebGivesUp
  BY <1>3, EmptyFacts, ShrinkKeepsPlace DEF WebGivesUp, Shrinks, IInv, OnePlace
<1>4. CASE WebStops
  BY <1>4, ShrinkKeepsPlace DEF WebStops, Shrinks, IInv, OnePlace
<1>5. CASE WebExits
  BY <1>5, DeathShrinks, ShrinkKeepsPlace DEF WebExits
<1>6. CASE WebCrashes
  BY <1>6, DeathShrinks, ShrinkKeepsPlace DEF WebCrashes
<1>7. CASE WebStarts
  BY <1>7, ShrinkKeepsPlace DEF WebStarts, Shrinks, IInv, OnePlace
<1>. QED
  BY <1>1, <1>2, <1>3, <1>4, <1>5, <1>6, <1>7 DEF WebStep

LEMMA PlaceForeign ==
    ASSUME IInv, NEW j \in Foreign, ForeignPublish(j)
    PROVE  OnePlace'
<1>1. /\ j \in Events /\ j \notin Solves
      /\ publisher[j] = "ready" /\ publisher'[j] = "done"
      /\ \A d \in Events : d # j => publisher'[d] = publisher[d]
      /\ FanOut(j)
      /\ UNCHANGED <<request, outbuf, current, history>>
  BY DEF ForeignPublish, IInv, TypeOK, Events, connVars
<1>2. Unrouted(j) /\ ~Unrouted(j)' /\ \A d \in Events : d # j => (Unrouted(d)' <=> Unrouted(d))
  BY <1>1 DEF Unrouted, IInv, OnePlace
<1>. QED
  BY <1>1, <1>2, RoutingKeepsPlace DEF IInv, OnePlace

LEMMA PlaceNext ==
    ASSUME IInv, [Next]_vars
    PROVE  OnePlace'
<1>. USE DEF webVars, connVars, workerVars, storeVars
<1>1. CASE \E r \in Solves : SolveStep(r)
  BY <1>1, PlaceSolveStep
<1>2. CASE \E w \in Workers : HandlerStep(w) \/ WorkerStep(w)
  BY <1>2, PlaceHandlerStep, PlaceWorkerStep
<1>3. CASE \E j \in Foreign : ForeignPublish(j)
  BY <1>3, PlaceForeign
<1>4. CASE WebStep
  BY <1>4, PlaceWebStep
<1>5. CASE NatsFails
  BY <1>5, OutageShrinks, ShrinkKeepsPlace
<1>6. CASE NatsRecovers \/ DbFails \/ DbRecovers \/ UNCHANGED vars
  BY <1>6, ShrinkKeepsPlace DEF NatsRecovers, DbFails, DbRecovers, vars, Shrinks, IInv, OnePlace
<1>. QED
  BY <1>1, <1>2, <1>3, <1>4, <1>5, <1>6 DEF Next, ServerStep

\* The inductive invariant.
THEOREM IInvCorrect == Spec => []IInv
<1>1. Init => IInv
  BY TypeInit, PlaceInit DEF IInv
<1>2. IInv /\ [Next]_vars => IInv'
  BY TypeNext, PlaceNext DEF IInv
<1>. QED
  BY <1>1, <1>2, PTL DEF Spec

\* Whatever stops, crashes, reconnects and overlaps, an event is in one place of
\* the pipeline.
THEOREM OnePlaceCorrect == Spec => []OnePlace
<1>1. IInv => OnePlace
  BY DEF IInv
<1>. QED
  BY <1>1, IInvCorrect, PTL

-----------------------------------------------------------------------------
(* At-most-once *)

\* The INSERT of a handler is the only step that touches the table.
LEMMA OnlyInsertAddsRows ==
    ASSUME [Next]_vars
    PROVE  history' = history \/ \E w \in Workers : CreateHistoryItem(w)
<1>. USE DEF webVars, connVars, workerVars, storeVars, faultVars
<1>1. ASSUME NEW r \in Solves, SolveStep(r) PROVE history' = history
  BY <1>1 DEF SolveStep, AcceptSolve, RefuseSolve, SpawnPublisher, AnswerSolve,
              PublishProblemSolved, PublishFails
<1>2. ASSUME NEW w \in Workers, HandlerStep(w) PROVE history' = history \/ CreateHistoryItem(w)
  BY <1>2 DEF HandlerStep, Take, Discard, CreateHistoryItemFails
<1>3. ASSUME NEW w \in Workers, WorkerStep(w) PROVE history' = history
  BY <1>3 DEF WorkerStep, WorkerReconnects, WorkerStops, WorkerExits, WorkerCrashes, WorkerStarts
<1>4. ASSUME WebStep PROVE history' = history
  BY <1>4 DEF WebStep, Flush, WebReconnects, WebGivesUp, WebStops, WebExits, WebCrashes, WebStarts
<1>5. ASSUME ServerStep \/ UNCHANGED vars PROVE history' = history
  BY <1>5 DEF ServerStep, NatsFails, NatsRecovers, DbFails, DbRecovers, vars
<1>6. ASSUME NEW j \in Foreign, ForeignPublish(j) PROVE history' = history
  BY <1>6 DEF ForeignPublish
<1>. QED
  BY <1>1, <1>2, <1>3, <1>4, <1>5, <1>6 DEF Next

LEMMA InsertIsNew ==
    ASSUME IInv, AtMostOncePerWorker, NEW w \in Workers, CreateHistoryItem(w)
    PROVE  AtMostOncePerWorker'
<1>1. PICK row \in Solves \X Workers : row = <<current[w], w>>
  BY DEF CreateHistoryItem
<1>2. row \notin Range(history)
  BY <1>1 DEF CreateHistoryItem, IInv, OnePlace, Held, Events
<1>3. history \in Seq(Solves \X Workers) /\ history' = Append(history, row)
  BY <1>1 DEF CreateHistoryItem, IInv, TypeOK
<1>. QED
  BY <1>2, <1>3, AppendFacts DEF AtMostOncePerWorker

\* No worker ever stores the event of one solve twice, through any sequence of
\* stops, crashes, restarts, outages and reconnects.
THEOREM AtMostOncePerWorkerCorrect == Spec => []AtMostOncePerWorker
<1>1. Init => AtMostOncePerWorker
  BY EmptyFacts DEF Init, AtMostOncePerWorker
<1>2. IInv /\ AtMostOncePerWorker /\ [Next]_vars => AtMostOncePerWorker'
  BY OnlyInsertAddsRows, InsertIsNew DEF AtMostOncePerWorker
<1>. QED
  BY <1>1, <1>2, IInvCorrect, PTL DEF Spec

\* With a single history-worker every solve has at most one row.
THEOREM AtMostOnceCorrect ==
    ASSUME NEW w, Workers = {w}
    PROVE  Spec => []AtMostOnce
<1>1. TypeOK /\ AtMostOncePerWorker => AtMostOnce
  <2>. SUFFICES ASSUME TypeOK, AtMostOncePerWorker,
                       NEW i \in DOMAIN history, NEW j \in DOMAIN history,
                       history[i][1] = history[j][1]
                PROVE  i = j
    BY DEF AtMostOnce
  <2>1. history[i] \in Solves \X Workers /\ history[j] \in Solves \X Workers
    BY LenProperties DEF TypeOK
  <2>2. history[i] = history[j]
    BY <2>1
  <2>. QED
    BY <2>2 DEF AtMostOncePerWorker, IsInjective
<1>. QED
  BY <1>1, TypeCorrect, AtMostOncePerWorkerCorrect, PTL

-----------------------------------------------------------------------------
(* Only incidents lose *)

\* A step without incident that keeps goroutines' events, buffers, copies, rows
\* and drops keeps every event accounted for.
LEMMA AccountsGrow ==
    ASSUME NEW r \in Solves, AccountedFor(r),
           Unrouted(r) => Unrouted(r)',
           Range(history) \subseteq Range(history'), dropped \subseteq dropped',
           \A w \in Workers : Held(r, w) => Held(r, w)' \/ <<r, w>> \in Range(history')
    PROVE  AccountedFor(r)'
  BY DEF AccountedFor

\* The events other than the routed one stay accounted for, and it is too.
LEMMA FanOutAccounts ==
    ASSUME IInv, NEW e \in Events, FanOut(e), UNCHANGED <<current, history>>,
           \A w \in Workers : worker[w] = "subscribed",
           NEW r \in Solves, AccountedFor(r),
           r # e => (Unrouted(r) => Unrouted(r)')
    PROVE  AccountedFor(r)'
<1>1. \A w \in Workers : Range(inbox[w]) \subseteq Range(inbox'[w])
  <2>. TAKE w \in Workers
  <2>1. inbox[w] \in Seq(Events) /\ inbox'[w] \in {inbox[w], Append(inbox[w], e)}
    BY DEF IInv, TypeOK, FanOut
  <2>2. Range(inbox[w]) \subseteq Range(Append(inbox[w], e))
    BY <2>1, AppendFacts
  <2>. QED
    BY <2>1, <2>2
<1>2. \A w \in Workers : Held(r, w) => Held(r, w)'
  BY <1>1 DEF Held
<1>3. dropped \subseteq dropped'
  BY DEF FanOut
<1>4. CASE r # e
  BY <1>2, <1>3, <1>4, AccountsGrow
<1>5. CASE r = e
  <2>1. ASSUME NEW w \in Workers PROVE Held(e, w)' \/ <<e, w>> \in dropped'
    <3>1. CASE HasRoom(w)
      <4>1. inbox'[w] = Append(inbox[w], e) /\ inbox[w] \in Seq(Events)
        BY <3>1 DEF FanOut, IInv, TypeOK
      <4>2. e \in Range(Append(inbox[w], e))
        BY <4>1, AppendFacts
      <4>. QED
        BY <4>1, <4>2 DEF Held
    <3>2. CASE ~HasRoom(w)
      BY <3>2 DEF FanOut
    <3>. QED
      BY <3>1, <3>2
  <2>. QED
    BY <1>5, <2>1 DEF AccountedFor
<1>. QED
  BY <1>4, <1>5

\* Incidents are counted and never forgotten.
LEMMA IncidentsGrow ==
    ASSUME IInv, [Next]_vars, incidents' = 0
    PROVE  incidents = 0
<1>1. incidents \in Nat
  BY DEF IInv, TypeOK
<1>2. incidents' = incidents \/ \E k : Incident(k)
  BY DEF Next, SolveStep, AcceptSolve, RefuseSolve, SpawnPublisher, AnswerSolve,
         PublishProblemSolved, PublishFails, HandlerStep, Take, Discard, CreateHistoryItem,
         CreateHistoryItemFails, WorkerStep, WorkerReconnects, WorkerStops, WorkerExits,
         WorkerCrashes, WorkerStarts, WebStep, Flush, WebReconnects, WebGivesUp, WebStops,
         WebExits, WebCrashes, WebStarts, ServerStep, NatsFails, NatsRecovers, DbFails,
         DbRecovers, ForeignPublish, vars, webVars, connVars, workerVars, storeVars, faultVars
<1>. QED
  BY <1>1, <1>2 DEF Incident

\* A step without incident, from a state in which everything is up, leaves
\* everything up and every kept event kept.
LEMMA CalmStep ==
    ASSUME IInv, AllUp, incidents' = incidents, [Next]_vars
    PROVE  AllUp' /\ \A r \in Solves : Kept(r) => Kept(r)'
<1>. USE DEF webVars, connVars, workerVars, storeVars, faultVars
<1>0. \A k : ~Incident(k)
  BY DEF IInv, TypeOK, Incident
<1>1. /\ web = "up" /\ conn = "connected" /\ natsUp /\ dbUp
      /\ \A w \in Workers : worker[w] = "subscribed"
  BY DEF AllUp
<1> DEFINE Up == /\ web' = "up" /\ conn' = "connected" /\ natsUp' /\ dbUp'
                 /\ \A w \in Workers : worker'[w] = "subscribed"
           Accounted == \A r \in Solves : Kept(r) => publisher'[r] = "none" \/ AccountedFor(r)'
<1>2. ASSUME UNCHANGED <<publisher, outbuf, inbox, current, storeVars>>
      PROVE  Accounted
  BY <1>2 DEF Kept, AccountedFor, Unrouted, Held
<1>3. ASSUME NEW r \in Solves, SolveStep(r)
      PROVE  Up /\ Accounted
  <2>1. Up
    BY <1>1, <1>3 DEF SolveStep, AcceptSolve, RefuseSolve, SpawnPublisher, AnswerSolve,
                      PublishProblemSolved, PublishFails
  <2>2. CASE AcceptSolve(r) \/ RefuseSolve(r) \/ AnswerSolve(r)
    BY <1>2, <2>1, <2>2 DEF AcceptSolve, RefuseSolve, AnswerSolve
  <2>3. CASE SpawnPublisher(r)
    <3>1. /\ UNCHANGED <<outbuf, inbox, current, storeVars>>
          /\ publisher'[r] = "ready"
          /\ \A q \in Solves : q # r => publisher'[q] = publisher[q]
      BY <2>3 DEF SpawnPublisher, IInv, TypeOK, Events
    <3>2. \A q \in Solves : q # r => (AccountedFor(q)' <=> AccountedFor(q))
      BY <3>1 DEF AccountedFor, Unrouted, Held
    <3>3. AccountedFor(r)'
      BY <3>1 DEF AccountedFor, Unrouted
    <3>. QED
      BY <2>1, <3>1, <3>2, <3>3 DEF Kept
  <2>4. CASE PublishProblemSolved(r)
    <3>1. /\ UNCHANGED <<inbox, current, storeVars>>
          /\ publisher[r] = "ready"
          /\ \A q \in Solves : q # r => publisher'[q] = publisher[q]
          /\ Range(outbuf') = Range(outbuf) \cup {r}
      BY <2>4, AppendFacts DEF PublishProblemSolved, IInv, TypeOK, Events
    <3>2. \A q \in Solves : AccountedFor(q) => AccountedFor(q)'
      BY <3>1 DEF AccountedFor, Unrouted, Held
    <3>. QED
      BY <2>1, <3>1, <3>2 DEF Kept
  <2>5. CASE PublishFails(r)
    BY <1>1, <2>5 DEF PublishFails, CanPublish
  <2>. QED
    BY <1>3, <2>1, <2>2, <2>3, <2>4, <2>5 DEF SolveStep
<1>4. ASSUME NEW w \in Workers, HandlerStep(w)
      PROVE  Up /\ Accounted
  <2>1. Up /\ UNCHANGED <<publisher, outbuf, dropped>>
    BY <1>1, <1>4 DEF HandlerStep, Take, Discard, CreateHistoryItem, CreateHistoryItemFails
  <2>2. SUFFICES ASSUME NEW r \in Solves, AccountedFor(r)
                 PROVE  AccountedFor(r)'
    BY <2>1 DEF Kept
  <2>3. Unrouted(r)' <=> Unrouted(r)
    BY <2>1 DEF Unrouted
  <2>4. CASE Take(w)
    <3>1. /\ history' = history
          /\ current[w] = NoEvent
          /\ current'[w] = Head(inbox[w])
          /\ inbox'[w] = Tail(inbox[w])
          /\ \A v \in Workers : v # w => current'[v] = current[v] /\ inbox'[v] = inbox[v]
      BY <2>4 DEF Take, IInv, TypeOK
    <3>2. Range(inbox[w]) = {current'[w]} \cup Range(inbox'[w])
      BY <2>4, <3>1, TailFacts DEF Take, IInv, TypeOK
    <3>3. \A v \in Workers : Held(r, v) => Held(r, v)'
      BY <3>1, <3>2 DEF Held, Events
    <3>. QED
      BY <2>1, <2>2, <2>3, <3>1, <3>3, AccountsGrow
  <2>5. CASE Discard(w)
    <3>1. \A v \in Workers : Held(r, v) => Held(r, v)'
      BY <2>5 DEF Discard, Held, IInv, TypeOK
    <3>. QED
      BY <2>1, <2>2, <2>3, <2>5, <3>1, AccountsGrow DEF Discard
  <2>6. CASE CreateHistoryItem(w)
    <3>1. PICK row \in Solves \X Workers : row = <<current[w], w>>
      BY <2>6 DEF CreateHistoryItem
    <3>2. Range(history') = Range(history) \cup {row}
      <4>1. history \in Seq(Solves \X Workers) /\ history' = Append(history, row)
        BY <2>6, <3>1 DEF CreateHistoryItem, IInv, TypeOK
      <4>. QED
        BY <4>1, AppendFacts
    <3>3. \A v \in Workers : Held(r, v) => Held(r, v)' \/ <<r, v>> \in Range(history')
      BY <2>6, <3>1, <3>2 DEF CreateHistoryItem, Held, IInv, TypeOK
    <3>. QED
      BY <2>1, <2>2, <2>3, <3>2, <3>3, AccountsGrow
  <2>7. CASE CreateHistoryItemFails(w)
    BY <1>1, <2>7 DEF CreateHistoryItemFails
  <2>. QED
    BY <1>4, <2>4, <2>5, <2>6, <2>7 DEF HandlerStep
<1>5. ASSUME NEW w \in Workers, WorkerStep(w)
      PROVE  Up /\ Accounted
  BY <1>0, <1>1, <1>5 DEF WorkerStep, WorkerReconnects, WorkerStops, WorkerExits,
                          WorkerCrashes, WorkerStarts
<1>6. ASSUME NEW j \in Foreign, ForeignPublish(j)
      PROVE  Up /\ Accounted
  <2>1. /\ FanOut(j) /\ j \in Events /\ UNCHANGED <<outbuf, current, history>>
        /\ \A r \in Solves : publisher'[r] = publisher[r] /\ r # j
    BY <1>6 DEF ForeignPublish, IInv, TypeOK, Events
  <2>2. \A r \in Solves : AccountedFor(r) => AccountedFor(r)'
    BY <1>1, <2>1, FanOutAccounts DEF Unrouted
  <2>. QED
    BY <1>1, <1>6, <2>1, <2>2 DEF ForeignPublish, Kept
<1>7. ASSUME WebStep
      PROVE  Up /\ Accounted
  <2>1. Flush
    BY <1>0, <1>1, <1>7 DEF WebStep, WebReconnects, WebGivesUp, WebStops, WebExits,
                            WebCrashes, WebStarts
  <2>2. /\ Head(outbuf) \in Solves
        /\ Range(outbuf) = {Head(outbuf)} \cup Range(outbuf')
    BY <2>1, TailFacts DEF Flush, IInv, TypeOK
  <2>3. PICK e \in Solves : e = Head(outbuf)
    BY <2>2
  <2>4. FanOut(e) /\ e \in Events /\ UNCHANGED <<publisher, current, history>>
    BY <2>1, <2>3 DEF Flush, Events
  <2>5. \A r \in Solves : r # e => (Unrouted(r) => Unrouted(r)')
    BY <2>2, <2>3, <2>4 DEF Unrouted
  <2>6. \A r \in Solves : AccountedFor(r) => AccountedFor(r)'
    BY <1>1, <2>4, <2>5, FanOutAccounts
  <2>. QED
    BY <1>1, <2>1, <2>4, <2>6 DEF Flush, Kept
<1>8. ASSUME ServerStep
      PROVE  FALSE
  BY <1>0, <1>1, <1>8 DEF ServerStep, NatsFails, NatsRecovers, DbFails, DbRecovers
<1>9. ASSUME UNCHANGED vars
      PROVE  Up /\ Accounted
  BY <1>1, <1>2, <1>9 DEF vars
<1>10. Up /\ Accounted
  BY <1>3, <1>4, <1>5, <1>6, <1>7, <1>8, <1>9 DEF Next
<1>. QED
  BY <1>10 DEF AllUp, Kept

\* For any number of workers and incidents: from when everything is up again until
\* the next incident, no event that is still there is lost on its way to the table,
\* except what a full subscription drops.
THEOREM OnlyIncidentsLoseCorrect == Spec => OnlyIncidentsLose
<1>1. IInv /\ [Next]_vars =>
         [AllUp /\ incidents' = incidents =>
             AllUp' /\ \A r \in Solves : Kept(r) => Kept(r)']_vars
  BY CalmStep
<1>. QED
  BY <1>1, IInvCorrect, PTL DEF Spec, OnlyIncidentsLose

\* Before the first incident every solve's event is waiting to be routed, or every
\* worker holds it, has stored it or had it dropped by its full subscription.
NoLossWithoutIncident == incidents = 0 => AllUp /\ \A r \in Solves : Kept(r)

\* Without a stop, crash or outage both services stay up and no event is lost between
\* SolveHandler and the table, except the ones a full subscription drops.
THEOREM NoLossWithoutIncidentCorrect == Spec => []NoLossWithoutIncident
<1>1. Init => NoLossWithoutIncident
  BY DEF Init, NoLossWithoutIncident, AllUp, Kept, Events
<1>2. ASSUME IInv, NoLossWithoutIncident, [Next]_vars
      PROVE  NoLossWithoutIncident'
  <2>1. incidents' = 0 => incidents = 0
    BY <1>2, IncidentsGrow
  <2>. QED
    BY <1>2, <2>1, CalmStep DEF NoLossWithoutIncident
<1>. QED
  BY <1>1, <1>2, IInvCorrect, PTL DEF Spec

-----------------------------------------------------------------------------
(* EventPipeline implements HistoryLedger *)

\* The ledger's variables, as INSTANCE maps them.
solvedBar == {r \in Solves : publisher[r] # "none"}
openBar == {r \in Solves : Unrouted(r)}
copiesBar == {c \in Solves \X Workers : Held(c[1], c[2])}

\* A step that only takes events out of their places is a loss, or nothing.
LEMMA ShrinkForgets ==
    ASSUME IInv, Shrinks
    PROVE  Ledger!Next \/ UNCHANGED Ledger!vars
<1>1. \A r \in Solves, w \in Workers : Held(r, w)' => Held(r, w)
  BY DEF Shrinks, Held, Events
<1>2. \A r \in Solves : Unrouted(r)' => Unrouted(r)
  BY DEF Shrinks, Unrouted, Events
<1>3. solvedBar' = solvedBar
  BY DEF Shrinks, solvedBar, Events
<1>4. openBar' = openBar \ (openBar \ openBar')
  BY <1>2 DEF openBar
<1>5. copiesBar' = copiesBar \ (copiesBar \ copiesBar')
  BY <1>1 DEF copiesBar
<1>6. openBar \ openBar' \in SUBSET Solves
  BY DEF openBar
<1>7. copiesBar \ copiesBar' \in SUBSET (Solves \X Workers)
  BY DEF copiesBar
<1>8. Ledger!Forget(openBar \ openBar', copiesBar \ copiesBar')
  BY <1>3, <1>4, <1>5 DEF Ledger!Forget, solvedBar, openBar, copiesBar, Shrinks
<1>. QED
  BY <1>6, <1>7, <1>8 DEF Ledger!Next

\* A step that leaves every event where it is, whatever else it does, is a stutter.
LEMMA StandsStill ==
    ASSUME history' = history,
           \A r \in Solves : /\ publisher'[r] # "none" <=> publisher[r] # "none"
                             /\ Unrouted(r)' <=> Unrouted(r)
                             /\ \A w \in Workers : Held(r, w)' <=> Held(r, w)
    PROVE  UNCHANGED Ledger!vars
<1>1. solvedBar' = solvedBar /\ openBar' = openBar
  BY DEF solvedBar, openBar
<1>2. copiesBar' = copiesBar
  BY DEF copiesBar
<1>. QED
  BY <1>1, <1>2 DEF Ledger!vars, solvedBar, openBar, copiesBar

LEMMA SpawnIsSolve ==
    ASSUME IInv, NEW r \in Solves, SpawnPublisher(r)
    PROVE  Ledger!Next
<1>1. /\ UNCHANGED <<outbuf, inbox, current, history>>
      /\ publisher[r] = "none" /\ publisher'[r] = "ready"
      /\ \A q \in Solves : q # r => publisher'[q] = publisher[q]
  BY DEF SpawnPublisher, connVars, workerVars, storeVars, IInv, TypeOK, OnePlace, Events
<1>2. solvedBar' = solvedBar \cup {r} /\ r \notin solvedBar
  BY <1>1 DEF solvedBar
<1>3. openBar' = openBar \cup {r}
  BY <1>1 DEF openBar, Unrouted
<1>4. copiesBar' = copiesBar
  BY <1>1 DEF copiesBar, Held
<1>5. Ledger!Solve(r)
  BY <1>1, <1>2, <1>3, <1>4 DEF Ledger!Solve, solvedBar, openBar, copiesBar
<1>. QED
  BY <1>5 DEF Ledger!Next

LEMMA FlushIsRoute ==
    ASSUME IInv, Flush
    PROVE  Ledger!Next
<1>1. /\ Head(outbuf) \in Solves
      /\ Range(outbuf) = {Head(outbuf)} \cup Range(outbuf')
      /\ Head(outbuf) \notin Range(outbuf')
  BY TailFacts DEF Flush, IInv, TypeOK, OnePlace
<1>2. PICK r \in Solves : r = Head(outbuf)
  BY <1>1
<1>3. /\ FanOut(r) /\ r \in Events /\ r \in Range(outbuf) /\ publisher[r] # "ready"
      /\ UNCHANGED <<publisher, current, history>>
  BY <1>1, <1>2 DEF Flush, webVars, IInv, OnePlace, Events
<1> DEFINE S == {w \in Workers : worker[w] = "subscribed" /\ HasRoom(w)}
<1>4. ASSUME NEW w \in Workers
      PROVE  \A q \in Solves : Held(q, w)' <=> Held(q, w) \/ (q = r /\ w \in S)
  <2>1. inbox[w] \in Seq(Events) /\ inbox'[w] = IF w \in S THEN Append(inbox[w], r) ELSE inbox[w]
    BY <1>3 DEF FanOut, IInv, TypeOK
  <2>2. Range(Append(inbox[w], r)) = Range(inbox[w]) \cup {r}
    BY <1>3, <2>1, AppendFacts
  <2>. QED
    BY <1>3, <2>1, <2>2 DEF Held
<1>5. copiesBar' = copiesBar \cup ({r} \X S)
  BY <1>4 DEF copiesBar
<1>6. openBar' = openBar \ {r} /\ r \in openBar
  BY <1>1, <1>2, <1>3 DEF openBar, Unrouted
<1>7. solvedBar' = solvedBar
  BY <1>3 DEF solvedBar
<1>8. Ledger!Route(r, S)
  BY <1>3, <1>5, <1>6, <1>7 DEF Ledger!Route, solvedBar, openBar, copiesBar
<1>9. S \in SUBSET Workers
  OBVIOUS
<1>. QED
  BY <1>8, <1>9 DEF Ledger!Next

LEMMA InsertIsRecord ==
    ASSUME IInv, NEW w \in Workers, CreateHistoryItem(w)
    PROVE  Ledger!Next
<1>1. PICK c \in Solves \X Workers : c = <<current[w], w>>
  BY DEF CreateHistoryItem
<1>2. /\ UNCHANGED <<publisher, outbuf, inbox>>
      /\ current[w] = c[1] /\ w = c[2]
      /\ current'[w] = NoEvent
      /\ \A v \in Workers : v # w => current'[v] = current[v]
      /\ history' = Append(history, c)
  BY <1>1 DEF CreateHistoryItem, webVars, connVars, IInv, TypeOK
<1>3. c[1] \notin Range(inbox[w])
  BY <1>2 DEF IInv, OnePlace
<1>4. \A d \in Solves \X Workers : Held(d[1], d[2])' <=> Held(d[1], d[2]) /\ d # c
  BY <1>2, <1>3 DEF Held, Events
<1>5. copiesBar' = copiesBar \ {c} /\ c \in copiesBar
  BY <1>2, <1>4 DEF copiesBar, Held
<1>6. solvedBar' = solvedBar /\ openBar' = openBar
  BY <1>2 DEF solvedBar, openBar, Unrouted
<1>7. Ledger!Record(c)
  BY <1>2, <1>5, <1>6 DEF Ledger!Record, solvedBar, openBar, copiesBar
<1>. QED
  BY <1>7 DEF Ledger!Next

LEMMA LedgerStep ==
    ASSUME IInv, [Next]_vars
    PROVE  Ledger!Next \/ UNCHANGED Ledger!vars
<1>. USE DEF webVars, connVars, workerVars, storeVars
<1>1. ASSUME NEW r \in Solves, SolveStep(r)
      PROVE  Ledger!Next \/ UNCHANGED Ledger!vars
  <2>1. CASE AcceptSolve(r) \/ RefuseSolve(r) \/ AnswerSolve(r)
    BY <2>1, StandsStill DEF AcceptSolve, RefuseSolve, AnswerSolve, Unrouted, Held
  <2>2. CASE SpawnPublisher(r)
    BY <2>2, SpawnIsSolve
  <2>3. CASE PublishProblemSolved(r)
    <3>1. /\ UNCHANGED <<inbox, current, history>>
          /\ publisher[r] = "ready" /\ publisher'[r] = "done"
          /\ \A q \in Solves : q # r => publisher'[q] = publisher[q]
          /\ Range(outbuf') = Range(outbuf) \cup {r}
      BY <2>3, AppendFacts DEF PublishProblemSolved, IInv, TypeOK, Events
    <3>. QED
      BY <3>1, StandsStill DEF Unrouted, Held
  <2>4. CASE PublishFails(r)
    <3>1. Shrinks
      BY <2>4 DEF PublishFails, Shrinks, IInv, TypeOK, OnePlace, Events
    <3>. QED
      BY <3>1, ShrinkForgets
  <2>. QED
    BY <1>1, <2>1, <2>2, <2>3, <2>4 DEF SolveStep
<1>2. ASSUME NEW w \in Workers, HandlerStep(w)
      PROVE  Ledger!Next \/ UNCHANGED Ledger!vars
  <2>1. CASE Take(w)
    <3>1. /\ UNCHANGED <<publisher, outbuf, history>>
          /\ current[w] = NoEvent
          /\ current'[w] = Head(inbox[w])
          /\ inbox'[w] = Tail(inbox[w])
          /\ \A v \in Workers : v # w => current'[v] = current[v] /\ inbox'[v] = inbox[v]
      BY <2>1 DEF Take, IInv, TypeOK
    <3>2. Range(inbox[w]) = {current'[w]} \cup Range(inbox'[w])
      BY <2>1, <3>1, TailFacts DEF Take, IInv, TypeOK
    <3>3. \A r \in Solves, v \in Workers : Held(r, v)' <=> Held(r, v)
      BY <3>1, <3>2 DEF Held, Events
    <3>. QED
      BY <3>1, <3>3, StandsStill DEF Unrouted
  <2>2. CASE Discard(w)
    <3>1. Shrinks
      BY <2>2 DEF Discard, Shrinks, IInv, TypeOK, OnePlace
    <3>. QED
      BY <3>1, ShrinkForgets
  <2>3. CASE CreateHistoryItem(w)
    BY <2>3, InsertIsRecord
  <2>4. CASE CreateHistoryItemFails(w)
    <3>1. Shrinks
      BY <2>4 DEF CreateHistoryItemFails, Shrinks, IInv, TypeOK, OnePlace
    <3>. QED
      BY <3>1, ShrinkForgets
  <2>. QED
    BY <1>2, <2>1, <2>2, <2>3, <2>4 DEF HandlerStep
<1>3. ASSUME NEW w \in Workers, WorkerStep(w)
      PROVE  Ledger!Next \/ UNCHANGED Ledger!vars
  <2>1. CASE WorkerReconnects(w) \/ WorkerStarts(w)
    BY <2>1, StandsStill DEF WorkerReconnects, WorkerStarts, Unrouted, Held
  <2>2. CASE WorkerStops(w)
    <3>1. \A v \in Workers : inbox'[v] \in {inbox[v], <<>>}
      BY <2>2 DEF WorkerStops, IInv, TypeOK
    <3>2. \A v \in Workers : IsInjective(inbox'[v]) /\ Range(inbox'[v]) \subseteq Range(inbox[v])
      BY <3>1, EmptyFacts DEF IInv, OnePlace
    <3>3. Shrinks
      BY <2>2, <3>2 DEF WorkerStops, Shrinks, IInv, OnePlace
    <3>. QED
      BY <3>3, ShrinkForgets
  <2>3. CASE WorkerExits(w) \/ WorkerCrashes(w)
    BY <2>3, DeathShrinks, ShrinkForgets DEF WorkerExits, WorkerCrashes
  <2>. QED
    BY <1>3, <2>1, <2>2, <2>3 DEF WorkerStep
<1>4. ASSUME NEW j \in Foreign, ForeignPublish(j)
      PROVE  UNCHANGED Ledger!vars
  <2>1. /\ FanOut(j) /\ UNCHANGED <<outbuf, current, history>>
        /\ \A r \in Solves : publisher'[r] = publisher[r] /\ r # j
    BY <1>4 DEF ForeignPublish, IInv, TypeOK, Events
  <2>2. \A r \in Solves, w \in Workers : Held(r, w)' <=> Held(r, w)
    <3>1. ASSUME NEW w \in Workers
          PROVE  Range(inbox'[w]) \subseteq Range(inbox[w]) \cup {j}
                 /\ Range(inbox[w]) \subseteq Range(inbox'[w])
      <4>1. /\ inbox[w] \in Seq(Events) /\ j \in Events
            /\ inbox'[w] = Append(inbox[w], j) \/ inbox'[w] = inbox[w]
        BY <2>1 DEF FanOut, IInv, TypeOK, Events
      <4>2. Range(Append(inbox[w], j)) = Range(inbox[w]) \cup {j}
        BY <4>1, AppendFacts
      <4>. QED
        BY <4>1, <4>2
    <3>. QED
      BY <2>1, <3>1 DEF Held
  <2>. QED
    BY <2>1, <2>2, StandsStill DEF Unrouted
<1>5. ASSUME WebStep
      PROVE  Ledger!Next \/ UNCHANGED Ledger!vars
  <2>1. CASE Flush
    BY <2>1, FlushIsRoute
  <2>2. CASE WebReconnects \/ WebStops \/ WebStarts
    BY <2>2, StandsStill DEF WebReconnects, WebStops, WebStarts, Unrouted, Held
  <2>3. CASE WebGivesUp
    <3>1. Shrinks
      BY <2>3, EmptyFacts DEF WebGivesUp, Shrinks, IInv, OnePlace
    <3>. QED
      BY <3>1, ShrinkForgets
  <2>4. CASE WebExits \/ WebCrashes
    BY <2>4, DeathShrinks, ShrinkForgets DEF WebExits, WebCrashes
  <2>. QED
    BY <1>5, <2>1, <2>2, <2>3, <2>4 DEF WebStep
<1>6. CASE NatsFails
  BY <1>6, OutageShrinks, ShrinkForgets
<1>7. CASE NatsRecovers \/ DbFails \/ DbRecovers \/ UNCHANGED vars
  BY <1>7, StandsStill DEF NatsRecovers, DbFails, DbRecovers, vars, Unrouted, Held
<1>. QED
  BY <1>1, <1>2, <1>3, <1>4, <1>5, <1>6, <1>7 DEF Next, ServerStep

LEMMA LedgerInit == Init => Ledger!Init
<1>. SUFFICES ASSUME Init PROVE Ledger!Init
  OBVIOUS
<1>1. solvedBar = {}
  BY DEF Init, solvedBar, Events
<1>2. openBar = {}
  BY EmptyFacts DEF Init, openBar, Unrouted, Events
<1>3. copiesBar = {}
  BY EmptyFacts DEF Init, copiesBar, Held, Events
<1>. QED
  BY <1>1, <1>2, <1>3 DEF Init, Ledger!Init, solvedBar, openBar, copiesBar

\* The pipeline, with all its failures, implements the at-most-once ledger.
THEOREM ImplementsLedgerCorrect == Spec => ImplementsLedger
<1>1. Init => Ledger!Init
  BY LedgerInit
<1>2. IInv /\ [Next]_vars => [Ledger!Next]_(Ledger!vars)
  BY LedgerStep
<1>. QED
  BY <1>1, <1>2, IInvCorrect, PTL DEF Spec, ImplementsLedger, Ledger!Spec

-----------------------------------------------------------------------------
(* What the ledger promises, its own steps guarantee *)

\* An event on its way or stored was announced and is not open any more, and a copy
\* that became a row is used up.
PromiseKept ==
    /\ history \in Seq(Solves \X Workers)
    /\ openBar \subseteq solvedBar
    /\ \A c \in copiesBar \cup Range(history) : c[1] \in solvedBar /\ c[1] \notin openBar
    /\ copiesBar \cap Range(history) = {}
    /\ IsInjective(history)

LEMMA PromiseInit == Ledger!Init => PromiseKept
<1>. SUFFICES ASSUME Ledger!Init PROVE PromiseKept
  OBVIOUS
<1>1. solvedBar = {} /\ openBar = {} /\ copiesBar = {} /\ history = <<>>
  BY DEF Ledger!Init, solvedBar, openBar, copiesBar
<1>. QED
  BY <1>1, EmptyFacts DEF PromiseKept

LEMMA PromiseStep == PromiseKept /\ [Ledger!Next]_(Ledger!vars) => PromiseKept'
<1>. SUFFICES ASSUME PromiseKept, [Ledger!Next]_(Ledger!vars) PROVE PromiseKept'
  OBVIOUS
<1>. USE DEF PromiseKept
<1>1. ASSUME NEW r \in Solves, Ledger!Solve(r) PROVE PromiseKept'
  <2>1. /\ r \notin solvedBar /\ solvedBar' = solvedBar \cup {r} /\ openBar' = openBar \cup {r}
        /\ copiesBar' = copiesBar /\ history' = history
    BY <1>1 DEF Ledger!Solve, solvedBar, openBar, copiesBar
  <2>. QED
    BY <2>1
<1>2. ASSUME NEW r \in Solves, NEW S \in SUBSET Workers, Ledger!Route(r, S)
      PROVE  PromiseKept'
  <2>1. /\ r \in openBar /\ openBar' = openBar \ {r}
        /\ copiesBar' = copiesBar \cup ({r} \X S)
        /\ solvedBar' = solvedBar /\ history' = history
    BY <1>2 DEF Ledger!Route, solvedBar, openBar, copiesBar
  <2>2. \A c \in {r} \X S : c[1] = r
    OBVIOUS
  <2>. QED
    BY <2>1, <2>2
<1>3. ASSUME NEW c \in Solves \X Workers, Ledger!Record(c) PROVE PromiseKept'
  <2>1. /\ c \in copiesBar /\ copiesBar' = copiesBar \ {c} /\ history' = Append(history, c)
        /\ solvedBar' = solvedBar /\ openBar' = openBar
    BY <1>3 DEF Ledger!Record, solvedBar, openBar, copiesBar
  <2>2. /\ history' \in Seq(Solves \X Workers)
        /\ Range(history') = Range(history) \cup {c}
        /\ IsInjective(history')
    BY <2>1, AppendFacts
  <2>. QED
    BY <2>1, <2>2
<1>4. ASSUME NEW O \in SUBSET Solves, NEW C \in SUBSET (Solves \X Workers), Ledger!Forget(O, C)
      PROVE  PromiseKept'
  <2>1. /\ openBar' = openBar \ O /\ copiesBar' = copiesBar \ C
        /\ solvedBar' = solvedBar /\ history' = history
    BY <1>4 DEF Ledger!Forget, solvedBar, openBar, copiesBar
  <2>. QED
    BY <2>1
<1>5. CASE UNCHANGED Ledger!vars
  <2>1. openBar' = openBar /\ copiesBar' = copiesBar /\ solvedBar' = solvedBar /\ history' = history
    BY <1>5 DEF Ledger!vars, solvedBar, openBar, copiesBar
  <2>. QED
    BY <2>1
<1>. QED
  BY <1>1, <1>2, <1>3, <1>4, <1>5 DEF Ledger!Next

\* Whatever implements HistoryLedger stores only what was solved, and nothing twice by
\* one worker: the promise needs nothing of the pipeline below it.
THEOREM LedgerPromiseCorrect == Ledger!Spec => [](PromiseKept /\ Ledger!AtMostOncePerWorker)
<1>1. PromiseKept => Ledger!AtMostOncePerWorker
  BY DEF PromiseKept, Ledger!AtMostOncePerWorker, Ledger!IsInjective, IsInjective
<1>. QED
  BY <1>1, PromiseInit, PromiseStep, PTL DEF Ledger!Spec

\* No row is of a problem that was refused or never solved: SolveHandler started a
\* goroutine for it (handlers.go:324).
NothingInvented ==
    \A i \in DOMAIN history : publisher[history[i][1]] # "none"

\* The pipeline inherits it from the ledger, through the refinement.
THEOREM NothingInventedCorrect == Spec => []NothingInvented
<1>1. PromiseKept => NothingInvented
  <2>. SUFFICES ASSUME PromiseKept, NEW i \in DOMAIN history
                PROVE  publisher[history[i][1]] # "none"
    BY DEF NothingInvented
  <2>1. history[i] \in Range(history)
    BY DEF Range
  <2>. QED
    BY <2>1 DEF PromiseKept, solvedBar
<1>. QED
  BY <1>1, LedgerPromiseCorrect, ImplementsLedgerCorrect, PTL DEF ImplementsLedger

-----------------------------------------------------------------------------
(* Nothing is stranded: what the liveness properties need beyond fairness *)

\* An unfinished request, a goroutine with an event and a connection live in a
\* process that runs, and a closed connection holds nothing: whatever SolveHandler
\* (handlers.go:316) still has to do, somebody is there to do it.
WebAlive ==
    /\ \A r \in Solves :
          publisher[r] = "ready" \/ request[r] \in {"handling", "responding"} => web # "down"
    /\ conn # "closed" => web # "down"
    /\ outbuf # <<>> => conn # "closed"

\* A routed message waits at a worker whose handler will get to it, an event being
\* handled has a living process, and no subscription holds more than its limit.
WorkerAlive ==
    \A w \in Workers :
        /\ inbox[w] # <<>> => worker[w] \in {"subscribed", "reconnecting"}
        /\ current[w] # NoEvent => worker[w] # "down"
        /\ Len(inbox[w]) <= PendingLimit

\* Nobody believes in a broker that is down.
OutageSeen ==
    ~natsUp => conn # "connected" /\ \A w \in Workers : worker[w] # "subscribed"

NothingStranded == WebAlive /\ WorkerAlive /\ OutageSeen

LEMMA NothingStrandedInit == Init => NothingStranded
<1>. SUFFICES ASSUME Init PROVE NothingStranded
  OBVIOUS
<1>1. WebAlive
  BY DEF Init, WebAlive, Events
<1>2. WorkerAlive
  <2>1. Len(<<>>) = 0
    OBVIOUS
  <2>. QED
    BY <2>1 DEF Init, WorkerAlive
<1>3. OutageSeen
  BY DEF Init, OutageSeen
<1>. QED
  BY <1>1, <1>2, <1>3 DEF NothingStranded

\* An event that is routed finds its room, and one that is taken or lost makes some.
LEMMA QueueLengths ==
    ASSUME TypeOK, WorkerAlive
    PROVE  /\ \A e \in Events : FanOut(e) =>
                 \A w \in Workers :
                    \/ inbox'[w] = inbox[w]
                    \/ worker[w] = "subscribed" /\ Len(inbox'[w]) <= PendingLimit
           /\ \A w \in Workers : inbox[w] # <<>> => Len(Tail(inbox[w])) <= PendingLimit
           /\ \A w \in Workers, n \in 0..PendingLimit :
                 n <= Len(inbox[w]) =>
                    /\ Len(SubSeq(inbox[w], 1, n)) <= PendingLimit
                    /\ n = Len(inbox[w]) => SubSeq(inbox[w], 1, n) = inbox[w]
<1>1. \A w \in Workers : inbox[w] \in Seq(Events) /\ Len(inbox[w]) \in Nat
  BY LenProperties DEF TypeOK
<1>2. ASSUME NEW e \in Events, FanOut(e), NEW w \in Workers, inbox'[w] # inbox[w]
      PROVE  worker[w] = "subscribed" /\ Len(inbox'[w]) <= PendingLimit
  <2>1. worker[w] = "subscribed" /\ HasRoom(w) /\ inbox'[w] = Append(inbox[w], e)
    BY <1>2 DEF FanOut
  <2>2. Len(Append(inbox[w], e)) = Len(inbox[w]) + 1
    BY <1>1, AppendProperties
  <2>. QED
    BY <1>1, <2>1, <2>2 DEF HasRoom
<1>3. ASSUME NEW w \in Workers, inbox[w] # <<>>
      PROVE  Len(Tail(inbox[w])) <= PendingLimit
  <2>1. Len(Tail(inbox[w])) = Len(inbox[w]) - 1
    BY <1>1, <1>3, HeadTailProperties
  <2>. QED
    BY <1>1, <2>1 DEF WorkerAlive
<1>4. ASSUME NEW w \in Workers, NEW n \in 0..PendingLimit, n <= Len(inbox[w])
      PROVE  /\ Len(SubSeq(inbox[w], 1, n)) <= PendingLimit
             /\ n = Len(inbox[w]) => SubSeq(inbox[w], 1, n) = inbox[w]
  <2>1. PICK q \in Seq(Events) : q = inbox[w] /\ Len(q) \in Nat /\ n \in 0..Len(q)
    BY <1>1, <1>4
  <2>2. Len(SubSeq(q, 1, n)) = n /\ (n = Len(q) => SubSeq(q, 1, n) = q)
    BY <2>1
  <2>. QED
    BY <2>1, <2>2
<1>. QED
  BY <1>2, <1>3, <1>4

LEMMA WebAliveStep ==
    ASSUME TypeOK, WebAlive, [Next]_vars
    PROVE  WebAlive'
<1>. USE DEF WebAlive, webVars, connVars, workerVars, storeVars, faultVars
<1>0. Solves \subseteq Events
  BY DEF Events
<1>1. ASSUME NEW r \in Solves, SolveStep(r) PROVE WebAlive'
  <2>1. CASE AcceptSolve(r) \/ RefuseSolve(r) \/ AnswerSolve(r)
    BY <2>1 DEF AcceptSolve, RefuseSolve, AnswerSolve, TypeOK
  <2>2. CASE SpawnPublisher(r)
    BY <1>0, <2>2 DEF SpawnPublisher, TypeOK
  <2>3. CASE PublishProblemSolved(r)
    BY <1>0, <2>3 DEF PublishProblemSolved, CanPublish, TypeOK
  <2>4. CASE PublishFails(r)
    BY <1>0, <2>4 DEF PublishFails, TypeOK
  <2>. QED
    BY <1>1, <2>1, <2>2, <2>3, <2>4 DEF SolveStep
<1>2. ASSUME NEW w \in Workers, HandlerStep(w) \/ WorkerStep(w) PROVE WebAlive'
  BY <1>2 DEF HandlerStep, Take, Discard, CreateHistoryItem, CreateHistoryItemFails,
              WorkerStep, WorkerReconnects, WorkerStops, WorkerExits, WorkerCrashes, WorkerStarts
<1>3. ASSUME NEW j \in Foreign, ForeignPublish(j) PROVE WebAlive'
  <2>1. \A r \in Solves : publisher'[r] = publisher[r]
    BY <1>0, <1>3 DEF ForeignPublish, TypeOK
  <2>. QED
    BY <1>3, <2>1 DEF ForeignPublish
<1>4. CASE Flush \/ WebReconnects \/ WebGivesUp \/ WebStops \/ WebStarts
  BY <1>4 DEF Flush, WebReconnects, WebGivesUp, WebStops, WebStarts
<1>5. CASE WebExits \/ WebCrashes
  <2>1. WebDies
    BY <1>5 DEF WebExits, WebCrashes
  <2>2. ASSUME NEW r \in Solves
        PROVE  publisher'[r] # "ready" /\ request'[r] \notin {"handling", "responding"}
    BY <1>0, <2>1 DEF WebDies, TypeOK
  <2>. QED
    BY <2>1, <2>2 DEF WebDies
<1>6. CASE NatsFails
  <2>1. /\ UNCHANGED <<web, request, publisher>>
        /\ conn' = IF conn = "connected" THEN "reconnecting" ELSE conn
    BY <1>6 DEF NatsFails
  <2>2. outbuf = <<>> => outbuf' = <<>>
    <3>1. PICK lost \in 0..Len(outbuf) : outbuf' = SubSeq(outbuf, lost + 1, Len(outbuf))
      BY <1>6 DEF NatsFails
    <3>2. Len(<<>>) = 0 /\ SubSeq(<<>>, 1, 0) = <<>>
      OBVIOUS
    <3>. QED
      BY <3>1, <3>2
  <2>. QED
    BY <2>1, <2>2
<1>7. CASE NatsRecovers \/ DbFails \/ DbRecovers \/ UNCHANGED vars
  BY <1>7 DEF NatsRecovers, DbFails, DbRecovers, vars
<1>. QED
  BY <1>1, <1>2, <1>3, <1>4, <1>5, <1>6, <1>7 DEF Next, WebStep, ServerStep

LEMMA WorkerAliveStep ==
    ASSUME TypeOK, WorkerAlive, [Next]_vars
    PROVE  WorkerAlive'
<1>. USE DEF webVars, connVars, workerVars, storeVars, faultVars
<1>0. Len(<<>>) = 0 /\ PendingLimit \in Nat
  OBVIOUS
<1>1. ASSUME NEW e \in Events, FanOut(e), UNCHANGED <<worker, current>> PROVE WorkerAlive'
  <2>. SUFFICES ASSUME NEW w \in Workers
                PROVE  /\ inbox'[w] # <<>> => worker[w] \in {"subscribed", "reconnecting"}
                       /\ Len(inbox'[w]) <= PendingLimit
                       /\ current[w] # NoEvent => worker[w] # "down"
    BY <1>1 DEF WorkerAlive
  <2>. QED
    BY <1>1, QueueLengths DEF WorkerAlive
<1>2. ASSUME NEW r \in Solves, SolveStep(r) PROVE WorkerAlive'
  BY <1>2 DEF SolveStep, AcceptSolve, RefuseSolve, SpawnPublisher, AnswerSolve,
              PublishProblemSolved, PublishFails, WorkerAlive
<1>3. ASSUME NEW w \in Workers, HandlerStep(w) PROVE WorkerAlive'
  <2>1. CASE Take(w)
    <3>1. /\ worker[w] \in {"subscribed", "reconnecting"} /\ worker' = worker
          /\ Len(inbox'[w]) <= PendingLimit
          /\ \A v \in Workers : v # w => inbox'[v] = inbox[v] /\ current'[v] = current[v]
      BY <2>1, QueueLengths DEF Take, TypeOK
    <3>. QED
      BY <3>1 DEF WorkerAlive
  <2>2. CASE Discard(w) \/ CreateHistoryItem(w) \/ CreateHistoryItemFails(w)
    BY <2>2 DEF Discard, CreateHistoryItem, CreateHistoryItemFails, TypeOK, WorkerAlive
  <2>. QED
    BY <1>3, <2>1, <2>2 DEF HandlerStep
<1>4. ASSUME NEW w \in Workers, WorkerStep(w) PROVE WorkerAlive'
  <2>1. CASE WorkerReconnects(w) \/ WorkerStarts(w)
    BY <2>1 DEF WorkerReconnects, WorkerStarts, TypeOK, WorkerAlive
  <2>2. CASE WorkerStops(w)
    BY <1>0, <2>2 DEF WorkerStops, TypeOK, WorkerAlive
  <2>3. CASE WorkerExits(w) \/ WorkerCrashes(w)
    <3>1. /\ worker'[w] = "down" /\ inbox'[w] = <<>> /\ current'[w] = NoEvent
          /\ \A v \in Workers : v # w => /\ worker'[v] = worker[v] /\ inbox'[v] = inbox[v]
                                        /\ current'[v] = current[v]
      BY <2>3 DEF WorkerExits, WorkerCrashes, WorkerDies, TypeOK
    <3>. QED
      BY <1>0, <3>1 DEF WorkerAlive
  <2>. QED
    BY <1>4, <2>1, <2>2, <2>3 DEF WorkerStep
<1>5. ASSUME NEW j \in Foreign, ForeignPublish(j) PROVE WorkerAlive'
  BY <1>1, <1>5 DEF ForeignPublish, Events
<1>6. CASE Flush
  <2>1. Head(outbuf) \in Events
    BY <1>6, TailFacts DEF Flush, TypeOK, Events
  <2>. QED
    BY <1>1, <1>6, <2>1 DEF Flush
<1>7. CASE WebReconnects \/ WebGivesUp \/ WebStops \/ WebStarts \/ WebExits \/ WebCrashes
  BY <1>7 DEF WebReconnects, WebGivesUp, WebStops, WebStarts, WebExits, WebCrashes, WorkerAlive
<1>8. CASE NatsFails
  <2>1. PICK kept \in [Workers -> 0..PendingLimit] :
           /\ \A w \in Workers : /\ kept[w] <= Len(inbox[w])
                                 /\ worker[w] # "subscribed" => kept[w] = Len(inbox[w])
           /\ inbox' = [w \in Workers |-> SubSeq(inbox[w], 1, kept[w])]
    BY <1>8 DEF NatsFails
  <2>2. /\ worker' = [w \in Workers |-> IF worker[w] = "subscribed" THEN "reconnecting"
                                                                   ELSE worker[w]]
        /\ current' = current
    BY <1>8 DEF NatsFails
  <2>3. ASSUME NEW w \in Workers
        PROVE  /\ Len(inbox'[w]) <= PendingLimit
               /\ \/ worker[w] = "subscribed" /\ worker'[w] = "reconnecting"
                  \/ worker'[w] = worker[w] /\ inbox'[w] = inbox[w]
    <3>1. /\ inbox'[w] = SubSeq(inbox[w], 1, kept[w])
          /\ kept[w] \in 0..PendingLimit /\ kept[w] <= Len(inbox[w])
          /\ worker[w] # "subscribed" => kept[w] = Len(inbox[w])
      BY <2>1
    <3>2. /\ Len(inbox'[w]) <= PendingLimit
          /\ kept[w] = Len(inbox[w]) => inbox'[w] = inbox[w]
      BY <3>1, QueueLengths
    <3>. QED
      BY <2>2, <3>1, <3>2
  <2>. QED
    BY <2>2, <2>3 DEF WorkerAlive
<1>9. CASE NatsRecovers \/ DbFails \/ DbRecovers \/ UNCHANGED vars
  BY <1>9 DEF NatsRecovers, DbFails, DbRecovers, vars, WorkerAlive
<1>. QED
  BY <1>2, <1>3, <1>4, <1>5, <1>6, <1>7, <1>8, <1>9 DEF Next, WebStep, ServerStep

LEMMA OutageSeenStep ==
    ASSUME TypeOK, OutageSeen, [Next]_vars
    PROVE  OutageSeen'
<1>. USE DEF OutageSeen, webVars, connVars, workerVars, storeVars, faultVars
<1>1. ASSUME NEW r \in Solves, SolveStep(r) PROVE OutageSeen'
  BY <1>1 DEF SolveStep, AcceptSolve, RefuseSolve, SpawnPublisher, AnswerSolve,
              PublishProblemSolved, PublishFails
<1>2. ASSUME NEW w \in Workers, HandlerStep(w) PROVE OutageSeen'
  BY <1>2 DEF HandlerStep, Take, Discard, CreateHistoryItem, CreateHistoryItemFails
<1>3. ASSUME NEW w \in Workers, WorkerStep(w) PROVE OutageSeen'
  <2>1. CASE WorkerReconnects(w) \/ WorkerStarts(w)
    BY <2>1 DEF WorkerReconnects, WorkerStarts
  <2>2. CASE WorkerStops(w) \/ WorkerExits(w) \/ WorkerCrashes(w)
    BY <2>2 DEF WorkerStops, WorkerExits, WorkerCrashes, WorkerDies, TypeOK
  <2>. QED
    BY <1>3, <2>1, <2>2 DEF WorkerStep
<1>4. ASSUME NEW j \in Foreign, ForeignPublish(j) PROVE OutageSeen'
  BY <1>4 DEF ForeignPublish
<1>5. CASE WebStep
  BY <1>5 DEF WebStep, Flush, WebReconnects, WebGivesUp, WebStops, WebStarts, WebExits,
              WebCrashes, WebDies
<1>6. CASE ServerStep \/ UNCHANGED vars
  BY <1>6 DEF ServerStep, NatsFails, NatsRecovers, DbFails, DbRecovers, vars
<1>. QED
  BY <1>1, <1>2, <1>3, <1>4, <1>5, <1>6 DEF Next

\* Through every stop, crash and outage, whatever is unfinished has a living process
\* or an open queue to go on in.
THEOREM NothingStrandedCorrect == Spec => []NothingStranded
<1>1. TypeOK /\ NothingStranded /\ [Next]_vars => NothingStranded'
  BY WebAliveStep, WorkerAliveStep, OutageSeenStep DEF NothingStranded
<1>. QED
  BY <1>1, NothingStrandedInit, TypeCorrect, PTL DEF Spec
=============================================================================
