------------------------------ MODULE EventPipeline ------------------------------
(***************************************************************************)
(* The path of a solved problem into the history table: SolveHandler and   *)
(* its publishing goroutine (web-server/handlers.go, queue.go), the NATS   *)
(* connection of the web-server (default options), the broker, the         *)
(* subscription of each history-worker (history-worker/worker.go) and the  *)
(* INSERT into PostgreSQL (history-worker/database.go), with the stops,    *)
(* crashes and restarts of both services and outages of broker and         *)
(* database.                                                               *)
(*                                                                         *)
(* The broker, the NATS client library and PostgreSQL are external: they   *)
(* are modelled from the options and calls the code uses.  Both clients    *)
(* see a broker outage in the step in which it happens; what a client      *)
(* wrote or was sent just before is lost or kept by choice (lost, kept).   *)
(***************************************************************************)
EXTENDS Integers, Sequences, Functions

CONSTANTS Solves,          \* POST /solve requests, each with its event
          Foreign,         \* malformed payloads another client puts on the subject
          Workers,         \* history-worker processes
          NoEvent,         \* "the handler is idle"
          PendingLimit,    \* messages a subscription holds (nats.go default)
          ReconnectLimit,  \* messages the reconnect buffer holds (nats.go default)
          Incidents,       \* the kinds of incident that may happen
          MaxIncidents     \* how many may happen

Events == Solves \cup Foreign

IncidentKinds == {"web_stop", "web_crash", "worker_stop", "worker_crash",
                  "nats_outage", "db_outage"}

ASSUME EventAssumption == /\ Solves \cap Foreign = {}
                          /\ NoEvent \notin Events
ASSUME LimitAssumption == /\ PendingLimit \in Nat \ {0}
                          /\ ReconnectLimit \in Nat \ {0}
                          /\ MaxIncidents \in Nat
                          /\ Incidents \subseteq IncidentKinds

VARIABLES
    web,         \* the web-server process: "up", "draining" (Shutdown), "down"
    request,     \* where each solve request is
    publisher,   \* the goroutine of each event: "none", "ready", "done", "killed"
    conn,        \* Server.NATS: "connected", "reconnecting", "closed"
    outbuf,      \* what Publish has buffered in Server.NATS, oldest first
    worker,      \* each worker: "subscribed", "reconnecting", "closing", "down"
    inbox,       \* each worker: messages routed to its subscription, oldest first
    current,     \* each worker: the event its handler is in ProcessEvent with
    history,     \* the history table: <<event, worker>> in insertion order
    natsUp, dbUp,
    incidents,   \* incidents so far
    dropped,     \* ghost: <<event, worker>> refused by a full subscription
    published    \* ghost: the events in the order Publish accepted them

webVars == <<web, request, publisher>>
connVars == <<conn, outbuf, published>>
workerVars == <<worker, inbox, current>>
storeVars == <<history, dropped>>
faultVars == <<natsUp, dbUp, incidents>>
vars == <<webVars, connVars, workerVars, storeVars, faultVars>>

TypeOK ==
    /\ web \in {"up", "draining", "down"}
    /\ request \in [Solves -> {"idle", "handling", "responding", "done", "refused", "cut"}]
    /\ publisher \in [Events -> {"none", "ready", "done", "killed"}]
    /\ conn \in {"connected", "reconnecting", "closed"}
    /\ outbuf \in Seq(Solves)
    /\ worker \in [Workers -> {"subscribed", "reconnecting", "closing", "down"}]
    /\ inbox \in [Workers -> Seq(Events)]
    /\ current \in [Workers -> Events \cup {NoEvent}]
    /\ history \in Seq(Solves \X Workers)
    /\ natsUp \in BOOLEAN
    /\ dbUp \in BOOLEAN
    /\ incidents \in 0..MaxIncidents
    /\ dropped \subseteq Events \X Workers
    /\ published \in Seq(Solves)

\* Both services deployed, connected and subscribed; nothing solved yet.
Init ==
    /\ web = "up"
    /\ request = [r \in Solves |-> "idle"]
    /\ publisher = [e \in Events |-> IF e \in Foreign THEN "ready" ELSE "none"]
    /\ conn = "connected"
    /\ outbuf = <<>>
    /\ worker = [w \in Workers |-> "subscribed"]
    /\ inbox = [w \in Workers |-> <<>>]
    /\ current = [w \in Workers |-> NoEvent]
    /\ history = <<>>
    /\ natsUp = TRUE
    /\ dbUp = TRUE
    /\ incidents = 0
    /\ dropped = {}
    /\ published = <<>>

\* An incident of a kind the instance allows uses up one of MaxIncidents.
Incident(kind) ==
    /\ kind \in Incidents
    /\ incidents < MaxIncidents
    /\ incidents' = incidents + 1

-----------------------------------------------------------------------------
(* web-server: SolveHandler and its publishing goroutine *)

\* A request passes AuthMiddleware; Shutdown has closed the listener by then or not.
AcceptSolve(r) ==
    /\ web = "up"
    /\ request[r] = "idle"
    /\ request' = [request EXCEPT ![r] = "handling"]
    /\ UNCHANGED <<web, publisher, connVars, workerVars, storeVars, faultVars>>

\* Bad body, empty problem or a SolveMath error: 400 and no event.
RefuseSolve(r) ==
    /\ web # "down"
    /\ request[r] = "handling"
    /\ request' = [request EXCEPT ![r] = "refused"]
    /\ UNCHANGED <<web, publisher, connVars, workerVars, storeVars, faultVars>>

\* "go func()": the goroutine exists before the answer is written.
SpawnPublisher(r) ==
    /\ web # "down"
    /\ request[r] = "handling"
    /\ request' = [request EXCEPT ![r] = "responding"]
    /\ publisher' = [publisher EXCEPT ![r] = "ready"]
    /\ UNCHANGED <<web, connVars, workerVars, storeVars, faultVars>>

\* Mutated: the answer waits for the history row.
AnswerAfterRow(r) ==
    /\ web # "down"
    /\ request[r] = "responding"
    /\ \E w \in Workers : <<r, w>> \in Range(history)
    /\ request' = [request EXCEPT ![r] = "done"]
    /\ UNCHANGED <<web, publisher, connVars, workerVars, storeVars, faultVars>>

\* respondJSON(w, SolveResponse, 200)
AnswerSolve(r) ==
    /\ web # "down"
    /\ request[r] = "responding"
    /\ request' = [request EXCEPT ![r] = "done"]
    /\ UNCHANGED <<web, publisher, connVars, workerVars, storeVars, faultVars>>

\* nc.Publish buffers unless the connection is closed or its reconnect buffer full.
CanPublish ==
    \/ conn = "connected"
    \/ conn = "reconnecting" /\ Len(outbuf) < ReconnectLimit

PublishProblemSolved(r) ==
    /\ web # "down"
    /\ publisher[r] = "ready"
    /\ CanPublish
    /\ publisher' = [publisher EXCEPT ![r] = "done"]
    /\ outbuf' = Append(outbuf, r)
    /\ published' = Append(published, r)
    /\ UNCHANGED <<web, request, conn, workerVars, storeVars, faultVars>>

\* The error is logged; the goroutine ends and the event with it.
PublishFails(r) ==
    /\ web # "down"
    /\ publisher[r] = "ready"
    /\ ~CanPublish
    /\ publisher' = [publisher EXCEPT ![r] = "done"]
    /\ UNCHANGED <<web, request, connVars, workerVars, storeVars, faultVars>>

-----------------------------------------------------------------------------
(* NATS: fan-out to plain subscriptions, outages, the clients' reconnects *)

HasRoom(w) == Len(inbox[w]) < PendingLimit

\* Every subscription gets a copy (no queue group); a full one drops it.
FanOut(e) ==
    /\ inbox' = [w \in Workers |-> IF worker[w] = "subscribed" /\ HasRoom(w)
                                     THEN Append(inbox[w], e)
                                     ELSE inbox[w]]
    /\ dropped' = dropped \cup
          {<<e, w>> : w \in {v \in Workers : worker[v] = "subscribed" /\ ~HasRoom(v)}}

\* Mutated: the buffer keeps the event it has written.
FlushKeeps ==
    /\ conn = "connected"
    /\ outbuf # <<>>
    /\ FanOut(Head(outbuf))
    /\ UNCHANGED <<webVars, connVars, worker, current, history, faultVars>>

\* The flusher writes the oldest buffered event and the broker routes it.
Flush ==
    /\ conn = "connected"
    /\ outbuf # <<>>
    /\ FanOut(Head(outbuf))
    /\ outbuf' = Tail(outbuf)
    /\ UNCHANGED <<webVars, conn, published, worker, current, history, faultVars>>

\* Another client publishes a payload ParseEvent will reject.
ForeignPublish(j) ==
    /\ natsUp
    /\ publisher[j] = "ready"
    /\ publisher' = [publisher EXCEPT ![j] = "done"]
    /\ FanOut(j)
    /\ UNCHANGED <<web, request, connVars, worker, current, history, faultVars>>

\* What is on the wire is lost: the first `lost` events the web-server wrote, and
\* all but the first `kept` messages sent to each worker.
NatsFails ==
    /\ natsUp
    /\ Incident("nats_outage")
    /\ natsUp' = FALSE
    /\ conn' = IF conn = "connected" THEN "reconnecting" ELSE conn
    /\ \E lost \in 0..Len(outbuf) :
          /\ conn # "connected" => lost = 0
          /\ outbuf' = SubSeq(outbuf, lost + 1, Len(outbuf))
    /\ worker' = [w \in Workers |-> IF worker[w] = "subscribed" THEN "reconnecting"
                                                               ELSE worker[w]]
    /\ \E kept \in [Workers -> 0..PendingLimit] :
          /\ \A w \in Workers : /\ kept[w] <= Len(inbox[w])
                                /\ worker[w] # "subscribed" => kept[w] = Len(inbox[w])
          /\ inbox' = [w \in Workers |-> SubSeq(inbox[w], 1, kept[w])]
    /\ UNCHANGED <<webVars, published, current, storeVars, dbUp>>

NatsRecovers ==
    /\ ~natsUp
    /\ natsUp' = TRUE
    /\ UNCHANGED <<webVars, connVars, workerVars, storeVars, dbUp, incidents>>

WebReconnects ==
    /\ conn = "reconnecting"
    /\ natsUp
    /\ conn' = "connected"
    /\ UNCHANGED <<webVars, outbuf, published, workerVars, storeVars, faultVars>>

\* Mutated: the connection waits for NATS without limit.
WebNeverGivesUp ==
    /\ conn = "reconnecting"
    /\ ~natsUp
    /\ UNCHANGED vars

\* nats.Connect without options: after the default number of attempts the
\* connection is closed for good, with what it had buffered.
WebGivesUp ==
    /\ conn = "reconnecting"
    /\ ~natsUp
    /\ conn' = "closed"
    /\ outbuf' = <<>>
    /\ UNCHANGED <<webVars, published, workerVars, storeVars, faultVars>>

\* nats.MaxReconnects(-1): a worker never gives up, and resubscribes.
WorkerReconnects(w) ==
    /\ worker[w] = "reconnecting"
    /\ natsUp
    /\ worker' = [worker EXCEPT ![w] = "subscribed"]
    /\ UNCHANGED <<webVars, connVars, inbox, current, storeVars, faultVars>>

DbFails ==
    /\ dbUp
    /\ Incident("db_outage")
    /\ dbUp' = FALSE
    /\ UNCHANGED <<webVars, connVars, workerVars, storeVars, natsUp>>

DbRecovers ==
    /\ ~dbUp
    /\ dbUp' = TRUE
    /\ UNCHANGED <<webVars, connVars, workerVars, storeVars, natsUp, incidents>>

-----------------------------------------------------------------------------
(* history-worker: the subscription's handler *)

\* Mutated: a handler per message, whatever order they are scheduled in.
TakeAny(w) ==
    /\ worker[w] \in {"subscribed", "reconnecting"}
    /\ current[w] = NoEvent
    /\ \E i \in DOMAIN inbox[w] :
          /\ current' = [current EXCEPT ![w] = inbox[w][i]]
          /\ inbox' = [inbox EXCEPT ![w] = SubSeq(@, 1, i - 1) \o SubSeq(@, i + 1, Len(@))]
    /\ UNCHANGED <<webVars, connVars, worker, storeVars, faultVars>>

\* Mutated: the next message replaces the one being handled.
TakeWhileBusy(w) ==
    /\ worker[w] \in {"subscribed", "reconnecting"}
    /\ inbox[w] # <<>>
    /\ current' = [current EXCEPT ![w] = Head(inbox[w])]
    /\ inbox' = [inbox EXCEPT ![w] = Tail(@)]
    /\ UNCHANGED <<webVars, connVars, worker, storeVars, faultVars>>

\* nats.go runs the handler of one subscription for one message at a time.
Take(w) ==
    /\ worker[w] \in {"subscribed", "reconnecting"}
    /\ current[w] = NoEvent
    /\ inbox[w] # <<>>
    /\ current' = [current EXCEPT ![w] = Head(inbox[w])]
    /\ inbox' = [inbox EXCEPT ![w] = Tail(@)]
    /\ UNCHANGED <<webVars, connVars, worker, storeVars, faultVars>>

\* ParseEvent or validateEvent rejects: logged, nothing stored.
Discard(w) ==
    /\ current[w] \in Foreign
    /\ current' = [current EXCEPT ![w] = NoEvent]
    /\ UNCHANGED <<webVars, connVars, worker, inbox, storeVars, faultVars>>

\* Mutated: a handler that saw no acknowledgement runs the INSERT again.
CreateHistoryItemRetries(w) ==
    /\ current[w] \in Solves
    /\ dbUp
    /\ Len(history) < 3
    /\ history' = Append(history, <<current[w], w>>)
    /\ UNCHANGED <<webVars, connVars, workerVars, dropped, faultVars>>

\* Mutated: the event is stored without validateEvent.
CreateHistoryItemUnchecked(w) ==
    /\ current[w] # NoEvent
    /\ dbUp
    /\ history' = Append(history, <<current[w], w>>)
    /\ current' = [current EXCEPT ![w] = NoEvent]
    /\ UNCHANGED <<webVars, connVars, worker, inbox, dropped, faultVars>>

\* The INSERT commits.  When only its acknowledgement is lost the handler logs an
\* error and ends all the same, so the two outcomes are one step.
CreateHistoryItem(w) ==
    /\ current[w] \in Solves
    /\ dbUp
    /\ history' = Append(history, <<current[w], w>>)
    /\ current' = [current EXCEPT ![w] = NoEvent]
    /\ UNCHANGED <<webVars, connVars, worker, inbox, dropped, faultVars>>

\* The INSERT fails (database down, or db.Close has run): logged, no retry.
CreateHistoryItemFails(w) ==
    /\ current[w] \in Solves
    /\ ~dbUp \/ worker[w] = "closing"
    /\ current' = [current EXCEPT ![w] = NoEvent]
    /\ UNCHANGED <<webVars, connVars, worker, inbox, storeVars, faultVars>>

-----------------------------------------------------------------------------
(* Stops, crashes and restarts *)

\* SIGTERM: Run leaves its select and calls Shutdown.
WebStops ==
    /\ web = "up"
    /\ Incident("web_stop")
    /\ web' = "draining"
    /\ UNCHANGED <<request, publisher, connVars, workerVars, storeVars, natsUp, dbUp>>

\* The process ends: its goroutines and what it had buffered end with it.
WebDies ==
    /\ web' = "down"
    /\ request' = [r \in Solves |-> IF request[r] \in {"handling", "responding"}
                                      THEN "cut" ELSE request[r]]
    /\ publisher' = [e \in Events |-> IF e \in Solves /\ publisher[e] = "ready"
                                        THEN "killed" ELSE publisher[e]]
    /\ conn' = "closed"
    /\ outbuf' = <<>>

\* Shutdown waits for the handlers, not for their goroutines; then the deferred
\* nc.Close flushes what a live connection has buffered.
WebExits ==
    /\ web = "draining"
    /\ \A r \in Solves : request[r] \notin {"handling", "responding"}
    /\ conn = "connected" => outbuf = <<>>
    /\ WebDies
    /\ UNCHANGED <<published, workerVars, storeVars, faultVars>>

\* A crash, a listener error, or Shutdown's 30 seconds running out.
WebCrashes ==
    /\ web # "down"
    /\ Incident("web_crash")
    /\ WebDies
    /\ UNCHANGED <<published, workerVars, storeVars, natsUp, dbUp>>

\* Run succeeds only with both connections made; otherwise the pod is restarted.
WebStarts ==
    /\ web = "down"
    /\ natsUp /\ dbUp
    /\ web' = "up"
    /\ conn' = "connected"
    /\ UNCHANGED <<request, publisher, outbuf, published, workerVars, storeVars, faultVars>>

\* SIGTERM: Run returns and nc.Close (deferred last) drops the queue undrained.
WorkerStops(w) ==
    /\ worker[w] \in {"subscribed", "reconnecting"}
    /\ Incident("worker_stop")
    /\ worker' = [worker EXCEPT ![w] = "closing"]
    /\ inbox' = [inbox EXCEPT ![w] = <<>>]
    /\ UNCHANGED <<webVars, connVars, current, storeVars, natsUp, dbUp>>

WorkerDies(w) ==
    /\ worker' = [worker EXCEPT ![w] = "down"]
    /\ inbox' = [inbox EXCEPT ![w] = <<>>]
    /\ current' = [current EXCEPT ![w] = NoEvent]

\* main returns, whatever the handler is doing.
WorkerExits(w) ==
    /\ worker[w] = "closing"
    /\ WorkerDies(w)
    /\ UNCHANGED <<webVars, connVars, storeVars, faultVars>>

WorkerCrashes(w) ==
    /\ worker[w] # "down"
    /\ Incident("worker_crash")
    /\ WorkerDies(w)
    /\ UNCHANGED <<webVars, connVars, storeVars, natsUp, dbUp>>

\* Run: ConnectDB, nats.Connect and StartWorker must all succeed.
WorkerStarts(w) ==
    /\ worker[w] = "down"
    /\ natsUp /\ dbUp
    /\ worker' = [worker EXCEPT ![w] = "subscribed"]
    /\ UNCHANGED <<webVars, connVars, inbox, current, storeVars, faultVars>>

-----------------------------------------------------------------------------
SolveStep(r) == \/ AcceptSolve(r) \/ RefuseSolve(r) \/ SpawnPublisher(r) \/ AnswerSolve(r)
                \/ PublishProblemSolved(r) \/ PublishFails(r)

HandlerStep(w) == \/ Take(w) \/ Discard(w)
                  \/ CreateHistoryItem(w) \/ CreateHistoryItemFails(w)

WorkerStep(w) == \/ WorkerReconnects(w) \/ WorkerStops(w) \/ WorkerExits(w)
                 \/ WorkerCrashes(w) \/ WorkerStarts(w)

WebStep == Flush \/ WebReconnects \/ WebGivesUp \/ WebStops \/ WebExits \/ WebCrashes \/ WebStarts

ServerStep == NatsFails \/ NatsRecovers \/ DbFails \/ DbRecovers

Next == \/ \E r \in Solves : SolveStep(r)
        \/ \E w \in Workers : HandlerStep(w) \/ WorkerStep(w)
        \/ \E j \in Foreign : ForeignPublish(j)
        \/ WebStep
        \/ ServerStep

Spec == Init /\ [][Next]_vars

\* The Go scheduler runs every runnable goroutine, Kubernetes ends and restarts
\* processes, and a client's reconnect loop gets its turn; nothing is assumed of
\* clients, of incidents, or of how long an outage lasts.
Fairness ==
    /\ \A r \in Solves : /\ WF_vars(RefuseSolve(r) \/ SpawnPublisher(r))
                         /\ WF_vars(AnswerSolve(r))
                         /\ WF_vars(PublishProblemSolved(r) \/ PublishFails(r))
    /\ \A w \in Workers : /\ WF_vars(HandlerStep(w))
                          /\ WF_vars(WorkerExits(w))
                          /\ WF_vars(WorkerReconnects(w))
                          /\ WF_vars(WorkerStarts(w))
    /\ WF_vars(Flush)
    /\ WF_vars(WebReconnects \/ WebGivesUp)
    /\ WF_vars(WebExits)
    /\ WF_vars(WebStarts)

FairSpec == Spec /\ Fairness

-----------------------------------------------------------------------------
(* Where the event of a solve is *)

\* Its goroutine has not run yet, or Publish has buffered it.
Unrouted(r) == publisher[r] = "ready" \/ r \in Range(outbuf)

\* w's subscription or handler holds a copy.
Held(r, w) == r \in Range(inbox[w]) \/ current[w] = r

Recorded(r) == \E w \in Workers : <<r, w>> \in Range(history)

Live(r) == Unrouted(r) \/ \E w \in Workers : Held(r, w)

AccountedFor(r) == \/ Unrouted(r)
                   \/ \A w \in Workers : \/ Held(r, w)
                                         \/ <<r, w>> \in Range(history)
                                         \/ <<r, w>> \in dropped

\* No goroutine had its event yet, or nothing has taken it away since.
Kept(r) == publisher[r] = "none" \/ AccountedFor(r)

\* Both services run, connected and subscribed, and the database answers.
AllUp == /\ web = "up" /\ conn = "connected" /\ natsUp /\ dbUp
         /\ \A w \in Workers : worker[w] = "subscribed"

-----------------------------------------------------------------------------
(* Properties *)

\* One solve never becomes two rows (worker.go:267, "Each event processed maximum
\* one time").  True of one worker; two plain subscriptions each get a copy.
AtMostOnce == \A i, j \in DOMAIN history : history[i][1] = history[j][1] => i = j

\* Whatever stops, crashes and reconnects, one worker never records one solve
\* twice: nothing between SolveHandler and the INSERT retries or redelivers.
AtMostOncePerWorker == IsInjective(history)

\* An event is in one place of its path: while it waits to be routed no worker
\* has a copy or a row of it, a worker's queue, handler and rows share none, and
\* no buffer holds it twice; before its goroutine exists it is nowhere.
OnePlace ==
    /\ IsInjective(outbuf)
    /\ \A r \in Solves : request[r] \in {"idle", "handling"} => publisher[r] = "none"
    /\ \A e \in Events :
          /\ publisher[e] = "ready" => e \notin Range(outbuf)
          /\ publisher[e] = "none" => ~Live(e) /\ ~Recorded(e)
          /\ Unrouted(e) => \A w \in Workers : ~Held(e, w) /\ <<e, w>> \notin Range(history)
    /\ \A w \in Workers :
          /\ IsInjective(inbox[w])
          /\ current[w] \notin Range(inbox[w])
          /\ \A e \in Events : Held(e, w) => <<e, w>> \notin Range(history)

\* While both services run, connected and subscribed, and the database answers, also
\* after any earlier crashes and outages, only a further incident takes a kept event
\* away or leaves that state: what publishing without acknowledgement (queue.go:213)
\* loses is lost between an incident and the reconnect and resubscription after it.
OnlyIncidentsLose ==
    [][AllUp /\ incidents' = incidents =>
           AllUp' /\ \A r \in Solves : Kept(r) => Kept(r)']_vars

\* One worker stores its rows in the order Publish accepted their events, across
\* buffering, reconnects and restarts (the handler of a subscription is serial;
\* worker.go:357-358 describes one goroutine per message, which would break it).
PublishOrderKept ==
    \A i, j \in DOMAIN history :
        i < j /\ history[i][2] = history[j][2] =>
            \E k, l \in DOMAIN published : /\ published[k] = history[i][1]
                                           /\ published[l] = history[j][1]
                                           /\ k < l

\* An answered solve is refused or answered, whatever happens to NATS or the
\* database: nothing the handler waits for depends on the publish.
EveryRequestEnds ==
    \A r \in Solves : request[r] \in {"handling", "responding"}
                         ~> request[r] \in {"done", "refused", "cut"}

\* Every event is eventually stored or gone: none waits for ever in the goroutine,
\* the connection's buffer or a subscription, even when NATS never comes back.
EventSettles == \A r \in Solves : publisher[r] = "ready" ~> publisher[r] # "ready" /\ ~Live(r)

\* Also after crashes and outages, once both services are connected again every solve
\* whose event is still to be published is eventually in the history table, unless a
\* further incident or a full subscription intervenes.
EverySolveRecorded ==
    \A r \in Solves, n \in 0..MaxIncidents :
        publisher[r] = "ready" /\ AllUp /\ incidents = n
            ~> \/ Recorded(r)
               \/ incidents > n
               \/ \E w \in Workers : <<r, w>> \in dropped

\* "Prevents data loss in async NATS publish goroutines" (web-server/main.go:63):
\* when a graceful shutdown ends the process no goroutine has an event left.
ShutdownWaitsForPublishers ==
    [][web = "draining" /\ web' = "down" => \A r \in Solves : publisher[r] # "ready"]_vars

\* "Connection is persistent and will auto-reconnect on network issues"
\* (queue.go:36): with NATS back for good, the connection is.
AutoReconnects == <>[](natsUp /\ web = "up") => <>[](conn = "connected")

\* EventPipeline implements HistoryLedger.
Ledger == INSTANCE HistoryLedger WITH
    solved <- {r \in Solves : publisher[r] # "none"},
    open <- {r \in Solves : Unrouted(r)},
    copies <- {c \in Solves \X Workers : Held(c[1], c[2])},
    rows <- history

\* Every behaviour of the pipeline is one of the ledger: a solve is announced once,
\* fanned out at one instant, each copy stored at most once, and what is lost
\* stays lost.
ImplementsLedger == Ledger!Spec

=============================================================================
