# MathWizz: specification, model checking and proofs

MathWizz solves math problems for logged-in users and keeps a history of what
was solved. It is three services: a browser **frontend** (React), a
**web-server** (Go, HTTP) and a **history-worker** (Go), with PostgreSQL for
users and history and NATS between the two Go services. This directory holds
TLA+ modules of the parts whose behaviour is hard to test, the TLC
configurations that check them, and TLAPS proofs.

## 1. Inventory

| Part | State it keeps | Operations | Talks to |
|---|---|---|---|
| solve requests (`web-server/handlers.go` SolveHandler, `queue.go`) | one goroutine per request and one more per event | solve, answer, publish | NATS connection |
| web-server's NATS connection (`queue.go` ConnectNATS) | connected / reconnecting / closed, write and reconnect buffer | publish, flush, reconnect, give up | broker |
| history-worker (`worker.go`, `database.go`) | a subscription queue, one running handler | parse, validate, INSERT | broker, `history` table |
| web-server process (`main.go` Run) | listener, in-flight requests, deferred closes | start, serve, SIGTERM + Shutdown | all |
| history-worker process (`main.go` Run) | both connections | start, SIGTERM | broker, database |
| rate limiter (`middleware.go`) | map address -> token bucket, mutex | getLimiter, Allow | /register and /login |
| accounts (`handlers.go`, `middleware.go`, `database.go`) | `users` table, signed tokens, cookies | register, login, AuthMiddleware | database, browser |
| solver (`solver.go`) | a goroutine, two channels and a timer per call | validateComplexity, SolveMath | - |
| history query (`database.go` GetHistoryForUser) | - | clamp, page | `history` table |
| browser session (`App.jsx`, `api.js`, pages) | cookies, App state, pending fetches | login, register, logout, solve, history | web-server |
| health, CORS, validators, rendering, Tekton pipelines | none | - | - |

What is hard here, and what makes each part correct:

- *Event path.* Publishing is fire-and-forget in a goroutine of its own; NATS
  core keeps nothing; both services may stop, crash and restart; broker and
  database may be away. Correct means: no solve is stored twice by a worker,
  nothing is stored that was not solved, rows keep the publish order of a
  connection, nothing is lost without a reason, nothing waits for ever, and no
  request waits for the event path.
- *Rate limiter.* Concurrent first requests of one address must share one
  bucket; admissions in any window are bounded; one address never pays for
  another; every request gets a verdict.
- *Accounts.* Concurrent registrations of one address; an INSERT that is stored
  without its answer; restarts with another secret; a shutdown under running
  handlers. Correct means: one winner per address, a token names the user whose
  password was checked and nobody else, a call runs only as such a user, and a
  clean shutdown cuts nobody off.
- *Solver.* The timeout races a late result, an error or a panic; the caller
  gets exactly one outcome and the goroutine never blocks for ever.
- *History query.* Pages taken while several workers insert rows, whose
  `created_at` is read before the row is visible. A client that reads to the end
  must have every row that was there when it began.
- *Session.* A late login answer after a logout, several tabs over one cookie jar,
  expired cookies, answers for pages that were left. What a page shows must be
  what was asked there, of a user who was there, and a logout must hold.

`PROJECT.json` lists every component and, under `hazards`, each hazard at the
line where it bites.

## 2. Modules

| Module | Models | Proofs |
|---|---|---|
| `HistoryLedger` | the abstract promise of the history: announced once, fanned out at one instant, stored at most once per worker, lost for good | - |
| `EventPipeline` | SolveHandler, publishing goroutines, NATS connection, broker, subscriptions, handler, table, stops and crashes | `EventPipelineProofs`, `PublishOrderProofs` |
| `HostBuckets` | the abstract promise of the rate limiter: every host has a full bucket from the beginning and each request is decided by it in one step; no map, no lock, no port | - |
| `RateLimiter` | RateLimitMiddleware: the map of limiters under its mutex, each host's token bucket, requests interleaved statement by statement | `RateLimiterProofs` |
| `Solver` | SolveMath: limits, evaluation goroutine with its recover, channels, deadline, select, conversion | `SolverProofs` |
| `AccountBook` | the abstract promise of /register and /login: an address is entered once and for good, only the one who entered it and logins with its password are granted | - |
| `Accounts` | RegisterHandler, LoginHandler, the users table, tokens, AuthMiddleware, the life of the process around them | `AccountsProofs` |
| `HistoryPages` | HistoryHandler and GetHistoryForUser while workers insert | `HistoryPagesProofs` |
| `Session` | cookies, api.js, App and its four pages in several tabs | `SessionProofs` |
| `DataLemmas` | what append, head/tail and truncation do to a queue's elements; induction along numbers | itself |
| `MC...` | the instances for TLC | - |

The modules meet where their interfaces are: `EventPipeline` hands an event to
the INSERT whose row `HistoryPages` reads; the token that `Accounts` grants is
the one whose life in the browser `Session` follows; `RateLimiter` decides
whether a request reaches `Accounts`, and `Solver` what `EventPipeline` answers.
They are not composed into one state space: each leaves open (as a choice) what
the other decides.

### EventPipeline and the code

A member of `Solves` is one POST /solve together with its event: user, problem
and answer never change on the way, so the identity of the request stands for
them. A member of `Foreign` is a malformed payload another client puts on the
subject; the worker's tests publish such payloads.

| Variable | In the code |
|---|---|
| `request` | where SolveHandler is: decoding and solving, goroutine started and answer still to be written, answered, refused with 400, cut by the end of the process |
| `publisher` | the goroutine SolveHandler starts before it writes the answer |
| `conn`, `outbuf` | `Server.NATS`: its state and what `Publish` has buffered (write buffer when connected, reconnect buffer when not) |
| `web` | Run: serving, in Shutdown, gone |
| `worker`, `inbox`, `current` | a worker's connection, the queue of its subscription, the event its handler is in ProcessEvent with |
| `history` | the `history` table with, for each row, the worker that wrote it |
| `natsUp`, `dbUp` | broker and PostgreSQL |
| `incidents` | how many incidents have happened (bounded by `MaxIncidents`) |
| `dropped`, `published` | ghosts: what full subscriptions dropped; the order in which Publish accepted events |

Modelling decisions:

- `StartWorker` calls `nc.Subscribe`, not `QueueSubscribe`: `FanOut` gives a
  copy to every subscribed worker. nats.go runs the handler of one subscription
  for one message at a time, so `current` holds one event (the comments of
  `worker.go` 357-358 speak of one goroutine per message; that reading is the
  mutant `TakeAny`, and it breaks `PublishOrderKept`).
- The web-server connects with `nats.Connect(url)` and no options, so after the
  library's default number of attempts the connection is closed for good
  (`WebGivesUp`); the worker sets `MaxReconnects(-1)` and never gives up.
- An INSERT that commits but whose acknowledgement is lost makes ProcessEvent
  return an error. As nothing is retried the state afterwards is that of a
  success, so both are the action `CreateHistoryItem`; the mutant
  `CreateHistoryItemRetries` is the retry that would store the row twice.
- A broker outage is seen by both clients in the same step. What a client had
  just written or been sent is lost or kept by choice, which covers the
  messages a client handles before it notices. Reconnects are separate steps in
  any order, so the web-server may flush before a worker has resubscribed.
- `WebExits` waits for the handlers, as `Shutdown` does, and for a live
  connection's buffer, as `nc.Close` flushes it; it does not wait for
  goroutines. A crash, a listener error and Shutdown's timeout end the process
  at any moment (`WebCrashes`).
- The code publishes without acknowledgement and subscribes without a durable
  queue, so incidents do lose events: what a goroutine, a buffer, a queue or a
  handler held when its process or connection ended, and what was flushed before
  a worker had resubscribed. No property denies that. `OnlyIncidentsLose` and
  `EverySolveRecorded` confine it to the time from an incident until both
  services are connected and subscribed again (`AllUp`), and `EventSettles` says
  that such an event does not stay half-way.
- Not in the model: that `database/sql` may itself repeat a statement on a
  connection the driver reports as bad before use; the wording of answers;
  partial network failures that cut one client only while the broker is up
  (an outage after which the other client reconnects first behaves the same).

### RateLimiter and the code

| Variable | In the code |
|---|---|
| `pc` | where a request is in RateLimitMiddleware: before the mutex, in getLimiter's insert, at its deferred unlock, after it, between Allow's clock and Allow's bucket, passed or answered 429 |
| `mu`, `limiters`, `limiter` | `rl.mu`, the map, and the pointer getLimiter returned; a limiter is named after the request that created it |
| `bucket` | the `rate.Limiter`: tokens and the time they were counted at |
| `now`, `clock` | the clock, and what a request's `Allow` read of it |
| `admitted`, `rewound` | ghosts: a host's admissions in order; the ticks its bucket went back |

`golang.org/x/time/rate` is external and modelled from the version `go.mod`
pins. Two things in it matter. `Allow` reads the clock before it locks the
bucket, so of two requests of one host the one with the older clock may be
served last; the bucket then takes the older time as its own and the time in
between is credited twice. `WindowBound` therefore has a term for the ticks
gone back (`rewound`), and without it the bound is false. Tokens are counted in
ticks (one per tick, `Period` for an admission), which keeps the arithmetic
exact where the code uses float64.

`Buckets` maps this to `HostBuckets`: a host without a limiter has a full
bucket, a request that is between two statements of getLimiter is still
pending, and one that has read Allow's clock has been observed. What is left
for a client to see is exactly the abstract module, so creating limiters on
demand under the mutex is invisible; the mutant that looks the map up without
the mutex is not.

### Solver and the code

| Variable | In the code |
|---|---|
| `problem` | the argument: the sequence of its characters' classes |
| `call`, `answer` | where a call of SolveMath is and what it returned |
| `goroutine`, `product` | its goroutine and what `expression.Evaluate` came to: a value with its dynamic type, an error or a panic |
| `resultChan`, `errChan` | the two channels, each made with room for one |
| `timer` | the context with its deadline, fired or cancelled |

An evaluation may take any time, for ever included, and give any product:
`govaluate` is external. The select takes any ready case, so a deadline that
has passed may lose to a message and win over one. The model stops at
SolveMath's return; SolveHandler sees an answer or an error (`AcceptSolve`,
`RefuseSolve` of `EventPipeline`). A float64 is counted in halves so that
truncation towards zero differs from rounding. Beyond the int range Go leaves
`int(v)` to the implementation: `IntsOf` allows what amd64 and arm64 give. The
`case int` of the switch is left out, as `govaluate` computes in float64.

### Accounts and the code

| Variable | In the code |
|---|---|
| `web`, `secret`, `starts` | how far `Run` is; `jwtSecret`; how often the process was started (bounded) |
| `step`, `row`, `userId`, `token` | where a request is in RegisterHandler or LoginHandler, and the locals it has by then |
| `users`, `nextId` | the users table and the sequence behind its `id` |
| `call`, `cookie`, `header`, `callUser` | a /history or /solve request, the two places a token may be in, and `userIDKey` in its context |
| `now` | the clock of the process, in ticks of `TokenLife` |
| `expected`, `disrupted`, `checkedAt` | ghosts: logins sent after their account's 201; whether a crash or an overdue Shutdown happened; when a call was checked |

Every call a handler makes (bcrypt, INSERT, SELECT, sign, answer) is a step, so
requests interleave between any two of them. An INSERT has three outcomes:
answered, refused, and stored with the answer lost (`CreateUserUnanswered`). A
hash stands for its password (the 72-byte limit of bcrypt, past which it
returns an error, is the failing branch of `HashPassword`). Signing with HMAC
and a byte-slice secret does not fail, so the 500 after GenerateToken is left
out. Every error of GetUserByEmail is answered 401; the model keeps "no such
row" (`refused`) apart from an error of the database (`misjudged`), because
`RegisteredCanLogIn` is true of the first only. OPTIONS requests and CORS
change no state and are left out.

### HistoryPages and the code

| Variable | In the code |
|---|---|
| `delivery`, `stamp` | an event in CreateHistoryItem of its worker: before `time.Now()`, before the commit, stored, failed |
| `rows` | the history table |
| `reader`, `limit`, `offset`, `page`, `seen` | a client of GET /history, its parameters, the last page and all items so far |
| `start` | ghost: its user's rows when it got the first page |

`Listings` is what ORDER BY created_at DESC allows: rows with one `created_at`
come in any order, another one in every query. That is why `NothingSkipped` and
`ReadInOrder` speak of rows without ties: two queries may swap tied rows over a
page boundary, and then one of them is never seen. Clients advance by the
number of items they got. One that advances by the limit it *asked for* skips
rows when that limit was above 200.

### Session and the code

| Variable | In the code |
|---|---|
| `token`, `tokenUntil`, `activeUntil` | the `authToken` cookie, its end, the end of `sessionActive` |
| `authenticated`, `currentPage` | App's state in each tab |
| `view` | the state of the page a tab shows: answer or items, loading, error |
| `flight`, `sent` | fetch calls up to the end of the code behind their await; how many a tab made (bounded) |
| `last`, `held`, `loggedOut` | ghosts: what was last submitted on a solver page; whose session there was since a tab was loaded or logged out; nobody has logged in since a logout |

A call is sent, answered, arrived (the browser has obeyed Set-Cookie, the
JavaScript has not run yet) or failed, at any time and in any order. A body may
break off after the cookies were set (`Fail` of an arrived call). Browser and
server share one clock. React is external: when another page is shown the old
one's state is gone and what its calls set is void, so solve and history calls
of a left page are dropped; a form's call is kept, because it still reaches App.
Production builds only (StrictMode's second effect is left out). Which text is
in an input is not state: any problem, and an account of `Accounts[t]`, may be
submitted. The `mockHistory` prop is for tests.

What the model shows and the code leaves as it is: a login answer that arrives
after a logout logs the tab in again (therefore `LogoutHolds` ends at the next
login); a login's continuation that runs after another tab's logout leaves App
authenticated without a session, and every call of it fails; a HISTORY page
whose refresh succeeds keeps an earlier error beside fresh items, and one whose
first fetch fails has no REFRESH button.

## 3. Runs

| Run | Instance | Question |
|---|---|---|
| `pipeline_one_worker` | 2 solves, 1 malformed payload, 1 worker, subscription of 2, reconnect buffer of 1, any 3 incidents | type invariant; at most one row per solve; an event is in one place; rows in publish order |
| `pipeline_two_workers` | 2 solves, 2 workers, subscription of 1, any 2 incidents | at most one row per solve and worker; while everything is up, before or after incidents, nothing is lost but to a full subscription; refinement of `HistoryLedger` |
| `pipeline_live` | 2 solves, 1 malformed payload, 1 worker, any 2 incidents, `FairSpec` | every request ends; every event is stored or gone; from when everything is up until the next incident, every solve is stored |
| `rate_limit` | 3 requests of one host from two ports and 1 of another; burst 2, 2 ticks per token, clock up to 3 | type invariant; one bucket per host; admissions in any window; refused only after an own burst, and only for a Period; every request gets a verdict; refinement of `HostBuckets` |
| `solver_calls` | 2 calls, one with every problem up to length 4, one with a sum; limits 3 characters, 1 operator, 1 level, 1 digit | type invariant; the counters are the limits; one message per evaluation; every answer is the call's own; every call returns; no goroutine stays blocked |
| `accounts` | 2 registrations of one address with different passwords, 1 login with the first one's, 1 without a password, 1 call; 2 secrets, 2 starts, clock up to 1 | type invariant; one winner; tokens and calls only for owners; a registered user can log in; a clean shutdown cuts nobody; refinement of `AccountBook` |
| `history_pages` | 2 workers, 3 rows of the reading user and 1 of another, limits absent, 2, 5 and no number; maximum 2, default 1, clock up to 2 | type invariant; own rows only; nothing skipped; newest first |
| `browser_session` | 2 tabs with 2 calls and 1, a user each, 2 problems, cookies and tokens of 1 tick, clock up to 1, `FairSpec` | type invariant; calls carry a token; answers and items belong to the page; a logout holds; loading ends |
| `solver_overflow` | 2 calls, results -2.5 and 9, ints up to 7 | refutes "overflow should be detected and return error" (solver_test.go:220) |
| `two_workers_duplicate` | 1 solve, 2 workers | refutes "each event processed maximum one time" (worker.go:267) for two workers |
| `shutdown_loses_publish` | 1 solve, a SIGTERM | refutes "prevents data loss in async NATS publish goroutines" (main.go:63) |
| `reconnect_gives_up` | 1 solve, an outage, `FairSpec` | refutes "persistent and will auto-reconnect" (queue.go:36) |

Bounds. Two solves make every ordering question real (which publishes, flushes,
is handled first); the malformed payload makes the handler's other exit real
and, with two solves, fills a queue of two. A reconnect buffer of one makes it
overflow. Three incidents are enough for an outage, a restart of one service
and a failing INSERT in one behaviour. Requests and workers are interchangeable,
so the safety runs use symmetry; the liveness run does not. The system stops
when all requests have ended, so deadlock is not checked.

For the rate limiter, three requests of one host are one more than the burst,
so that one may be refused, and with a clock of up to three ticks a token comes
back while requests are between their clock and their bucket. The second
host's request is what a shared bucket would wrong. For the solver the limits
are scaled down (the code's are 100 characters, 50 operators, 10 levels, 15
digits) so that problems up to length 4 meet and pass each of them in every order of
characters; the two calls race with their own deadlines and with each other's
panics.

For the accounts, two registrations of one address are the race; the two starts
give a restart with the same or the other secret in every place, and one tick
is a whole `TokenLife`, so that tokens expire between any two steps. The call
may carry any token a client holds, or none. For the history, three rows with
pages of one or two make several pages with rows committed in front of and
behind the offset, ties included, and three clock values let the later of two
stamps commit first. For the session, two calls in one tab overlap (login and
login, login and solve, solve and history) and the other tab's login changes
the cookies under them; one tick is a whole lifetime. Longer runs add no new
kind of overlap: a page has one call of its own at a time, which is proved
(`OnePageCall`).

Fairness (`FairSpec`). For the pipeline: weak fairness of every goroutine the
Go scheduler runs (handler, publisher, flusher, subscription), of the reconnect
loops, of the end of a process that is closing and of Kubernetes' restart of
one that is down. Nothing is assumed of clients, of incidents, or of the length
of an outage: `EventSettles` holds although NATS may never return, because the
web-server's connection gives up, and although the database may never return,
because the handler gives up. For the rate limiter: weak fairness of every
request's goroutine once it has arrived (Go's mutex does not starve a waiter,
and a request takes it once); none of arrivals or of the clock. For the solver:
weak fairness of the send, of the timer and of the select; none of the
evaluation, which may never end, and none of the calls' start. For the session:
weak fairness of "some call in flight goes on", the network's and the event
loop's part; none of clicks, of the clock or of one call before another. As
each tab makes boundedly many calls, it is enough.

Disagreements between code and comments or tests are listed under `findings`.
More are seen in the modules and not run. A publish during an outage is *not* "lost
silently" (queue.go:119): the client buffers it (`CanPublish`). A
disconnect-reconnect cycle is *not* "without data loss"
(worker_integration_test.go:806): after an outage the web-server may flush
before the worker has resubscribed. Solved problems need *not* appear in the
history "in order" (solve_integration_test.go:588): each event has a goroutine
of its own, and only the order of the publishes is kept (`PublishOrderKept`).
The ports of one address are *not* "treated as different" (middleware.go:598):
`Host` drops them. A burst of 5 with 5 tokens a minute is *not* "5 requests per
minute" (middleware.go:569): `WindowBound` allows the burst and the refill,
nearly ten in a minute. The example with "11 levels deep" (solver.go:146) has ten
parentheses and is accepted. A registration whose INSERT's answer is lost gets
500 for an account that exists, and 500 again on every retry. A database error
during a login is answered as "invalid credentials" (handlers.go:191).
`response.json()` consumes the body, so `response.text()` behind it rejects and a
plain-text error (AuthMiddleware's 401, the rate limiter's 429) shows the
fallback, not "full HTML text" or the text of the answer (api.js:92-93,
115-117). "sessionActive may still exist until next API call returns 401"
(api.js:151): nothing clears it at a 401.

## 4. Proofs

`EventPipelineProofs` proves, for every set of solves, payloads and workers,
every limit and any number and kind of incidents, from the named assumptions
of `EventPipeline` (disjoint identifiers, positive limits):

- `TypeCorrect`: `Spec => []TypeOK`.
- `IInvCorrect`: `IInv == TypeOK /\ OnePlace` is inductive. `OnePlace` is the
  strengthening at-most-once needs: a row is new only because the handler's
  event is in no row, which holds because queue, handler and rows of a worker
  are disjoint, which holds because an event is routed once, which holds
  because buffer, goroutine and queues are disjoint and without repetition.
- `AtMostOncePerWorkerCorrect`, `AtMostOnceCorrect` (the latter for one worker).
- `OnlyIncidentsLoseCorrect`, an action property: in a state in which both
  services run, connected and subscribed, and the database answers (`AllUp`), a
  step that is no incident keeps it so and keeps every event that was still
  there (`CalmStep`). `NoLossWithoutIncidentCorrect` is what follows for the
  time before the first incident.
- `ImplementsLedgerCorrect`: the refinement of `HistoryLedger`. Each action is
  the abstract action it maps to (`SpawnIsSolve`, `FlushIsRoute`,
  `InsertIsRecord`), a loss (`ShrinkForgets`) or a stutter (`StandsStill`).
- `LedgerPromiseCorrect`: the ledger's own steps guarantee what it promises, no
  event twice by one worker and nothing that was not announced, without a look
  at the pipeline. `NothingInventedCorrect` is what the pipeline inherits from
  it through the refinement.
- `NothingStrandedCorrect`: whatever is unfinished has a running process or an
  open queue to go on in, and no client believes in a broker that is down. This
  is the part of the liveness properties that fairness does not give.

Most actions only take events out of their places; `Shrinks` says so once, and
`ShrinkKeepsPlace` and `ShrinkForgets` use it for both the invariant and the
refinement.

`DataLemmas` holds the facts on sequences, and induction. The library's
induction theorems take the formula as an operator, which the provers cannot
instantiate, so here the formula is a set: `IntervalInduction` puts all of
`0..n` into a set that 0 is in and that is closed under the next number. It
comes down to the least number that is left out (`LeastNumber`), which the
library's well-foundedness of strict subsets gives.

`RateLimiterProofs` proves, for every set of requests and hosts, every burst,
period and clock bound, that `IInv` is inductive. Its parts: `TypeOK`; `LockInv`
(who is between lock and unlock holds the mutex); `LimiterInv` (what it saw of
the map is still true, a request past getLimiter has the limiter its host
has in the map, and every limiter in the map was made by a request of its
host); `AccountInv` (a bucket's tokens are bounded by what the admissions since
any earlier one and the ticks since, those credited twice included, leave); then
`WindowBound` and `DeniedOnlyAfterBurst`. Theorems: `TypeCorrect`,
`OneLimiterPerHostCorrect` (from the first three), `WindowBoundCorrect`,
`DeniedOnlyAfterBurstCorrect` and `WaitIsEnoughCorrect`, an action property;
`ImplementsBucketsCorrect`, the refinement of `HostBuckets` (a step of the lock
is a stutter because a new limiter is full, and Allow of a request is that of
its host's bucket because of `LimiterInv`); and `LockReleasableCorrect`: a held
mutex has a holder that the next step of its own brings closer to the unlock.

`PublishOrderProofs` proves `PublishOrderKept`. `PathOrder` says that along a
worker's path (its rows, its handler, its queue, the web-server's buffer) any
two events are in the order of `published`. Stops, crashes and outages only
take events out (`DrainKeepsOrder`), routing and handling move the front of one
place to the end of the next, and Publish adds at the end of both.

`SolverProofs` proves, for every set of calls and results, every largest int
and every limit, that `IInv` is inductive: `TypeOK`, `Phases` (no answer before
the return, no goroutine before the start), `ChannelsOwn` (a message is its
call's own product, in the channel its kind calls for), `OnePlace` (the message
is not yet sent, in one of the channels, or taken: `OneMessage` without
arithmetic) and `AnswerIsOwn`. `OnePlace` is what tells that a channel just read
is empty again, so that a second answer cannot come out of it.

`LimitsEnforcedCorrect` says of problems of every length and of all limits that
validateComplexity accepts exactly those within the limits. The code's counters
of depth and digits are recursive functions along the problem, the limits are
stated with cardinalities (how many more parentheses opened than closed up to a
place, whether some stretch of digits is too long). By `IntervalInduction` each
counter is at every place what it stands for: `DepthsCount`, the difference of
the parentheses up to there, and `NumberLengthsCount`, the length of the stretch
of digits that ends there.
`DeadlineHeldCorrect` and `SendNeverBlocksCorrect` are the safety halves of
`EveryCallReturns` and `EveryGoroutineEnds`: a waiting call has a deadline
armed or passed, and a send finds room, also after the caller has gone.

`AccountsProofs` proves, for every set of requests, calls and secrets and any number
of starts, that `IInv` is inductive: rows are never changed and each address and
id has one (`RowsOK`, `OneRowPerAddress`); a handler past its check knows the id
of a row that matches its request (`KnownOK`), and its token is that row's
(`TokenOK`); calls carry granted tokens and run as their users (`CarriedOK`,
`ServedOK`); an expected login's row exists (`ExpectedOK`); nobody is inside a
process that is down or, undisrupted, closing (`InsideOK`, `CleanOK`).
Theorems: the five safety properties and `ImplementsBookCorrect`, where every
step enters, grants, turns away or stutters. `BookPromiseCorrect` shows that the
book's own steps keep one entry per address for good and grant only who is
entitled; `AccountsStayCorrect`, an action property, is what Accounts inherits:
no step loses or alters an account.

`HistoryPagesProofs` proves, for any number of deliveries, workers, users and
clients and all limits, that a row without ties stands in every listing right
behind all newer rows (`PositionFacts`), so that rows inserted later can only
push it to the back; `AheadOK` turns that into: an untied row of the beginning
that was not seen lies at or behind the offset. An empty page then leaves none.
Rows with ties may be missed, but `EnoughItemsCorrect` says that a client that
is done has at least as many items as there were rows at its beginning.
`NoSurplusCorrect` is the other side: a client never has more items than its
user has rows, although rows pushed behind its offset by inserts are read twice,
so it comes to an empty page after at most as many others as there are rows.
Both are proved only; no run checks them.

`SessionProofs` proves, for any number of tabs, users and calls and all
lifetimes, that `IInv` is inductive: `JarOK` (the session cookie never outlives
the token cookie and its user is in every tab's `held`), `TabOK` (what a page
shows), `OwnerOK` and `OnePageCall` (a page's call is the one it waits for, and
there is one), `DataOK` (whom and what a call's answer is of). `LogoutHolds` is
an action property: a new call needs a session, which `JarOK` excludes after a
logout. `LoadingAwaitedCorrect` is the safety half of `LoadingEnds`: a page is
loading exactly while a call of it is in flight.

The assumptions are the named ones of each module: identifiers are distinct,
limits and rates are positive or natural numbers, results are integers.

Every invariant and every action property or refinement that a passing run
checks is also proved. Model-checked only: the liveness properties
(`EveryRequestEnds`, `EventSettles`, `EverySolveRecorded`,
`EveryRequestDecided`, `EveryCallReturns`, `EveryGoroutineEnds`,
`LoadingEnds`), because ENABLED and fairness are outside the prover's reach;
proved of them is that nothing but the scheduler can hold them up, in the
invariants named above. The runs that refute a claim are counterexamples and
need no proof.

## 5. Not modelled

- Health endpoint and CORS: functions of one request, no state.
- `parseErrorResponse`: which text an error shows is a function of one response;
  that an error is shown is in `Session`. See the remarks above.
- Validators and presentation components: single strings and rendering.
- Environment variables but JWT_SECRET, logging, connection strings.
- Tekton pipelines and images: not part of the running program.
- `web-server/database.go` CreateHistoryItem: no code calls it.
- Partial network failures that reach one client of NATS and not the other, and a
  clock that differs between browser and server.

Three quarters of the lines of the Go files are comments. The map names the
code that a definition translates and not the comment above it, so the part of
the files it covers is small even where every statement is modelled.

## 6. What is left

1. A composition of `Accounts` and `Session`, so that the tokens in the browser meet restarts
   with another secret (today `Session` lets any call fail at any time).
2. Two web-servers behind one address: each has its own rate limiter and
   connection, all share the users table.
3. A closed bound of a host's admissions over the whole life of the process, and
   of how far clocks out of order can raise it, from `WindowBound`.
4. An abstract specification of the solver (a call returns its own answer, an
   error or a timeout, in one step) for `Solver` to implement.

Two hazards have no property, because the code sets no bound that could be
stated: the map of limiters grows with every host, and an evaluation that never
ends keeps its goroutine.
