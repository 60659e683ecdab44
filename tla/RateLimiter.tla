------------------------------- MODULE RateLimiter -------------------------------
(***************************************************************************)
(* RateLimitMiddleware in front of /register and /login                    *)
(* (web-server/middleware.go): the map of limiters behind its mutex, and   *)
(* the token bucket of every client host, with the requests of many        *)
(* goroutines interleaved.                                                 *)
(*                                                                         *)
(* golang.org/x/time/rate v0.3.0 is external.  Allow reads the clock       *)
(* before it takes the bucket's lock, so two requests of one host may be   *)
(* served in the opposite order of their clocks; the bucket then moves     *)
(* back in time.  Tokens are counted in clock ticks: a bucket holds        *)
(* Burst * Period, gains one per tick and an admission takes Period.       *)
(***************************************************************************)
EXTENDS Integers, Sequences

CONSTANTS Requests,   \* requests to /register and /login, and the limiters they create
          Hosts,      \* client hosts
          Ports,      \* their ports
          RemoteAddr, \* each request's host and port
          None,       \* "no request", "no limiter"
          Burst,      \* NewRateLimiter's b
          Period,     \* ticks per token: the inverse of NewRateLimiter's r
          MaxTime     \* bound on the clock

ASSUME RemoteAssumption == RemoteAddr \in [Requests -> Hosts \X Ports]
ASSUME NoneAssumption == None \notin Requests
ASSUME RateAssumption == Burst \in Nat \ {0} /\ Period \in Nat \ {0} /\ MaxTime \in Nat

VARIABLES
    now,        \* the clock
    pc,         \* where each request is
    mu,         \* the request that holds rl.mu
    limiters,   \* rl.limiters: each host's limiter, named after the request that made it
    limiter,    \* what getLimiter returned to each request
    bucket,     \* each limiter: tokens and the time they were counted at
    clock,      \* the time each request's Allow read
    admitted,   \* ghost: each host's admissions, in order: clock and rewound so far
    rewound     \* ghost: ticks each host's bucket has moved back so far

lockVars == <<mu, limiters, limiter>>
bucketVars == <<bucket, admitted, rewound>>
vars == <<now, pc, clock, lockVars, bucketVars>>

Steps == {"idle", "waiting", "creating", "returning", "found", "timed",
          "admitted", "denied"}
Cap == Burst * Period

Admission == [at : 0..MaxTime, rewound : Nat]

\* net.SplitHostPort drops the port; net/http always sets RemoteAddr to host and port.
Host(r) == RemoteAddr[r][1]

TypeOK ==
    /\ now \in 0..MaxTime
    /\ pc \in [Requests -> Steps]
    /\ mu \in Requests \cup {None}
    /\ limiters \in [Hosts -> Requests \cup {None}]
    /\ limiter \in [Requests -> Requests \cup {None}]
    /\ bucket \in [Requests -> [tokens : 0..Cap, last : 0..MaxTime]]
    /\ clock \in [Requests -> 0..MaxTime]
    /\ admitted \in [Hosts -> Seq(Admission)]
    /\ rewound \in [Hosts -> Nat]

FullBucket == [tokens |-> Cap, last |-> 0]

Init ==
    /\ now = 0
    /\ pc = [r \in Requests |-> "idle"]
    /\ mu = None
    /\ limiters = [h \in Hosts |-> None]
    /\ limiter = [r \in Requests |-> None]
    /\ bucket = [r \in Requests |-> FullBucket]
    /\ clock = [r \in Requests |-> 0]
    /\ admitted = [h \in Hosts |-> <<>>]
    /\ rewound = [h \in Hosts |-> 0]

Goto(r, step) == pc' = [pc EXCEPT ![r] = step]

Tick ==
    /\ now < MaxTime
    /\ now' = now + 1
    /\ UNCHANGED <<pc, clock, lockVars, bucketVars>>

\* A request reaches the middleware of either route: they share one RateLimiter.
Arrive(r) ==
    /\ pc[r] = "idle"
    /\ Goto(r, "waiting")
    /\ UNCHANGED <<now, clock, lockVars, bucketVars>>

-----------------------------------------------------------------------------
(* getLimiter *)

LookUpUnlocked(r) ==
    /\ pc[r] = "waiting"
    /\ Goto(r, IF limiters[Host(r)] = None THEN "creating" ELSE "returning")
    /\ limiter' = [limiter EXCEPT ![r] = limiters[Host(r)]]
    /\ UNCHANGED <<now, clock, mu, limiters, bucketVars>>

LookUpShared(r) ==
    /\ pc[r] = "waiting"
    /\ mu = None
    /\ mu' = r
    /\ \E any \in {limiters[h] : h \in Hosts} :
          /\ any = None => \A h \in Hosts : limiters[h] = None
          /\ limiter' = [limiter EXCEPT ![r] = any]
          /\ Goto(r, IF any = None THEN "creating" ELSE "returning")
    /\ UNCHANGED <<now, clock, limiters, bucketVars>>

\* rl.mu.Lock(), then limiter, exists := rl.limiters[ip].
LookUp(r) ==
    /\ pc[r] = "waiting"
    /\ mu = None
    /\ mu' = r
    /\ limiter' = [limiter EXCEPT ![r] = limiters[Host(r)]]
    /\ Goto(r, IF limiters[Host(r)] = None THEN "creating" ELSE "returning")
    /\ UNCHANGED <<now, clock, limiters, bucketVars>>

\* A host without a limiter gets a full one of its own; the deferred Unlock.
CreateLimiter(r) ==
    /\ pc[r] = "creating"
    /\ limiter' = [limiter EXCEPT ![r] = r]
    /\ limiters' = [limiters EXCEPT ![Host(r)] = r]
    /\ bucket' = [bucket EXCEPT ![r] = FullBucket]
    /\ mu' = None
    /\ Goto(r, "found")
    /\ UNCHANGED <<now, clock, admitted, rewound>>

ReturnLocked(r) ==
    /\ pc[r] = "returning"
    /\ Goto(r, "found")
    /\ UNCHANGED <<now, clock, lockVars, bucketVars>>

\* The deferred Unlock when the limiter existed.
ReturnLimiter(r) ==
    /\ pc[r] = "returning"
    /\ mu' = None
    /\ Goto(r, "found")
    /\ UNCHANGED <<now, clock, limiters, limiter, bucketVars>>

-----------------------------------------------------------------------------
(* limiter.Allow(): time.Now(), then the reservation under the bucket's lock *)

ReadClock(r) ==
    /\ pc[r] = "found"
    /\ clock' = [clock EXCEPT ![r] = now]
    /\ Goto(r, "timed")
    /\ UNCHANGED <<now, lockVars, bucketVars>>

\* How far a clock older than the bucket's moves it back.
Rewind(b, t) == IF t < b.last THEN b.last - t ELSE 0

TokensUncapped(b, t) == b.tokens + (t - (b.last - Rewind(b, t)))

TokensNotRefilled(b, t) == b.tokens

\* Limiter.advance: what the bucket holds at time t.
TokensAt(b, t) ==
    LET grown == b.tokens + (t - (b.last - Rewind(b, t)))
    IN  IF grown > Cap THEN Cap ELSE grown

\* A whole token: take it and call the next handler.
Admit(r) ==
    /\ pc[r] = "timed"
    /\ LET b == bucket[limiter[r]]
           back == rewound[Host(r)] + Rewind(b, clock[r])
       IN  /\ TokensAt(b, clock[r]) >= Period
           /\ bucket' = [bucket EXCEPT ![limiter[r]] =
                 [tokens |-> TokensAt(b, clock[r]) - Period, last |-> clock[r]]]
           /\ rewound' = [rewound EXCEPT ![Host(r)] = back]
           /\ admitted' = [admitted EXCEPT ![Host(r)] =
                 Append(@, [at |-> clock[r], rewound |-> back])]
    /\ Goto(r, "admitted")
    /\ UNCHANGED <<now, clock, lockVars>>

\* 429: no token is taken; an older clock still moves the bucket back.
Deny(r) ==
    /\ pc[r] = "timed"
    /\ TokensAt(bucket[limiter[r]], clock[r]) < Period
    /\ bucket' = [bucket EXCEPT ![limiter[r]].last = @ - Rewind(bucket[limiter[r]], clock[r])]
    /\ rewound' = [rewound EXCEPT ![Host(r)] = @ + Rewind(bucket[limiter[r]], clock[r])]
    /\ Goto(r, "denied")
    /\ UNCHANGED <<now, clock, lockVars, admitted>>

-----------------------------------------------------------------------------
Serve(r) == \/ LookUp(r) \/ CreateLimiter(r) \/ ReturnLimiter(r)
            \/ ReadClock(r) \/ Admit(r) \/ Deny(r)

Next == Tick \/ \E r \in Requests : Arrive(r) \/ Serve(r)

Spec == Init /\ [][Next]_vars

\* The scheduler runs every goroutine; a request takes rl.mu once.
FairSpec == Spec /\ \A r \in Requests : WF_vars(Serve(r))

-----------------------------------------------------------------------------
(* Properties *)

HasLimiter(r) == pc[r] \in {"found", "timed", "admitted", "denied"}

\* Requests of one host get the same limiter, from whatever ports and however
\* their first calls of getLimiter (middleware.go:732) interleave; requests of
\* different hosts never share one.
OneLimiterPerHost ==
    \A r, s \in Requests :
        HasLimiter(r) /\ HasLimiter(s) => (limiter[r] = limiter[s] <=> Host(r) = Host(s))

\* Between any two admissions of a host the middleware (middleware.go:878) admits
\* at most a burst and one request per Period of clock, where time that the
\* bucket went back over counts again.
WindowBound ==
    \A h \in Hosts : \A j \in 1..Len(admitted[h]) : \A i \in 1..j :
        Period * (j - i + 1) <= Cap + (admitted[h][j].at - admitted[h][i].at)
                                    + (admitted[h][j].rewound - admitted[h][i].rewound)

\* Nobody pays for another host's traffic: a host that gets a 429
\* (middleware.go:879) has had a whole burst admitted.
DeniedOnlyAfterBurst ==
    \A r \in Requests : pc[r] = "denied" => Len(admitted[Host(r)]) >= Burst

\* Waiting works: a request refused just now read a clock less than Period after
\* its host's last admission, however often the host was refused in between.
WaitIsEnough ==
    [][\A r \in Requests :
          pc[r] = "timed" /\ pc'[r] = "denied" =>
              LET log == admitted[Host(r)]
              IN  log # <<>> /\ clock[r] < log[Len(log)].at + Period]_vars

StageOf(r) == IF pc[r] \in {"admitted", "denied"} THEN pc[r]
              ELSE IF pc[r] = "timed" THEN "observed" ELSE "pending"
BucketOf(h) == IF limiters[h] = None THEN FullBucket ELSE bucket[limiters[h]]

Buckets == INSTANCE HostBuckets WITH
    HostOf <- [r \in Requests |-> Host(r)],
    at <- clock,
    stage <- [r \in Requests |-> StageOf(r)],
    bucket <- [h \in Hosts |-> BucketOf(h)]

\* The map, the lock and the limiters made on first use (middleware.go:732) do not
\* show: the middleware behaves as if every host had had its bucket all along and
\* every request were decided by it in one step.
ImplementsBuckets == Buckets!Spec

\* Every request that reaches the middleware is admitted or refused.
EveryRequestDecided ==
    \A r \in Requests : pc[r] = "waiting" ~> pc[r] \in {"admitted", "denied"}
=============================================================================
