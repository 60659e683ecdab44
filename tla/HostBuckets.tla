------------------------------- MODULE HostBuckets -------------------------------
(***************************************************************************)
(* What RateLimitMiddleware promises to its clients: every host has had a  *)
(* full token bucket of its own from the beginning, each request takes     *)
(* note of the time and is then decided in one step by its host's bucket.  *)
(* There is no map, no lock, nothing that is created and no port.          *)
(* RateLimiter is shown to implement this module.                          *)
(***************************************************************************)
EXTENDS Integers

CONSTANTS Requests, Hosts,
          HostOf,   \* the host of each request
          Burst,    \* the requests a full bucket pays for
          Period,   \* clock ticks that pay for one
          MaxTime   \* bound on the clock

VARIABLES now,     \* the clock
          stage,   \* of each request
          at,      \* the time each request took note of
          bucket   \* each host's: what it holds, in ticks, and since when

vars == <<now, stage, at, bucket>>

Full == [tokens |-> Burst * Period, last |-> 0]

Init == /\ now = 0
        /\ stage = [r \in Requests |-> "pending"]
        /\ at = [r \in Requests |-> 0]
        /\ bucket = [h \in Hosts |-> Full]

Tick == /\ now < MaxTime
        /\ now' = now + 1
        /\ UNCHANGED <<stage, at, bucket>>

Observe(r) == /\ stage[r] = "pending"
              /\ stage' = [stage EXCEPT ![r] = "observed"]
              /\ at' = [at EXCEPT ![r] = now]
              /\ UNCHANGED <<now, bucket>>

\* What bucket b holds for a request that noted t: it only gains over time.
Holds(b, t) == LET held == b.tokens + (IF t > b.last THEN t - b.last ELSE 0)
               IN  IF held > Burst * Period THEN Burst * Period ELSE held

Admit(r) ==
    LET b == bucket[HostOf[r]]
    IN  /\ stage[r] = "observed"
        /\ Holds(b, at[r]) >= Period
        /\ stage' = [stage EXCEPT ![r] = "admitted"]
        /\ bucket' = [bucket EXCEPT ![HostOf[r]] =
                         [tokens |-> Holds(b, at[r]) - Period, last |-> at[r]]]
        /\ UNCHANGED <<now, at>>

\* A refusal costs nothing, and never moves the bucket forward.
Deny(r) ==
    LET b == bucket[HostOf[r]]
    IN  /\ stage[r] = "observed"
        /\ Holds(b, at[r]) < Period
        /\ stage' = [stage EXCEPT ![r] = "denied"]
        /\ bucket' = [bucket EXCEPT ![HostOf[r]] =
                         [b EXCEPT !.last = IF at[r] < b.last THEN at[r] ELSE b.last]]
        /\ UNCHANGED <<now, at>>

Next == Tick \/ \E r \in Requests : Observe(r) \/ Admit(r) \/ Deny(r)

Spec == Init /\ [][Next]_vars
=============================================================================
