--------------------------- MODULE RateLimiterProofs ---------------------------
(***************************************************************************)
(* Proofs about RateLimiter for every set of requests and hosts, every     *)
(* burst, period and length of time.                                       *)
(***************************************************************************)
EXTENDS RateLimiter, DataLemmas

USE RemoteAssumption, NoneAssumption, RateAssumption

-----------------------------------------------------------------------------
(* Arithmetic of a bucket *)

Bucket == [tokens : 0..Cap, last : 0..MaxTime]

LEMMA CapFacts ==
    /\ Cap \in Nat
    /\ Period <= Cap
    /\ \A n \in Int : Period * (n + 1) = Period * n + Period
    /\ \A n \in Int : Period * n \in Int
    /\ \A n \in Nat : Cap < Period * (n + 1) => Burst <= n
<1>1. Cap \in Nat
  BY DEF Cap
<1>2. Period <= Cap
  <2>1. PICK m \in Nat : Burst = m + 1
    <3>1. Burst - 1 \in Nat /\ Burst = (Burst - 1) + 1
      OBVIOUS
    <3>. QED
      BY <3>1
  <2>2. Cap = m * Period + Period /\ m * Period >= 0
    BY <2>1 DEF Cap
  <2>. QED
    BY <2>2
<1>3. \A n \in Int : Period * (n + 1) = Period * n + Period /\ Period * n \in Int
  OBVIOUS
<1>4. ASSUME NEW n \in Nat, Cap < Period * (n + 1), n < Burst
      PROVE  FALSE
  <2>1. PICK d \in Nat : Burst = (n + 1) + d
    <3>1. Burst - (n + 1) \in Nat /\ Burst = (n + 1) + (Burst - (n + 1))
      BY <1>4
    <3>. QED
      BY <3>1
  <2>2. Cap = Period * (n + 1) + d * Period /\ d * Period >= 0
    BY <2>1 DEF Cap
  <2>. QED
    BY <2>2, <1>4
<1>. QED
  BY <1>1, <1>2, <1>3, <1>4

LEMMA CapType == Cap \in Nat
BY CapFacts

\* What advance makes of a bucket at a clock that may be older than it.
LEMMA AdvanceFacts ==
    ASSUME NEW b \in Bucket, NEW t \in 0..MaxTime
    PROVE  /\ Rewind(b, t) \in Nat
           /\ b.last - Rewind(b, t) \in 0..MaxTime
           /\ b.last - Rewind(b, t) <= t
           /\ t < b.last => b.last - Rewind(b, t) = t
           /\ TokensAt(b, t) \in 0..Cap
           /\ TokensAt(b, t) <= b.tokens + (t - (b.last - Rewind(b, t)))
           /\ TokensAt(b, t) = Cap \/ TokensAt(b, t) = b.tokens + (t - (b.last - Rewind(b, t)))
<1>1. b.tokens \in 0..Cap /\ b.last \in 0..MaxTime
  BY DEF Bucket
<1>. QED
  BY <1>1, CapFacts DEF Rewind, TokensAt

-----------------------------------------------------------------------------
(* Type correctness *)

LEMMA TypeInit == Init => TypeOK
<1>. SUFFICES ASSUME Init PROVE TypeOK
  OBVIOUS
<1>1. <<>> \in Seq(Admission)
  BY EmptyFacts
<1>2. FullBucket \in [tokens : 0..Cap, last : 0..MaxTime]
  BY CapFacts DEF FullBucket
<1>. QED
  BY <1>1, <1>2 DEF Init, TypeOK, Steps

LEMMA HostType == \A r \in Requests : Host(r) \in Hosts
BY DEF Host

\* getLimiter and the clock keep every variable in its type.
LEMMA TypeLookUpStep ==
    ASSUME TypeOK, NEW r \in Requests,
           Arrive(r) \/ LookUp(r) \/ CreateLimiter(r) \/ ReturnLimiter(r) \/ ReadClock(r)
    PROVE  TypeOK'
<1>1. Host(r) \in Hosts
  BY HostType
<1>2. FullBucket \in [tokens : 0..Cap, last : 0..MaxTime]
  BY CapFacts DEF FullBucket
<1>3. CASE Arrive(r)
  BY <1>3 DEF Arrive, Goto, TypeOK, Steps, lockVars, bucketVars
<1>4. CASE LookUp(r)
  BY <1>1, <1>4 DEF LookUp, Goto, TypeOK, Steps, bucketVars
<1>5. CASE CreateLimiter(r)
  BY <1>1, <1>2, <1>5 DEF CreateLimiter, Goto, TypeOK, Steps
<1>6. CASE ReturnLimiter(r)
  BY <1>6 DEF ReturnLimiter, Goto, TypeOK, Steps, bucketVars
<1>7. CASE ReadClock(r)
  BY <1>7 DEF ReadClock, Goto, TypeOK, Steps, lockVars, bucketVars
<1>. QED
  BY <1>3, <1>4, <1>5, <1>6, <1>7

-----------------------------------------------------------------------------
(* The inductive invariant *)

\* Only the holder of rl.mu is between its look-up and the return.
LockInv ==
    \A r \in Requests : pc[r] \in {"creating", "returning"} => mu = r

\* What a request looked up stays true; a limiter belongs to its creator's host.
LimiterInv ==
    /\ \A r \in Requests :
          /\ pc[r] = "creating" => limiters[Host(r)] = None
          /\ pc[r] = "returning" \/ HasLimiter(r) =>
                 limiter[r] \in Requests /\ limiter[r] = limiters[Host(r)]
    /\ \A h \in Hosts : limiters[h] # None =>
          Host(limiters[h]) = h /\ HasLimiter(limiters[h])

\* Tokens and admissions of one host account for each other.
Accounts(b, log, back) ==
    /\ b.tokens + Period * Len(log) >= Cap
    /\ \A i \in 1..Len(log) :
          b.tokens + Period * (Len(log) - i + 1)
              <= Cap + (b.last - log[i].at) + (back - log[i].rewound)
    /\ log # <<>> => b.last <= log[Len(log)].at

AccountInv ==
    \A h \in Hosts :
        IF limiters[h] = None
        THEN admitted[h] = <<>> /\ rewound[h] = 0
        ELSE Accounts(bucket[limiters[h]], admitted[h], rewound[h])

\* WindowBound for the admissions of one host.
Bounded(log) ==
    \A j \in 1..Len(log) : \A i \in 1..j :
        Period * (j - i + 1) <= Cap + (log[j].at - log[i].at) + (log[j].rewound - log[i].rewound)

LEMMA WindowByHost == WindowBound <=> \A h \in Hosts : Bounded(admitted[h])
BY DEF WindowBound, Bounded

IInv == TypeOK /\ LockInv /\ LimiterInv /\ AccountInv /\ WindowBound /\ DeniedOnlyAfterBurst

LEMMA IInvInit == Init => IInv
<1>. SUFFICES ASSUME Init PROVE IInv
  OBVIOUS
<1>1. TypeOK
  BY TypeInit
<1>2. \A h \in Hosts : Len(admitted[h]) = 0
  BY EmptyFacts DEF Init
<1>3. WindowBound
  BY <1>2 DEF WindowBound
<1>4. LockInv /\ LimiterInv /\ AccountInv /\ DeniedOnlyAfterBurst
  BY HostType DEF Init, LockInv, LimiterInv, HasLimiter, AccountInv, DeniedOnlyAfterBurst
<1>. QED
  BY <1>1, <1>3, <1>4 DEF IInv

\* Steps that leave buckets and admissions alone keep their accounts.
LEMMA AccountsKept ==
    ASSUME IInv, UNCHANGED <<limiters, bucket, admitted, rewound>>
    PROVE  AccountInv' /\ WindowBound'
BY DEF IInv, AccountInv, WindowBound

LEMMA LookUpKeeps ==
    ASSUME IInv, NEW r \in Requests,
           Arrive(r) \/ LookUp(r) \/ ReturnLimiter(r) \/ ReadClock(r)
    PROVE  IInv'
<1>. USE HostType DEF Goto, lockVars, bucketVars
<1>1. TypeOK'
  BY TypeLookUpStep DEF IInv
<1>2. AccountInv' /\ WindowBound'
  <2>1. UNCHANGED <<limiters, bucket, admitted, rewound>>
    BY DEF Arrive, LookUp, ReturnLimiter, ReadClock
  <2>. QED
    BY <2>1, AccountsKept
<1>3. LockInv'
  <2>1. CASE LookUp(r)
    BY <2>1 DEF IInv, TypeOK, LockInv, LookUp
  <2>2. CASE ReturnLimiter(r)
    BY <2>2 DEF IInv, TypeOK, LockInv, ReturnLimiter
  <2>3. CASE Arrive(r) \/ ReadClock(r)
    BY <2>3 DEF IInv, TypeOK, LockInv, Arrive, ReadClock
  <2>. QED
    BY <2>1, <2>2, <2>3
<1>4. LimiterInv'
  <2>1. CASE Arrive(r)
    BY <2>1 DEF IInv, TypeOK, LimiterInv, HasLimiter, Arrive
  <2>2. CASE LookUp(r)
    BY <2>2 DEF IInv, TypeOK, LimiterInv, HasLimiter, LookUp
  <2>3. CASE ReturnLimiter(r)
    BY <2>3 DEF IInv, TypeOK, LimiterInv, HasLimiter, ReturnLimiter
  <2>4. CASE ReadClock(r)
    BY <2>4 DEF IInv, TypeOK, LimiterInv, HasLimiter, ReadClock
  <2>. QED
    BY <2>1, <2>2, <2>3, <2>4
<1>5. DeniedOnlyAfterBurst'
  BY DEF IInv, TypeOK, DeniedOnlyAfterBurst, Arrive, LookUp, ReturnLimiter, ReadClock
<1>. QED
  BY <1>1, <1>2, <1>3, <1>4, <1>5 DEF IInv

\* A limiter is created under the lock, once per host, full and with no admissions yet.
LEMMA CreateKeeps ==
    ASSUME IInv, NEW r \in Requests, CreateLimiter(r)
    PROVE  IInv'
<1>. USE HostType DEF Goto
<1>1. TypeOK'
  BY TypeLookUpStep DEF IInv
<1>2. LockInv'
  BY DEF IInv, TypeOK, LockInv, CreateLimiter
<1>3. /\ limiters[Host(r)] = None
      /\ \A h \in Hosts : limiters[h] # r
      /\ \A s \in Requests : s # r => pc[s] \notin {"creating", "returning"}
  BY DEF IInv, LockInv, LimiterInv, HasLimiter, CreateLimiter
<1>4. LimiterInv'
  BY <1>3 DEF IInv, TypeOK, LimiterInv, HasLimiter, CreateLimiter
<1>5. ASSUME NEW h \in Hosts
      PROVE  /\ admitted'[h] = admitted[h] /\ rewound'[h] = rewound[h]
             /\ h # Host(r) => limiters'[h] = limiters[h] /\ bucket'[limiters'[h]] = bucket[limiters[h]]
             /\ h = Host(r) => /\ limiters'[h] = r /\ bucket'[r] = FullBucket
                               /\ admitted[h] = <<>>
  BY <1>3 DEF IInv, TypeOK, AccountInv, LimiterInv, CreateLimiter
<1>6. AccountInv'
  <2>1. Accounts(FullBucket, <<>>, 0)
    BY EmptyFacts, CapFacts DEF Accounts, FullBucket
  <2>2. rewound[Host(r)] = 0
    BY <1>3, HostType DEF IInv, AccountInv, CreateLimiter
  <2>. QED
    BY <1>5, <2>1, <2>2 DEF IInv, AccountInv
<1>7. WindowBound' /\ DeniedOnlyAfterBurst'
  BY DEF IInv, TypeOK, WindowBound, DeniedOnlyAfterBurst, CreateLimiter
<1>. QED
  BY <1>1, <1>2, <1>4, <1>6, <1>7 DEF IInv

-----------------------------------------------------------------------------
(* Allow *)

\* The bucket of a request about to be decided, and what its clock makes of it.
LEMMA AllowFacts ==
    ASSUME IInv, NEW r \in Requests, pc[r] = "timed"
    PROVE  /\ limiter[r] \in Requests
           /\ limiter[r] = limiters[Host(r)]
           /\ \A h \in Hosts : h # Host(r) => limiters[h] # limiter[r]
           /\ bucket[limiter[r]] \in Bucket
           /\ clock[r] \in 0..MaxTime
           /\ admitted[Host(r)] \in Seq(Admission)
           /\ rewound[Host(r)] \in Nat
<1>1. limiter[r] \in Requests /\ limiter[r] = limiters[Host(r)]
  BY DEF IInv, LimiterInv, HasLimiter
<1>2. \A h \in Hosts : h # Host(r) => limiters[h] # limiter[r]
  <2>1. limiters[Host(r)] # None /\ Host(limiters[Host(r)]) = Host(r)
    BY <1>1, HostType DEF IInv, LimiterInv
  <2>2. \A h \in Hosts : limiters[h] # None => Host(limiters[h]) = h
    BY DEF IInv, LimiterInv
  <2>. QED
    BY <1>1, <2>1, <2>2
<1>. QED
  BY <1>1, <1>2, HostType DEF IInv, TypeOK, Bucket

\* Admitting and refusing only move the request to its verdict.
LEMMA VerdictKeepsLimiters ==
    ASSUME IInv, NEW r \in Requests, Admit(r) \/ Deny(r)
    PROVE  LockInv' /\ LimiterInv'
<1>1. /\ pc[r] = "timed"
      /\ pc' = [pc EXCEPT ![r] = "admitted"] \/ pc' = [pc EXCEPT ![r] = "denied"]
      /\ UNCHANGED <<mu, limiters, limiter>>
  BY DEF Admit, Deny, Goto, lockVars
<1>2. \A s \in Requests : /\ s # r => pc'[s] = pc[s]
                          /\ s = r => HasLimiter(s) /\ HasLimiter(s)' /\ pc'[s] # "creating" /\ pc'[s] # "returning"
  BY <1>1 DEF IInv, TypeOK, HasLimiter
<1>3. LockInv'
  BY <1>1, <1>2 DEF IInv, LockInv
<1>4. \A s \in Requests : /\ HasLimiter(s)' <=> HasLimiter(s)
                          /\ pc'[s] \in {"creating", "returning"} => pc'[s] = pc[s]
  BY <1>1, <1>2 DEF HasLimiter
<1>5. LimiterInv'
  <2>1. \A h \in Hosts : limiters[h] \in Requests \cup {None}
    BY DEF IInv, TypeOK
  <2>2. \A s \in Requests : /\ pc'[s] = "creating" => limiters'[Host(s)] = None
                            /\ pc'[s] = "returning" \/ HasLimiter(s)' =>
                                   limiter'[s] \in Requests /\ limiter'[s] = limiters'[Host(s)]
    BY <1>1, <1>4 DEF IInv, LimiterInv
  <2>3. ASSUME NEW h \in Hosts, limiters[h] # None
        PROVE  Host(limiters[h]) = h /\ pc'[limiters[h]] \in {"found", "timed", "admitted", "denied"}
    <3>1. Host(limiters[h]) = h /\ HasLimiter(limiters[h]) /\ limiters[h] \in Requests
      BY <2>1, <2>3 DEF IInv, LimiterInv, HasLimiter
    <3>. QED
      BY <3>1, <1>4 DEF HasLimiter
  <2>. QED
    BY <2>2, <2>3, <1>1 DEF LimiterInv, HasLimiter
<1>. QED
  BY <1>3, <1>5

\* One more admission: tokens, admissions and clock stay in balance.
LEMMA AdmissionAccounts ==
    ASSUME NEW b \in Bucket, NEW t \in 0..MaxTime, NEW log \in Seq(Admission), NEW back \in Nat,
           TokensAt(b, t) >= Period, Accounts(b, log, back), Bounded(log),
           NEW entry \in Admission, entry = [at |-> t, rewound |-> back + Rewind(b, t)]
    PROVE  /\ Accounts([tokens |-> TokensAt(b, t) - Period, last |-> t],
                       Append(log, entry), back + Rewind(b, t))
           /\ Bounded(Append(log, entry))
<1>1. PICK tokens \in 0..Cap, d \in Nat, n \in Nat, new \in Seq(Admission) :
         /\ tokens = TokensAt(b, t)
         /\ d = Rewind(b, t)
         /\ n = Len(log)
         /\ new = Append(log, entry)
         /\ tokens <= b.tokens + (t - (b.last - d))
         /\ tokens = Cap \/ tokens = b.tokens + (t - (b.last - d))
         /\ b.last - d <= t
  <2>1. Len(log) \in Nat /\ Append(log, entry) \in Seq(Admission)
    BY AppendFacts, LenProperties
  <2>. QED
    BY <2>1, AdvanceFacts
<1>2. /\ Len(new) = n + 1
      /\ \A i \in 1..n : new[i] = log[i]
      /\ new[n + 1] = entry
      /\ \A i \in 1..n : log[i].at \in Int /\ log[i].rewound \in Int
      /\ entry.at = t /\ entry.rewound = back + d
      /\ b.tokens \in Int /\ b.last \in Int /\ t \in Int /\ tokens >= Period
      /\ new # <<>>
  <2>1. Len(new) = n + 1 /\ new[n + 1] = entry /\ \A i \in 1..n : new[i] = log[i]
    BY <1>1, AppendProperties
  <2>2. \A i \in 1..n : log[i] \in Admission
    BY <1>1, ElementOfSeq
  <2>3. b.tokens \in Int /\ b.last \in Int
    BY DEF Bucket
  <2>4. new # <<>>
    BY <2>1, EmptyFacts
  <2>5. \A e \in Admission : e.at \in Int /\ e.rewound \in Int
    BY DEF Admission
  <2>. QED
    BY <1>1, <2>1, <2>2, <2>3, <2>4, <2>5
\* The same in numbers alone.
<1>a. PICK cap \in Nat, have \in Int, last \in Int :
         /\ cap = Cap /\ have = b.tokens /\ last = b.last
         /\ tokens \in Int /\ d \in Int /\ t \in Int /\ back \in Int /\ Period \in Int
         /\ tokens <= have + (t - (last - d))
         /\ tokens = cap \/ tokens = have + (t - (last - d))
         /\ last - d <= t
  BY <1>1, <1>2, CapFacts
<1>3. PICK all \in Int : all = Period * n /\ Period * (n + 1) = all + Period
  BY CapFacts
<1>4. (tokens - Period) + Period * (n + 1) >= Cap
  <2>1. have + all >= cap
    BY <1>1, <1>3, <1>a DEF Accounts
  <2>2. all >= 0
    BY <1>3
  <2>3. (tokens - Period) + (all + Period) >= cap
    BY <2>1, <2>2, <1>a, SMTT(60)
  <2>. QED
    BY <2>3, <1>3, <1>a
<1>5. ASSUME NEW i \in 1..n
      PROVE  (tokens - Period) + Period * ((n + 1) - i + 1)
               <= Cap + (t - log[i].at) + ((back + d) - log[i].rewound)
  <2>1. PICK some \in Int : some = Period * (n - i + 1)
    BY CapFacts
  <2>2. Period * ((n + 1) - i + 1) = some + Period
    <3>1. n - i + 1 \in Int /\ (n + 1) - i + 1 = (n - i + 1) + 1
      OBVIOUS
    <3>. QED
      BY <2>1, <3>1, CapFacts
  <2>3. PICK at \in Int, rw \in Int : at = log[i].at /\ rw = log[i].rewound
    BY <1>2
  <2>4. have + some <= cap + (last - at) + (back - rw)
    BY <2>1, <2>3, <1>1, <1>a DEF Accounts
  <2>5. (tokens - Period) + (some + Period) <= cap + (t - at) + ((back + d) - rw)
    BY <2>4, <1>a, SMTT(60)
  <2>. QED
    BY <2>2, <2>3, <2>5, <1>a
<1>6. (tokens - Period) + Period * ((n + 1) - (n + 1) + 1) <= Cap
  BY <1>1, CapFacts
<1>7. Accounts([tokens |-> tokens - Period, last |-> t], new, back + d)
  <2>1. ASSUME NEW i \in 1..n+1
        PROVE  (tokens - Period) + Period * ((n + 1) - i + 1)
                 <= Cap + (t - new[i].at) + ((back + d) - new[i].rewound)
    <3>1. CASE i \in 1..n
      BY <3>1, <1>2, <1>5
    <3>2. CASE i = n + 1
      <4>1. new[i].at = t /\ new[i].rewound = back + d /\ i = n + 1
        BY <3>2, <1>2
      <4>2. (t - t) + ((back + d) - (back + d)) = 0
        BY <1>a
      <4>. QED
        BY <4>1, <4>2, <1>6, <1>a, SMTT(60)
    <3>3. i \in 1..n \/ i = n + 1
      OBVIOUS
    <3>. QED
      BY <3>1, <3>2, <3>3, Zenon
  <2>. QED
    BY <2>1, <1>2, <1>4 DEF Accounts
<1>8. Bounded(new)
  <2>. SUFFICES ASSUME NEW j \in 1..n+1, NEW i \in 1..j
                PROVE  Period * (j - i + 1) <= Cap + (new[j].at - new[i].at)
                                                   + (new[j].rewound - new[i].rewound)
    BY <1>2 DEF Bounded
  <2>1. CASE j \in 1..n
    <3>1. i \in 1..n
      BY <2>1
    <3>2. new[j] = log[j] /\ new[i] = log[i]
      BY <2>1, <3>1, <1>2
    <3>3. j \in 1..Len(log)
      BY <2>1, <1>1
    <3>4. Period * (j - i + 1) <= Cap + (log[j].at - log[i].at) + (log[j].rewound - log[i].rewound)
      BY <3>3 DEF Bounded
    <3>. QED
      BY <3>2, <3>4, Zenon
  <2>2. CASE j = n + 1 /\ i \in 1..n
    <3>1. PICK some \in Int : some = Period * ((n + 1) - i + 1)
      BY CapFacts
    <3>2. PICK at \in Int, rw \in Int : at = log[i].at /\ rw = log[i].rewound
      BY <2>2, <1>2
    <3>3. (tokens - Period) + some <= cap + (t - at) + ((back + d) - rw)
      BY <2>2, <3>1, <3>2, <1>5, <1>a
    <3>4. new[j] = entry /\ new[i] = log[i]
      BY <2>2, <1>2
    <3>5. some <= cap + (t - at) + ((back + d) - rw)
      BY <3>3, <1>2, <1>a, SMTT(60)
    <3>6. new[j].at = t /\ new[j].rewound = back + d /\ new[i].at = at /\ new[i].rewound = rw
      BY <3>2, <3>4, <1>2
    <3>. QED
      BY <2>2, <3>1, <3>5, <3>6, <1>a, SMTT(60)
  <2>3. CASE j = n + 1 /\ i = n + 1
    <3>1. Period * (j - i + 1) = Period
      BY <2>3
    <3>. QED
      BY <2>3, <3>1, <1>2, CapFacts
  <2>. QED
    BY <2>1, <2>2, <2>3
<1>. QED
  BY <1>1, <1>7, <1>8

LEMMA AdmitKeeps ==
    ASSUME IInv, NEW r \in Requests, Admit(r)
    PROVE  IInv'
<1>1. PICK h \in Hosts, l \in Requests, b \in Bucket, t \in 0..MaxTime,
           log \in Seq(Admission), back \in Nat :
         /\ h = Host(r) /\ l = limiter[r] /\ l = limiters[h] /\ b = bucket[l]
         /\ t = clock[r] /\ log = admitted[h] /\ back = rewound[h]
         /\ \A g \in Hosts : g # h => limiters[g] # l
  BY AllowFacts, HostType DEF Admit
<1>2. PICK entry \in Admission, full \in Bucket :
         /\ entry = [at |-> t, rewound |-> back + Rewind(b, t)]
         /\ full = [tokens |-> TokensAt(b, t) - Period, last |-> t]
         /\ TokensAt(b, t) >= Period
         /\ bucket' = [bucket EXCEPT ![l] = full]
         /\ rewound' = [rewound EXCEPT ![h] = back + Rewind(b, t)]
         /\ admitted' = [admitted EXCEPT ![h] = Append(log, entry)]
         /\ pc' = [pc EXCEPT ![r] = "admitted"]
         /\ UNCHANGED <<now, clock, mu, limiters, limiter>>
  <2>1. Rewind(b, t) \in Nat /\ TokensAt(b, t) \in 0..Cap
    BY AdvanceFacts
  <2>2. TokensAt(b, t) >= Period
    BY <1>1 DEF Admit
  <2>3. [at |-> t, rewound |-> back + Rewind(b, t)] \in Admission
    BY <2>1 DEF Admission
  <2>4. [tokens |-> TokensAt(b, t) - Period, last |-> t] \in Bucket
    BY <2>1, <2>2, CapFacts DEF Bucket
  <2>. QED
    BY <1>1, <2>2, <2>3, <2>4 DEF Admit, Goto, lockVars
<1>3. Append(log, entry) \in Seq(Admission) /\ back + Rewind(b, t) \in Nat
  BY AppendFacts, AdvanceFacts
<1>4. TypeOK'
  BY <1>1, <1>2, <1>3 DEF IInv, TypeOK, Bucket, Steps
<1>5. LockInv' /\ LimiterInv'
  BY VerdictKeepsLimiters
<1>6. Accounts(b, log, back) /\ Bounded(log)
  BY <1>1, WindowByHost DEF IInv, AccountInv
<1>7. Accounts(full, Append(log, entry), back + Rewind(b, t)) /\ Bounded(Append(log, entry))
  BY <1>2, <1>6, AdmissionAccounts
<1>8. /\ limiters'[h] = l /\ bucket'[l] = full /\ admitted'[h] = Append(log, entry)
      /\ rewound'[h] = back + Rewind(b, t)
      /\ \A g \in Hosts : g # h => /\ limiters'[g] = limiters[g]
                                   /\ bucket'[limiters'[g]] = bucket[limiters[g]]
                                   /\ admitted'[g] = admitted[g]
                                   /\ rewound'[g] = rewound[g]
  BY <1>1, <1>2 DEF IInv, TypeOK
<1>9. AccountInv'
  BY <1>7, <1>8 DEF IInv, AccountInv
<1>10. WindowBound'
  <2>1. \A g \in Hosts : Bounded(admitted'[g])
    BY <1>7, <1>8, WindowByHost DEF IInv
  <2>. QED
    BY <2>1 DEF WindowBound, Bounded
<1>11. DeniedOnlyAfterBurst'
  <2>1. ASSUME NEW s \in Requests, pc'[s] = "denied"
        PROVE  Len(admitted'[Host(s)]) >= Burst
    <3>1. Len(log) \in Nat /\ Len(Append(log, entry)) = Len(log) + 1
      BY AppendProperties, LenProperties
    <3>2. pc[s] = "denied" /\ Len(admitted[Host(s)]) >= Burst
      BY <2>1, <1>2 DEF IInv, TypeOK, DeniedOnlyAfterBurst
    <3>3. CASE Host(s) = h
      BY <3>1, <3>2, <3>3, <1>1, <1>8
    <3>4. CASE Host(s) # h
      BY <3>2, <3>4, <1>8, HostType
    <3>. QED
      BY <3>3, <3>4
  <2>. QED
    BY <2>1 DEF DeniedOnlyAfterBurst
<1>. QED
  BY <1>4, <1>5, <1>9, <1>10, <1>11 DEF IInv

\* A refusal comes when the host's tokens, and with them its bursts, are used up.
LEMMA DenyFacts ==
    ASSUME IInv, NEW r \in Requests, Deny(r)
    PROVE  LET log == admitted[Host(r)]
               b == bucket[limiter[r]]
           IN  /\ Len(log) >= Burst
               /\ log # <<>>
               /\ b.last - Rewind(b, clock[r]) <= log[Len(log)].at
               /\ clock[r] < log[Len(log)].at + Period
<1>1. pc[r] = "timed" /\ TokensAt(bucket[limiter[r]], clock[r]) < Period
  BY DEF Deny
<1>2. PICK h \in Hosts, b \in Bucket, t \in Nat, log \in Seq(Admission), n \in Nat :
         /\ h = Host(r) /\ b = bucket[limiter[r]] /\ limiter[r] = limiters[h]
         /\ limiters[h] # None
         /\ t = clock[r] /\ t \in 0..MaxTime /\ log = admitted[h] /\ n = Len(log)
  <2>1. Len(admitted[Host(r)]) \in Nat
    BY <1>1, AllowFacts, LenProperties
  <2>. QED
    BY <1>1, <2>1, AllowFacts, HostType
<1>3. PICK cap \in Nat, have \in Nat, last \in Int, d \in Nat, tokens \in Nat :
         /\ cap = Cap /\ have = b.tokens /\ last = b.last
         /\ d = Rewind(b, t) /\ tokens = TokensAt(b, t)
  <2>1. Rewind(b, t) \in Nat /\ TokensAt(b, t) \in Nat
    BY <1>2, AdvanceFacts, CapType
  <2>2. b.tokens \in Nat /\ b.last \in Int
    BY CapType DEF Bucket
  <2>. QED
    BY <2>1, <2>2, CapType
<1>4. last - d <= t /\ tokens < Period /\ tokens = have + (t - (last - d))
  <2>1. last - d <= t /\ (tokens = cap \/ tokens = have + (t - (last - d)))
    BY <1>2, <1>3, AdvanceFacts
  <2>2. tokens < Period /\ Period <= cap
    BY <1>1, <1>2, <1>3, CapFacts
  <2>. QED
    BY <2>1, <2>2
<1>5. Accounts(b, log, rewound[h])
  BY <1>2 DEF IInv, AccountInv
<1>6. n >= Burst
  <2>1. PICK all \in Int : all = Period * n /\ Period * (n + 1) = all + Period
    BY CapFacts
  <2>2. have + all >= cap
    BY <1>2, <1>3, <1>5, <2>1 DEF Accounts
  <2>3. have < Period
    BY <1>4
  <2>4. cap < all + Period
    BY <2>2, <2>3
  <2>. QED
    BY <2>1, <2>4, <1>3, CapFacts
<1>7. log # <<>>
  BY <1>2, <1>6, EmptyFacts
<1>8. PICK at \in Int : at = log[Len(log)].at /\ last <= at
  <2>1. Len(log) \in 1..Len(log)
    BY <1>2, <1>6
  <2>2. log[Len(log)] \in Admission
    BY <2>1, ElementOfSeq
  <2>3. log[Len(log)].at \in Int
    BY <2>2 DEF Admission
  <2>4. b.last <= log[Len(log)].at
    BY <1>5, <1>7 DEF Accounts
  <2>. QED
    BY <1>3, <2>3, <2>4
<1>9. last - d <= at
  BY <1>8
<1>10. t < at + Period
  <2>1. t - (last - d) < Period
    BY <1>4
  <2>. QED
    BY <2>1, <1>9
<1>. QED
  BY <1>2, <1>3, <1>6, <1>7, <1>8, <1>9, <1>10

LEMMA DenyKeeps ==
    ASSUME IInv, NEW r \in Requests, Deny(r)
    PROVE  IInv'
<1>1. PICK h \in Hosts, l \in Requests, b \in Bucket, t \in 0..MaxTime,
           log \in Seq(Admission), back \in Nat, d \in Nat :
         /\ h = Host(r) /\ l = limiter[r] /\ l = limiters[h] /\ b = bucket[l]
         /\ t = clock[r] /\ log = admitted[h] /\ back = rewound[h]
         /\ d = Rewind(b, t)
         /\ b.last - d \in 0..MaxTime
         /\ \A g \in Hosts : g # h => limiters[g] # l
  BY AllowFacts, AdvanceFacts, HostType DEF Deny
<1>2. PICK full \in Bucket :
         /\ full = [tokens |-> b.tokens, last |-> b.last - d]
         /\ bucket' = [bucket EXCEPT ![l] = full]
         /\ rewound' = [rewound EXCEPT ![h] = back + d]
         /\ pc' = [pc EXCEPT ![r] = "denied"]
         /\ UNCHANGED <<now, clock, mu, limiters, limiter, admitted>>
  <2>1. [tokens |-> b.tokens, last |-> b.last - d] \in Bucket
    BY <1>1 DEF Bucket
  <2>2. [b EXCEPT !.last = b.last - d] = [tokens |-> b.tokens, last |-> b.last - d]
    BY DEF Bucket
  <2>. QED
    BY <1>1, <2>1, <2>2 DEF Deny, Goto, lockVars
<1>3. TypeOK'
  <2>1. back + d \in Nat
    OBVIOUS
  <2>. QED
    BY <2>1, <1>1, <1>2 DEF IInv, TypeOK, Bucket, Steps
<1>4. LockInv' /\ LimiterInv'
  BY VerdictKeepsLimiters
<1>5. Accounts(b, log, back)
  BY <1>1 DEF IInv, AccountInv
<1>6. Accounts(full, log, back + d)
  <2>1. /\ Len(log) \in Nat /\ b.last \in Int /\ b.tokens \in Int
        /\ full.tokens = b.tokens /\ full.last = b.last - d
        /\ \A e \in Admission : e.at \in Int /\ e.rewound \in Int
    BY <1>2, LenProperties DEF Bucket, Admission
  <2>2. ASSUME NEW i \in 1..Len(log)
        PROVE  full.tokens + Period * (Len(log) - i + 1)
                 <= Cap + (full.last - log[i].at) + ((back + d) - log[i].rewound)
    <3>1. log[i] \in Admission
      BY ElementOfSeq
    <3>2. PICK some \in Int : some = Period * (Len(log) - i + 1)
      BY <2>1, CapFacts
    <3>3. b.tokens + some <= Cap + (b.last - log[i].at) + (back - log[i].rewound)
      BY <1>5, <3>2 DEF Accounts
    <3>4. full.tokens + some <= Cap + (full.last - log[i].at) + ((back + d) - log[i].rewound)
      BY <2>1, <3>1, <3>3, CapFacts, SMTT(60)
    <3>. QED
      BY <3>2, <3>4, Zenon
  <2>3. log # <<>> => full.last <= log[Len(log)].at
    BY <2>1, <1>1, DenyFacts
  <2>. QED
    BY <2>1, <2>2, <2>3, <1>5 DEF Accounts
<1>7. /\ limiters'[h] = l /\ bucket'[l] = full /\ admitted'[h] = log /\ rewound'[h] = back + d
      /\ \A g \in Hosts : g # h => /\ limiters'[g] = limiters[g]
                                   /\ bucket'[limiters'[g]] = bucket[limiters[g]]
                                   /\ admitted'[g] = admitted[g]
                                   /\ rewound'[g] = rewound[g]
  BY <1>1, <1>2 DEF IInv, TypeOK
<1>8. AccountInv'
  BY <1>6, <1>7 DEF IInv, AccountInv
<1>9. WindowBound'
  BY <1>2 DEF IInv, WindowBound
<1>10. DeniedOnlyAfterBurst'
  <2>1. Len(admitted[Host(r)]) >= Burst
    BY DenyFacts
  <2>. QED
    BY <2>1, <1>2 DEF IInv, TypeOK, DeniedOnlyAfterBurst
<1>. QED
  BY <1>3, <1>4, <1>8, <1>9, <1>10 DEF IInv

-----------------------------------------------------------------------------
(* The theorems *)

LEMMA IInvStep == IInv /\ [Next]_vars => IInv'
<1>. SUFFICES ASSUME IInv, [Next]_vars PROVE IInv'
  OBVIOUS
<1>1. CASE Tick \/ UNCHANGED vars
  <2>1. /\ UNCHANGED <<pc, clock, mu, limiters, limiter, bucket, admitted, rewound>>
        /\ now' \in 0..MaxTime
    BY <1>1 DEF Tick, vars, lockVars, bucketVars, IInv, TypeOK
  <2>2. TypeOK' /\ LockInv' /\ LimiterInv' /\ DeniedOnlyAfterBurst'
    BY <2>1 DEF IInv, TypeOK, LockInv, LimiterInv, HasLimiter, DeniedOnlyAfterBurst
  <2>3. AccountInv' /\ WindowBound'
    BY <2>1, AccountsKept
  <2>. QED
    BY <2>2, <2>3 DEF IInv
<1>2. CASE \E r \in Requests : Arrive(r) \/ Serve(r)
  BY <1>2, LookUpKeeps, CreateKeeps, AdmitKeeps, DenyKeeps DEF Serve
<1>. QED
  BY <1>1, <1>2 DEF Next

\* The invariant holds in every reachable state of the middleware.
THEOREM IInvCorrect == Spec => []IInv
<1>. QED
  BY IInvInit, IInvStep, PTL DEF Spec

\* Every variable keeps its type; in particular no bucket overdraws or overflows.
THEOREM TypeCorrect == Spec => []TypeOK
<1>1. IInv => TypeOK
  BY DEF IInv
<1>. QED
  BY <1>1, IInvCorrect, PTL

\* Requests of one host share one limiter, and only they do.
THEOREM OneLimiterPerHostCorrect == Spec => []OneLimiterPerHost
<1>1. ASSUME IInv PROVE OneLimiterPerHost
  <2>. SUFFICES ASSUME NEW r \in Requests, NEW s \in Requests,
                       pc[r] \in {"found", "timed", "admitted", "denied"},
                       pc[s] \in {"found", "timed", "admitted", "denied"}
                PROVE  limiter[r] = limiter[s] <=> Host(r) = Host(s)
    BY DEF OneLimiterPerHost, HasLimiter
  <2>1. /\ limiter[r] = limiters[Host(r)] /\ limiter[r] \in Requests
        /\ limiter[s] = limiters[Host(s)] /\ limiter[s] \in Requests
    BY <1>1 DEF IInv, LimiterInv, HasLimiter
  <2>2. Host(limiters[Host(r)]) = Host(r) /\ Host(limiters[Host(s)]) = Host(s)
    BY <1>1, <2>1, HostType DEF IInv, LimiterInv
  <2>. QED
    BY <2>1, <2>2
<1>. QED
  BY <1>1, IInvCorrect, PTL

\* Any two admissions of a host lie within a burst and the tokens of the time between.
THEOREM WindowBoundCorrect == Spec => []WindowBound
<1>1. IInv => WindowBound
  BY DEF IInv
<1>. QED
  BY <1>1, IInvCorrect, PTL

\* A host is refused only after a whole burst of its own requests.
THEOREM DeniedOnlyAfterBurstCorrect == Spec => []DeniedOnlyAfterBurst
<1>1. IInv => DeniedOnlyAfterBurst
  BY DEF IInv
<1>. QED
  BY <1>1, IInvCorrect, PTL

\* A refused request came less than Period after its host's last admission.
THEOREM WaitIsEnoughCorrect == Spec => WaitIsEnough
<1>1. ASSUME IInv, [Next]_vars
      PROVE  [\A r \in Requests :
                 pc[r] = "timed" /\ pc'[r] = "denied" =>
                     LET log == admitted[Host(r)]
                     IN  log # <<>> /\ clock[r] < log[Len(log)].at + Period]_vars
  <2>. SUFFICES ASSUME NEW r \in Requests, pc[r] = "timed", pc'[r] = "denied"
                PROVE  /\ admitted[Host(r)] # <<>>
                       /\ clock[r] < admitted[Host(r)][Len(admitted[Host(r)])].at + Period
    OBVIOUS
  <2>1. pc \in [Requests -> Steps]
    BY <1>1 DEF IInv, TypeOK
  <2>2. Deny(r)
    BY <1>1, <2>1 DEF Next, vars, Tick, Serve, Arrive, LookUp, CreateLimiter, ReturnLimiter,
                      ReadClock, Admit, Deny, Goto
  <2>. QED
    BY <1>1, <2>2, DenyFacts
<1>. QED
  BY <1>1, IInvCorrect, PTL DEF Spec, WaitIsEnough

-----------------------------------------------------------------------------
(* The middleware implements HostBuckets *)

MappedStage == [r \in Requests |-> StageOf(r)]
MappedBucket == [h \in Hosts |-> BucketOf(h)]

\* The bucket the code advances, with a clock moved back, holds what the abstract
\* bucket holds, which never moves back to count.
LEMMA HoldsFacts ==
    ASSUME NEW b \in Bucket, NEW t \in 0..MaxTime
    PROVE  /\ Buckets!Holds(b, t) = TokensAt(b, t)
           /\ b.last - Rewind(b, t) = IF t < b.last THEN t ELSE b.last
<1>1. b.tokens \in 0..Cap /\ b.last \in 0..MaxTime /\ Cap \in Nat
  BY CapType DEF Bucket
<1>2. TokensAt(b, t) = LET held == b.tokens + (IF t > b.last THEN t - b.last ELSE 0)
                       IN  IF held > Cap THEN Cap ELSE held
  BY <1>1 DEF TokensAt, Rewind
<1>3. Buckets!Holds(b, t) = TokensAt(b, t)
  BY <1>2, Zenon DEF Buckets!Holds, Cap
<1>. QED
  BY <1>1, <1>3 DEF Rewind

LEMMA BucketsInit == Init => Buckets!Init
<1>. SUFFICES ASSUME Init PROVE Buckets!Init
  OBVIOUS
<1>1. MappedStage = [r \in Requests |-> "pending"]
  BY DEF Init, MappedStage, StageOf
<1>2. MappedBucket = [h \in Hosts |-> FullBucket]
  BY DEF Init, MappedBucket, BucketOf
<1>3. FullBucket = Buckets!Full
  BY DEF FullBucket, Buckets!Full, Cap
<1>. QED
  BY <1>1, <1>2, <1>3 DEF Init, Buckets!Init, MappedStage, MappedBucket

\* Finding or making a limiter shows in no host's bucket.
LEMMA LookUpStutters ==
    ASSUME IInv, NEW r \in Requests,
           Arrive(r) \/ LookUp(r) \/ CreateLimiter(r) \/ ReturnLimiter(r)
    PROVE  UNCHANGED Buckets!vars
<1>1. UNCHANGED <<now, clock>>
  BY DEF Arrive, LookUp, CreateLimiter, ReturnLimiter
<1>2. MappedStage' = MappedStage
  <2>1. ASSUME NEW s \in Requests PROVE StageOf(s)' = StageOf(s)
    BY DEF IInv, TypeOK, StageOf, Arrive, LookUp, CreateLimiter, ReturnLimiter, Goto
  <2>. QED
    BY <2>1 DEF MappedStage
<1>3. MappedBucket' = MappedBucket
  <2>1. ASSUME NEW h \in Hosts PROVE BucketOf(h)' = BucketOf(h)
    <3>1. CASE CreateLimiter(r)
      <4>1. limiters[Host(r)] = None /\ \A g \in Hosts : limiters[g] # r
        BY <3>1 DEF IInv, LimiterInv, HasLimiter, CreateLimiter
      <4>2. limiters[h] = None \/ bucket'[limiters[h]] = bucket[limiters[h]]
        BY <3>1, <4>1 DEF IInv, TypeOK, CreateLimiter
      <4>3. /\ limiters'[h] = IF h = Host(r) THEN r ELSE limiters[h]
            /\ bucket'[r] = FullBucket
        BY <3>1, HostType DEF IInv, TypeOK, CreateLimiter
      <4>. QED
        BY <4>1, <4>2, <4>3 DEF BucketOf
    <3>2. CASE Arrive(r) \/ LookUp(r) \/ ReturnLimiter(r)
      BY <3>2 DEF BucketOf, Arrive, LookUp, ReturnLimiter, lockVars, bucketVars
    <3>. QED
      BY <3>1, <3>2
  <2>. QED
    BY <2>1 DEF MappedBucket
<1>. QED
  BY <1>1, <1>2, <1>3 DEF Buckets!vars, MappedStage, MappedBucket

LEMMA ReadClockObserves ==
    ASSUME IInv, NEW r \in Requests, ReadClock(r)
    PROVE  Buckets!Observe(r)
<1>1. MappedStage' = [MappedStage EXCEPT ![r] = "observed"] /\ MappedStage[r] = "pending"
  <2>1. \A s \in Requests : StageOf(s)' = IF s = r THEN "observed" ELSE StageOf(s)
    BY DEF IInv, TypeOK, StageOf, ReadClock, Goto
  <2>. QED
    BY <2>1 DEF MappedStage, StageOf, ReadClock
<1>2. MappedBucket' = MappedBucket
  BY DEF MappedBucket, BucketOf, ReadClock, lockVars, bucketVars
<1>. QED
  BY <1>1, <1>2 DEF ReadClock, Buckets!Observe, MappedStage, MappedBucket

\* A verdict is the verdict of the host's one bucket.
LEMMA VerdictDecides ==
    ASSUME IInv, NEW r \in Requests, Admit(r) \/ Deny(r)
    PROVE  Buckets!Admit(r) \/ Buckets!Deny(r)
<1>1. PICK h \in Hosts, l \in Requests, b \in Bucket, t \in 0..MaxTime :
         /\ h = Host(r) /\ l = limiter[r] /\ l = limiters[h] /\ b = bucket[l]
         /\ t = clock[r] /\ pc[r] = "timed"
         /\ \A g \in Hosts : g # h => limiters[g] # l
  BY AllowFacts, HostType DEF Admit, Deny
<1>2. /\ MappedStage[r] = "observed"
      /\ MappedBucket[h] = b
      /\ [s \in Requests |-> Host(s)][r] = h
      /\ UNCHANGED <<now, clock>>
  BY <1>1 DEF MappedStage, StageOf, MappedBucket, BucketOf, Admit, Deny
<1>3. ASSUME NEW full, bucket' = [bucket EXCEPT ![l] = full], limiters' = limiters
      PROVE  MappedBucket' = [MappedBucket EXCEPT ![h] = full]
  <2>1. ASSUME NEW g \in Hosts
        PROVE  BucketOf(g)' = IF g = h THEN full ELSE BucketOf(g)
    BY <1>1, <1>3 DEF IInv, TypeOK, BucketOf
  <2>. QED
    BY <2>1 DEF MappedBucket
<1>4. ASSUME NEW verdict \in {"admitted", "denied"}, pc' = [pc EXCEPT ![r] = verdict]
      PROVE  MappedStage' = [MappedStage EXCEPT ![r] = verdict]
  <2>1. \A s \in Requests : StageOf(s)' = IF s = r THEN verdict ELSE StageOf(s)
    BY <1>4 DEF IInv, TypeOK, StageOf
  <2>. QED
    BY <2>1 DEF MappedStage
<1>5. /\ Buckets!Holds(b, t) = TokensAt(b, t)
      /\ b.last - Rewind(b, t) = IF t < b.last THEN t ELSE b.last
  BY HoldsFacts
<1>6. CASE Admit(r)
  <2>1. PICK full : full = [tokens |-> Buckets!Holds(b, t) - Period, last |-> t]
    OBVIOUS
  <2>2. /\ bucket' = [bucket EXCEPT ![l] = full]
        /\ Buckets!Holds(b, t) >= Period
        /\ pc' = [pc EXCEPT ![r] = "admitted"]
        /\ limiters' = limiters
    BY <1>1, <1>5, <1>6, <2>1 DEF Admit, Goto, lockVars
  <2>3. /\ MappedBucket' = [MappedBucket EXCEPT ![h] = full]
        /\ MappedStage' = [MappedStage EXCEPT ![r] = "admitted"]
    BY <2>2, <1>3, <1>4
  <2>. QED
    BY <1>1, <1>2, <2>1, <2>2, <2>3, Zenon DEF Buckets!Admit, MappedStage, MappedBucket
<1>7. CASE Deny(r)
  <2>1. PICK full : full = [b EXCEPT !.last = IF t < b.last THEN t ELSE b.last]
    OBVIOUS
  <2>2. /\ bucket' = [bucket EXCEPT ![l] = full]
        /\ Buckets!Holds(b, t) < Period
        /\ pc' = [pc EXCEPT ![r] = "denied"]
        /\ limiters' = limiters
    BY <1>1, <1>5, <1>7, <2>1 DEF Deny, Goto, lockVars
  <2>3. /\ MappedBucket' = [MappedBucket EXCEPT ![h] = full]
        /\ MappedStage' = [MappedStage EXCEPT ![r] = "denied"]
    BY <2>2, <1>3, <1>4
  <2>. QED
    BY <1>1, <1>2, <2>1, <2>2, <2>3, Zenon DEF Buckets!Deny, MappedStage, MappedBucket
<1>. QED
  BY <1>6, <1>7

LEMMA BucketsStep == IInv /\ [Next]_vars => [Buckets!Next]_(Buckets!vars)
<1>. SUFFICES ASSUME IInv, [Next]_vars PROVE [Buckets!Next]_(Buckets!vars)
  OBVIOUS
<1>1. CASE UNCHANGED vars
  <2>1. UNCHANGED <<now, clock, pc, limiters, bucket>>
    BY <1>1 DEF vars, lockVars, bucketVars
  <2>2. MappedStage' = MappedStage /\ MappedBucket' = MappedBucket
    BY <2>1 DEF MappedStage, StageOf, MappedBucket, BucketOf
  <2>. QED
    BY <2>1, <2>2 DEF Buckets!vars, MappedStage, MappedBucket
<1>2. CASE Tick
  <2>1. /\ UNCHANGED <<clock, pc, limiters, bucket>>
        /\ now < MaxTime /\ now' = now + 1
    BY <1>2 DEF Tick, lockVars, bucketVars
  <2>2. MappedStage' = MappedStage /\ MappedBucket' = MappedBucket
    BY <2>1 DEF MappedStage, StageOf, MappedBucket, BucketOf
  <2>. QED
    BY <2>1, <2>2 DEF Buckets!Next, Buckets!Tick, MappedStage, MappedBucket
<1>3. ASSUME NEW r \in Requests, Arrive(r) \/ Serve(r)
      PROVE  [Buckets!Next]_(Buckets!vars)
  BY <1>3, LookUpStutters, ReadClockObserves, VerdictDecides DEF Serve, Buckets!Next
<1>. QED
  BY <1>1, <1>2, <1>3 DEF Next

\* Whatever the interleaving in getLimiter, clients see one full bucket per host that
\* was there from the start, and one-step verdicts.
THEOREM ImplementsBucketsCorrect == Spec => ImplementsBuckets
<1>. QED
  BY BucketsInit, BucketsStep, IInvCorrect, PTL DEF Spec, ImplementsBuckets, Buckets!Spec

-----------------------------------------------------------------------------
(* The lock is never left behind *)

\* Whoever holds rl.mu is about to release it, and nothing can be in its way: both
\* steps out of getLimiter (middleware.go:734-742) need only the holder itself.
LockReleasable ==
    mu # None => mu \in Requests /\ pc[mu] \in {"creating", "returning"}

LEMMA LockReleasableStep ==
    ASSUME IInv, LockReleasable, [Next]_vars
    PROVE  LockReleasable'
<1>1. CASE Tick \/ UNCHANGED vars
  BY <1>1 DEF LockReleasable, Tick, vars, lockVars, bucketVars
<1>2. ASSUME NEW r \in Requests, Arrive(r) \/ Serve(r)
      PROVE  LockReleasable'
  <2>. USE DEF LockReleasable, Goto, lockVars
  <2>1. CASE LookUp(r)
    BY <2>1 DEF LookUp, IInv, TypeOK
  <2>2. CASE CreateLimiter(r) \/ ReturnLimiter(r)
    BY <2>2 DEF CreateLimiter, ReturnLimiter
  <2>3. ASSUME UNCHANGED mu, \E step \in Steps : pc' = [pc EXCEPT ![r] = step],
               pc[r] \notin {"creating", "returning"}
        PROVE  LockReleasable'
    BY <2>3 DEF IInv, TypeOK
  <2>4. CASE Arrive(r) \/ ReadClock(r)
    BY <2>3, <2>4 DEF Arrive, ReadClock, Steps
  <2>5. CASE Admit(r) \/ Deny(r)
    BY <2>3, <2>5 DEF Admit, Deny, Steps
  <2>. QED
    BY <1>2, <2>1, <2>2, <2>4, <2>5 DEF Serve
<1>. QED
  BY <1>1, <1>2 DEF Next

\* The mutex of getLimiter is held only by a request on its way out of it: what
\* EveryRequestDecided needs beyond a fair scheduler.
THEOREM LockReleasableCorrect == Spec => []LockReleasable
<1>1. Init => LockReleasable
  BY DEF Init, LockReleasable
<1>2. IInv /\ LockReleasable /\ [Next]_vars => LockReleasable'
  BY LockReleasableStep
<1>. QED
  BY <1>1, <1>2, IInvCorrect, PTL DEF Spec
=============================================================================
