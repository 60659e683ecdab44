------------------------------ MODULE HistoryPages ------------------------------
(***************************************************************************)
(* Paging through the history: HistoryHandler (web-server/handlers.go) and *)
(* GetHistoryForUser (web-server/database.go) while history-workers insert *)
(* rows (history-worker/database.go).  CreateHistoryItem reads the clock   *)
(* before its INSERT commits, so with several workers rows appear out of   *)
(* created_at order, and two may have the same created_at.                 *)
(*                                                                         *)
(* PostgreSQL is external: a query sees the rows committed before it, and  *)
(* ORDER BY created_at DESC leaves rows with one created_at in any order,  *)
(* another one in every query.  A client of the API reads page after page, *)
(* its next offset the number of items it has, until a page is empty.      *)
(***************************************************************************)
EXTENDS Integers, Sequences, FiniteSets, Functions

CONSTANTS Deliveries,          \* events handed to a worker, each for one row
          WorkerOf,            \* the worker of each delivery
          Owner,               \* the user_id of each delivery's event
          Users,               \* the user ids
          Readers, Who,        \* clients, and the user AuthMiddleware finds for each
          Limits, Offsets,     \* what a client may send as limit and first offset
          NotANumber,          \* a limit or an offset that strconv.Atoi refuses
          MaxHistoryLimit,     \* 200 in the code
          DefaultHistoryLimit, \* 100 in the code
          MaxTime              \* bound on the clock

ASSUME DeliveryAssumption == /\ IsFiniteSet(Deliveries)
                             /\ DOMAIN WorkerOf = Deliveries
                             /\ Owner \in [Deliveries -> Users]
                             /\ Who \in [Readers -> Users]
ASSUME LimitAssumption == /\ MaxHistoryLimit \in Nat \ {0}
                          /\ DefaultHistoryLimit \in 1..MaxHistoryLimit
                          /\ NotANumber \notin Int
                          /\ Limits \subseteq Int \cup {NotANumber}
                          /\ Offsets \subseteq {o \in Int : o <= 0} \cup {NotANumber}
                          /\ MaxTime \in Nat

VARIABLES
    now,      \* the clock
    delivery, \* each delivery: "pending", "stamped", "stored", "lost"
    stamp,    \* the time.Now() of its CreateHistoryItem
    rows,     \* the history table
    reader,   \* each client: "idle", "reading", "done", "refused", "failed"
    limit,    \* the limit it sends
    offset,   \* the offset it sends next
    page,     \* the last page it got
    seen,     \* all items it got, in the order of the pages
    start     \* ghost: its user's rows when it got the first page

workerVars == <<delivery, stamp, rows>>
readerVars == <<reader, limit, offset, page, seen, start>>
vars == <<now, workerVars, readerVars>>

Times == 0..MaxTime
Rows == [delivery : Deliveries, user : Users, at : Times]

TypeOK ==
    /\ now \in Times
    /\ delivery \in [Deliveries -> {"pending", "stamped", "stored", "lost"}]
    /\ stamp \in [Deliveries -> Times]
    /\ rows \subseteq Rows
    /\ reader \in [Readers -> {"idle", "reading", "done", "refused", "failed"}]
    /\ limit \in [Readers -> Int]
    /\ offset \in [Readers -> Int]
    /\ page \in [Readers -> Seq(Rows)]
    /\ seen \in [Readers -> Seq(Rows)]
    /\ start \in [Readers -> SUBSET Rows]

Init ==
    /\ now = 0
    /\ delivery = [d \in Deliveries |-> "pending"]
    /\ stamp = [d \in Deliveries |-> 0]
    /\ rows = {}
    /\ reader = [p \in Readers |-> "idle"]
    /\ limit = [p \in Readers |-> 0]
    /\ offset = [p \in Readers |-> 0]
    /\ page = [p \in Readers |-> <<>>]
    /\ seen = [p \in Readers |-> <<>>]
    /\ start = [p \in Readers |-> {}]

Tick ==
    /\ now < MaxTime
    /\ now' = now + 1
    /\ UNCHANGED <<workerVars, readerVars>>

-----------------------------------------------------------------------------
(* history-worker: CreateHistoryItem, one delivery of a worker at a time *)

\* time.Now() as the INSERT's argument.
StampItem(d) ==
    /\ delivery[d] = "pending"
    /\ \A e \in Deliveries : WorkerOf[e] = WorkerOf[d] => delivery[e] # "stamped"
    /\ delivery' = [delivery EXCEPT ![d] = "stamped"]
    /\ stamp' = [stamp EXCEPT ![d] = now]
    /\ UNCHANGED <<now, rows, readerVars>>

\* Mutated: created_at is left out of the INSERT.
RowUnstamped(d) == [delivery |-> d, user |-> Owner[d], at |-> 0 - 1]

Row(d) == [delivery |-> d, user |-> Owner[d], at |-> stamp[d]]

InsertItem(d) ==
    /\ delivery[d] = "stamped"
    /\ delivery' = [delivery EXCEPT ![d] = "stored"]
    /\ rows' = rows \cup {Row(d)}
    /\ UNCHANGED <<now, stamp, readerVars>>

\* The error is logged and the event is gone.
InsertFails(d) ==
    /\ delivery[d] = "stamped"
    /\ delivery' = [delivery EXCEPT ![d] = "lost"]
    /\ UNCHANGED <<now, stamp, rows, readerVars>>

-----------------------------------------------------------------------------
(* web-server: HistoryHandler and GetHistoryForUser *)

\* A client chooses its limit and first offset; what Atoi refuses is a 400.
StartReading(p) ==
    /\ reader[p] = "idle"
    /\ \/ /\ NotANumber \in Limits \cup Offsets
          /\ reader' = [reader EXCEPT ![p] = "refused"]
          /\ UNCHANGED <<limit, offset>>
       \/ \E l \in Limits \ {NotANumber}, o \in Offsets \ {NotANumber} :
             /\ reader' = [reader EXCEPT ![p] = "reading"]
             /\ limit' = [limit EXCEPT ![p] = l]
             /\ offset' = [offset EXCEPT ![p] = o]
    /\ UNCHANGED <<now, workerVars, page, seen, start>>

\* Mutated: only a limit that is too large is corrected.
LimitUsedUnclamped(l) == IF l <= 0 THEN DefaultHistoryLimit ELSE l

LimitUsed(l) ==
    IF l <= 0 THEN DefaultHistoryLimit
    ELSE IF l > MaxHistoryLimit THEN MaxHistoryLimit ELSE l

OffsetUsed(o) == IF o < 0 THEN 0 ELSE o

\* Mutated: no WHERE.
RowsOfEverybody(u) == rows

\* WHERE user_id = $1
RowsOf(u) == {r \in rows : r.user = u}

\* Mutated: no ORDER BY.
ListingsUnordered(S) == {s \in [1..Cardinality(S) -> S] : IsInjective(s)}

\* Mutated: ascending.
ListingsOldestFirst(S) ==
    {s \in [1..Cardinality(S) -> S] :
        IsInjective(s) /\ \A i, j \in DOMAIN s : i < j => s[i].at <= s[j].at}

\* ORDER BY created_at DESC: every order PostgreSQL may list the rows in.
Listings(S) ==
    {s \in [1..Cardinality(S) -> S] :
        IsInjective(s) /\ \A i, j \in DOMAIN s : i < j => s[j].at <= s[i].at}

\* LIMIT and OFFSET.
Cut(s, l, o) == SubSeq(s, o + 1, IF o + l < Len(s) THEN o + l ELSE Len(s))

\* A page is answered; the client goes on behind it or has everything.
GetHistoryForUser(p) ==
    /\ reader[p] = "reading"
    /\ \E s \in Listings(RowsOf(Who[p])) :
          page' = [page EXCEPT ![p] = Cut(s, LimitUsed(limit[p]), OffsetUsed(offset[p]))]
    /\ seen' = [seen EXCEPT ![p] = @ \o page'[p]]
    /\ offset' = [offset EXCEPT ![p] = OffsetUsed(@) + Len(page'[p])]
    /\ start' = [start EXCEPT ![p] = IF seen[p] = <<>> THEN RowsOf(Who[p]) ELSE @]
    /\ reader' = [reader EXCEPT ![p] = IF page'[p] = <<>> THEN "done" ELSE "reading"]
    /\ UNCHANGED <<now, workerVars, limit>>

\* The query, a Scan or rows.Err() fails: 500, and no part of the page is answered.
GetHistoryFails(p) ==
    /\ reader[p] = "reading"
    /\ reader' = [reader EXCEPT ![p] = "failed"]
    /\ UNCHANGED <<now, workerVars, limit, offset, page, seen, start>>

-----------------------------------------------------------------------------
Next == \/ Tick
        \/ \E d \in Deliveries : StampItem(d) \/ InsertItem(d) \/ InsertFails(d)
        \/ \E p \in Readers : StartReading(p) \/ GetHistoryForUser(p) \/ GetHistoryFails(p)

Spec == Init /\ [][Next]_vars

-----------------------------------------------------------------------------
(* Properties *)

\* Whatever other users' rows are inserted between the pages, a client sees its
\* user's rows (database.go:362) and never more than the maximum in an answer.
OwnPages ==
    \A p \in Readers : /\ Len(page[p]) <= MaxHistoryLimit
                       /\ \A i \in DOMAIN seen[p] : seen[p][i].user = Who[p]

\* A row that shares its created_at with no other row of its user.
Untied(r) == \A q \in rows : q.user = r.user /\ q.at = r.at => q = r

\* Rows inserted between two pages (handlers.go:258), in front of the offset or
\* behind it, make a client see items twice but skip none of those that were there
\* when it began; ties in created_at are the exception.
NothingSkipped ==
    \A p \in Readers : reader[p] = "done" =>
        \A r \in start[p] : Untied(r) => r \in Range(seen[p])

\* First sights are newest first over all pages: of two rows that were there at the
\* beginning the newer is seen before the older.
ReadInOrder ==
    \A p \in Readers : \A r, q \in start[p] :
        q.at < r.at /\ Untied(r) =>
            \A j \in DOMAIN seen[p] : seen[p][j] = q => \E i \in 1..j : seen[p][i] = r
=============================================================================
