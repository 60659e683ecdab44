------------------------------ MODULE HistoryLedger ------------------------------
(***************************************************************************)
(* What the asynchronous history of MathWizz promises, whatever carries    *)
(* it: a solved problem is announced once, the announcement reaches some   *)
(* set of subscribed history workers, each of them records it at most     *)
(* once, and an announcement or a copy of it may be forgotten, never to    *)
(* come back ("fire-and-forget", at-most-once).  EventPipeline is shown    *)
(* to implement this module.                                               *)
(***************************************************************************)
EXTENDS Integers, Sequences, Functions

CONSTANTS Solves,   \* the solve requests
          Workers   \* the history-worker processes

VARIABLES solved,   \* the solves whose event has been announced
          open,     \* announced, not yet handed to any subscriber
          copies,   \* <<r, w>>: a copy of the event of r is on its way to w
          rows      \* the rows of the history table, in insertion order

vars == <<solved, open, copies, rows>>

Init == /\ solved = {}
        /\ open = {}
        /\ copies = {}
        /\ rows = <<>>

\* A problem is solved and its event announced, once.
Solve(r) == /\ r \notin solved
            /\ solved' = solved \cup {r}
            /\ open' = open \cup {r}
            /\ UNCHANGED <<copies, rows>>

\* The event goes to every member of S at one instant and to nobody later.
Route(r, S) == /\ r \in open
               /\ open' = open \ {r}
               /\ copies' = copies \cup ({r} \X S)
               /\ UNCHANGED <<solved, rows>>

\* A worker turns its copy into a row.
Record(c) == /\ c \in copies
             /\ copies' = copies \ {c}
             /\ rows' = Append(rows, c)
             /\ UNCHANGED <<solved, open>>

\* Events and copies may be lost, several at a time.
Forget(O, C) == /\ open' = open \ O
                /\ copies' = copies \ C
                /\ UNCHANGED <<solved, rows>>

Next == \/ \E r \in Solves : Solve(r) \/ \E S \in SUBSET Workers : Route(r, S)
        \/ \E c \in Solves \X Workers : Record(c)
        \/ \E O \in SUBSET Solves, C \in SUBSET (Solves \X Workers) : Forget(O, C)

Spec == Init /\ [][Next]_vars

-----------------------------------------------------------------------------
\* No copy of an event becomes two rows.
AtMostOncePerWorker == IsInjective(rows)

=============================================================================
