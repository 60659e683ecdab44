---------------------------- MODULE MCHistoryPages ----------------------------
(* An instance of HistoryPages for TLC. *)
EXTENDS HistoryPages, TLC

CONSTANTS d1, d2, d3, d4, w1, w2, u1, u2, p1

\* Two workers; three rows for the user that reads and one for another.
MCWorkerOf == d1 :> w1 @@ d2 :> w1 @@ d3 :> w2 @@ d4 :> w2
MCOwner == d1 :> u1 @@ d2 :> u1 @@ d3 :> u1 @@ d4 :> u2
MCWho == p1 :> u1

\* A missing, a usual and an excessive limit, and one that is no number.
MCLimits == {0, 2, 5, NotANumber}
MCOffsets == {-1, 0}
=============================================================================
