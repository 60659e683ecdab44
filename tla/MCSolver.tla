-------------------------------- MODULE MCSolver --------------------------------
(* Instances of Solver for TLC. *)
EXTENDS Solver, SequencesExt

CONSTANTS c1, c2

\* For one call every problem up to length 4 of the classes that count, and a
\* letter; a sum for the other.
AllProblems == [c \in Calls |->
    IF c = c1 THEN BoundedSeq(Classes \ {"other"}, 4) \cup {<<"other">>}
              ELSE {<<"digit", "operator", "digit">>}]

\* A sum for both calls.
AcceptedProblems == [c \in Calls |-> {<<"digit", "operator", "digit">>}]

\* In halves, with the largest int 7: -2.5 and a product beyond it.
SomeValues == {-5, 18}
=============================================================================
