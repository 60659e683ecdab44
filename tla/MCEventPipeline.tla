------------------------------ MODULE MCEventPipeline ------------------------------
(***************************************************************************)
(* Small instances of EventPipeline for TLC.                               *)
(***************************************************************************)
EXTENDS EventPipeline, TLC

\* Requests (and workers) are interchangeable; used by runs without liveness.
Symmetry == Permutations(Solves) \cup Permutations(Workers)

AllIncidents == IncidentKinds

=============================================================================
