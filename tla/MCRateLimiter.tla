----------------------------- MODULE MCRateLimiter -----------------------------
(* An instance of RateLimiter for TLC. *)
EXTENDS RateLimiter, TLC

CONSTANTS h1, h2, p1, p2, r1, r2, r3, r4

\* Three requests of one host, two of them from one connection, and one of another.
MCRemoteAddr == r1 :> <<h1, p1>> @@ r2 :> <<h1, p1>> @@ r3 :> <<h1, p2>> @@ r4 :> <<h2, p1>>
=============================================================================
