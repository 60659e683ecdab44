------------------------------ MODULE MCAccounts ------------------------------
(* An instance of Accounts for TLC. *)
EXTENDS Accounts, TLC

CONSTANTS g1, g2, l1, l2, e1, p1, p2

\* Two registrations of one address with passwords of their own, a login and
\* a login without a password.
MCEmail == g1 :> e1 @@ g2 :> e1 @@ l1 :> e1 @@ l2 :> e1
MCPassword == g1 :> p1 @@ g2 :> p2 @@ l1 :> p1 @@ l2 :> Empty
MCShort == {Empty}
=============================================================================
