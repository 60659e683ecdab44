------------------------------- MODULE MCSession -------------------------------
(* An instance of Session for TLC. *)
EXTENDS Session, TLC

CONSTANTS t1, t2, u1, u2, p1, p2, Calls1, Calls2

\* A tab for each of two users who share a browser.
MCAccounts == t1 :> {u1} @@ t2 :> {u2}
MCMaxCalls == t1 :> Calls1 @@ t2 :> Calls2
=============================================================================
