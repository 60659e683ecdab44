------------------------------ MODULE AccountBook ------------------------------
(***************************************************************************)
(* What POST /register and POST /login promise: an address is entered in   *)
(* the book of accounts once, by one registration, and never changed; only *)
(* the registration that entered it and logins with its password are       *)
(* granted.  A request may be turned away at any time, also after it       *)
(* entered an account.  Accounts is shown to implement this module.        *)
(***************************************************************************)
CONSTANTS Registrations, Logins,  \* the requests
          Email, Password         \* what each request names

VARIABLES book,     \* entries [email, password, by]
          granted,  \* requests answered with a token
          over      \* requests that are answered or given up, granted ones too

vars == <<book, granted, over>>

Entry(r) == [email |-> Email[r], password |-> Password[r], by |-> r]

Init == book = {} /\ granted = {} /\ over = {}

\* A registration enters an address that is not in the book; it may be given up in
\* the same step, the account staying.
Enter(r) == /\ r \notin over
            /\ \A e \in book : e.email # Email[r]
            /\ book' = book \cup {Entry(r)}
            /\ over' \in {over, over \cup {r}}
            /\ UNCHANGED granted

Entitled(r) == \/ r \in Registrations /\ Entry(r) \in book
               \/ r \in Logins /\ \E e \in book : e.email = Email[r] /\ e.password = Password[r]

Grant(r) == /\ r \notin over
            /\ Entitled(r)
            /\ granted' = granted \cup {r}
            /\ over' = over \cup {r}
            /\ UNCHANGED book

\* Requests are turned away, several at a time when the process ends.
TurnAway(R) == /\ R \cap over = {}
               /\ over' = over \cup R
               /\ UNCHANGED <<book, granted>>

Next == \/ \E r \in Registrations : Enter(r)
        \/ \E r \in Registrations \cup Logins : Grant(r)
        \/ \E R \in SUBSET (Registrations \cup Logins) : TurnAway(R)

Spec == Init /\ [][Next]_vars
=============================================================================
