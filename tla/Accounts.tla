-------------------------------- MODULE Accounts --------------------------------
(***************************************************************************)
(* Accounts and tokens of the web-server: RegisterHandler and LoginHandler *)
(* (handlers.go), the users table (database.go), GenerateToken,            *)
(* ValidateToken and AuthMiddleware (middleware.go), and the life of the   *)
(* process around them (main.go): start, SIGTERM with Shutdown and the     *)
(* deferred Close of the database, a Shutdown that runs out of time, a     *)
(* crash, and a restart with the same or another JWT_SECRET.               *)
(*                                                                         *)
(* PostgreSQL (table users: id SERIAL, email UNIQUE), bcrypt, the JWT      *)
(* library and net/http are external.  A hash is the password it stands    *)
(* for; a signature is the name of the secret.  Every call to PostgreSQL   *)
(* may fail, and an INSERT may be stored without its answer arriving.      *)
(***************************************************************************)
EXTENDS Integers

CONSTANTS Registrations, Logins,  \* POST /register and POST /login requests
          Email, Password,        \* what the body of each names
          Empty,                  \* an empty field, or a body that is no JSON
          Short,                  \* passwords of less than six bytes, Empty among them
          Calls,                  \* GET /history and POST /solve requests
          Secrets,                \* values of JWT_SECRET that InitJWTSecret accepts
          TokenLife,              \* the 24 hours of GenerateToken, in ticks
          MaxTime,                \* bound on the clock
          MaxStarts,              \* bound on the starts of the process
          None                    \* "no row", "no token", "no user"

Requests == Registrations \cup Logins

ASSUME RequestAssumption ==
    /\ Registrations \cap Logins = {}
    /\ DOMAIN Email = Requests
    /\ DOMAIN Password = Requests
    /\ Empty \in Short
ASSUME BoundAssumption ==
    /\ TokenLife \in Nat \ {0}
    /\ MaxTime \in Nat
    /\ MaxStarts \in Nat
ASSUME NoneAssumption == None \notin Nat /\ None \notin Secrets

VARIABLES
    now,         \* the clock, in ticks
    web,         \* how far Run is: see Phases
    secret,      \* jwtSecret
    starts,      \* starts of the process so far
    step,        \* where each register or login request is
    users,       \* the users table
    nextId,      \* the sequence behind users.id
    row,         \* the row GetUserByEmail read for each login
    userId,      \* user.ID once a handler knows it
    token,       \* the token GenerateToken made for each request
    call,        \* where each /history or /solve request is
    cookie,      \* its authToken cookie, None when absent or empty
    header,      \* its bearer token, None when absent or malformed
    callUser,    \* userIDKey in its context
    expected,    \* ghost: logins sent after their account's 201
    disrupted,   \* ghost: the process crashed, or a Shutdown ran out of time
    checkedAt    \* ghost: when AuthMiddleware checked each call

requestVars == <<step, row, userId, token, expected>>
tableVars == <<users, nextId>>
callVars == <<call, cookie, header, callUser, checkedAt>>
processVars == <<web, secret, starts, disrupted>>
vars == <<now, requestVars, tableVars, callVars, processVars>>

Phases == {"down", "starting", "up", "draining", "closing", "closed"}
Times == 0..MaxTime
Rows == [id : Nat, email : {Email[r] : r \in Requests},
         password : {Password[r] : r \in Requests}, by : Registrations]
Tokens == [user : Nat, iat : Times, exp : Nat, secret : Secrets]

TypeOK ==
    /\ now \in Times
    /\ web \in Phases
    /\ secret \in Secrets \cup {None}
    /\ starts \in 0..MaxStarts
    /\ step \in [Requests -> {"idle", "decoded", "hashed", "found", "identified",
                              "signed", "granted", "rejected", "refused", "misjudged", "failed", "cut"}]
    /\ users \subseteq Rows
    /\ nextId \in Nat
    /\ row \in [Requests -> Rows \cup {None}]
    /\ userId \in [Requests -> Nat \cup {None}]
    /\ token \in [Requests -> Tokens \cup {None}]
    /\ call \in [Calls -> {"idle", "arrived", "serving", "served", "unauthorized", "cut"}]
    /\ cookie \in [Calls -> Tokens \cup {None}]
    /\ header \in [Calls -> Tokens \cup {None}]
    /\ callUser \in [Calls -> Nat \cup {None}]
    /\ expected \subseteq Logins
    /\ disrupted \in BOOLEAN
    /\ checkedAt \in [Calls -> Times]

Init ==
    /\ now = 0
    /\ web = "down"
    /\ secret = None
    /\ starts = 0
    /\ step = [r \in Requests |-> "idle"]
    /\ users = {}
    /\ nextId = 1
    /\ row = [r \in Requests |-> None]
    /\ userId = [r \in Requests |-> None]
    /\ token = [r \in Requests |-> None]
    /\ call = [c \in Calls |-> "idle"]
    /\ cookie = [c \in Calls |-> None]
    /\ header = [c \in Calls |-> None]
    /\ callUser = [c \in Calls |-> None]
    /\ expected = {}
    /\ disrupted = FALSE
    /\ checkedAt = [c \in Calls |-> 0]

Tick ==
    /\ now < MaxTime
    /\ now' = now + 1
    /\ UNCHANGED <<requestVars, tableVars, callVars, processVars>>

-----------------------------------------------------------------------------
(* The process *)

HandlersRun == web \in {"up", "draining", "closing", "closed"}
DatabaseOpen == web \in {"up", "draining", "closing"}

InHandler(r) == step[r] \in {"decoded", "hashed", "found", "identified", "signed"}
InCall(c) == call[c] \in {"arrived", "serving"}
NobodyInside == (\A r \in Requests : ~InHandler(r)) /\ (\A c \in Calls : ~InCall(c))

\* InitJWTSecret accepts JWT_SECRET; unset or too short, the start ends here.
InitJWTSecret(k) ==
    /\ web = "down"
    /\ starts < MaxStarts
    /\ web' = "starting"
    /\ secret' = k
    /\ starts' = starts + 1
    /\ UNCHANGED <<now, requestVars, tableVars, callVars, disrupted>>

\* ConnectDB, ConnectNATS, the routes and ListenAndServe.
Listen ==
    /\ web = "starting"
    /\ web' = "up"
    /\ UNCHANGED <<now, requestVars, tableVars, callVars, secret, starts, disrupted>>

\* ConnectDB or ConnectNATS fails: Run returns, main exits.
StartFails ==
    /\ web = "starting"
    /\ web' = "down"
    /\ secret' = None
    /\ UNCHANGED <<now, requestVars, tableVars, callVars, starts, disrupted>>

\* SIGTERM or SIGINT: srv.Shutdown closes the listener.
BeginShutdown ==
    /\ web = "up"
    /\ web' = "draining"
    /\ UNCHANGED <<now, requestVars, tableVars, callVars, secret, starts, disrupted>>

\* Mutated: Run returns without waiting for the handlers.
ShutdownReturnsAtOnce ==
    /\ web = "draining"
    /\ web' = "closing"
    /\ UNCHANGED <<now, requestVars, tableVars, callVars, secret, starts, disrupted>>

\* Shutdown returns once every handler has, and Run's deferred calls begin.
ShutdownReturns ==
    /\ web = "draining"
    /\ NobodyInside
    /\ web' = "closing"
    /\ UNCHANGED <<now, requestVars, tableVars, callVars, secret, starts, disrupted>>

\* The 30 seconds end with handlers at work, or the listener fails (serverErr).
RunFails ==
    /\ web \in {"up", "draining"}
    /\ web' = "closing"
    /\ disrupted' = TRUE
    /\ UNCHANGED <<now, requestVars, tableVars, callVars, secret, starts>>

\* The deferred db.Close().
CloseDB ==
    /\ web = "closing"
    /\ web' = "closed"
    /\ UNCHANGED <<now, requestVars, tableVars, callVars, secret, starts, disrupted>>

\* The process is gone, and with it every request that was inside.
ProcessEnds ==
    /\ web' = "down"
    /\ secret' = None
    /\ step' = [r \in Requests |-> IF InHandler(r) THEN "cut" ELSE step[r]]
    /\ call' = [c \in Calls |-> IF InCall(c) THEN "cut" ELSE call[c]]
    /\ UNCHANGED <<now, starts, row, userId, token, expected, tableVars,
                   cookie, header, callUser, checkedAt>>

\* main returns, or log.Fatalf.
Exit ==
    /\ web = "closed"
    /\ ProcessEnds
    /\ UNCHANGED disrupted

Crash ==
    /\ web # "down"
    /\ ProcessEnds
    /\ disrupted' = TRUE

-----------------------------------------------------------------------------
(* RegisterHandler and LoginHandler *)

Goto(r, s) == step' = [step EXCEPT ![r] = s]

\* A login is "expected" when a registration of its address and password has its 201.
Expected(r) ==
    \E g \in Registrations : /\ step[g] = "granted"
                             /\ Email[g] = Email[r]
                             /\ Password[g] = Password[r]

BadInput(r) ==
    \/ Email[r] = Empty
    \/ Password[r] = Empty
    \/ r \in Registrations /\ Password[r] \in Short

\* The request reaches its handler, which decodes and checks the body: 400, or go on.
Arrive(r) ==
    /\ web = "up"
    /\ step[r] = "idle"
    /\ Goto(r, IF BadInput(r) THEN "rejected" ELSE "decoded")
    /\ expected' = IF r \in Logins /\ Expected(r) THEN expected \cup {r} ELSE expected
    /\ UNCHANGED <<now, row, userId, token, tableVars, callVars, processVars>>

\* bcrypt.GenerateFromPassword, which may fail: 500.
HashPassword(r) ==
    /\ HandlersRun
    /\ r \in Registrations
    /\ step[r] = "decoded"
    /\ \E s \in {"hashed", "failed"} : Goto(r, s)
    /\ UNCHANGED <<now, row, userId, token, expected, tableVars, callVars,
                   processVars>>

NewRow(r) == [id |-> nextId, email |-> Email[r], password |-> Password[r], by |-> r]

EmailFree(r) == \A u \in users : u.email # Email[r]

\* Mutated: ON CONFLICT (email) DO UPDATE SET password_hash.
CreateUserUpserts(r) ==
    /\ HandlersRun
    /\ DatabaseOpen
    /\ step[r] = "hashed"
    /\ users' = {u \in users : u.email # Email[r]} \cup {NewRow(r)}
    /\ nextId' = nextId + 1
    /\ userId' = [userId EXCEPT ![r] = nextId]
    /\ Goto(r, "identified")
    /\ UNCHANGED <<now, row, token, expected, callVars, processVars>>

\* Mutated: the id that the INSERT returns is not scanned.
CreateUserUnscanned(r) ==
    /\ HandlersRun
    /\ DatabaseOpen
    /\ step[r] = "hashed"
    /\ EmailFree(r)
    /\ users' = users \cup {NewRow(r)}
    /\ nextId' = nextId + 1
    /\ Goto(r, "identified")
    /\ UNCHANGED <<now, row, userId, token, expected, callVars, processVars>>

\* INSERT ... RETURNING id is stored and answered: UNIQUE(email) holds.
CreateUser(r) ==
    /\ HandlersRun
    /\ DatabaseOpen
    /\ step[r] = "hashed"
    /\ EmailFree(r)
    /\ users' = users \cup {NewRow(r)}
    /\ nextId' = nextId + 1
    /\ userId' = [userId EXCEPT ![r] = nextId]
    /\ Goto(r, "identified")
    /\ UNCHANGED <<now, row, token, expected, callVars, processVars>>

\* The row is stored but its answer is lost: 500 for an account that exists.
CreateUserUnanswered(r) ==
    /\ HandlersRun
    /\ DatabaseOpen
    /\ step[r] = "hashed"
    /\ EmailFree(r)
    /\ users' = users \cup {NewRow(r)}
    /\ nextId' = nextId + 1
    /\ Goto(r, "failed")
    /\ UNCHANGED <<now, row, userId, token, expected, callVars, processVars>>

\* The address is taken, or the database fails or is closed: 500.  An INSERT
\* that is refused has used up an id.
CreateUserFails(r) ==
    /\ HandlersRun
    /\ step[r] = "hashed"
    /\ nextId' \in {nextId, nextId + 1}
    /\ Goto(r, "failed")
    /\ UNCHANGED <<now, row, userId, token, expected, users, callVars, processVars>>

\* SELECT ... WHERE email = $1 finds a row.
GetUserByEmail(r) ==
    /\ HandlersRun
    /\ DatabaseOpen
    /\ r \in Logins
    /\ step[r] = "decoded"
    /\ \E u \in users : u.email = Email[r] /\ row' = [row EXCEPT ![r] = u]
    /\ Goto(r, "found")
    /\ UNCHANGED <<now, userId, token, expected, tableVars, callVars, processVars>>

\* sql.ErrNoRows and every other error are answered with the same 401, here told apart.
GetUserByEmailFails(r) ==
    /\ HandlersRun
    /\ r \in Logins
    /\ step[r] = "decoded"
    /\ \/ DatabaseOpen /\ EmailFree(r) /\ Goto(r, "refused")
       \/ Goto(r, "misjudged")
    /\ UNCHANGED <<now, row, userId, token, expected, tableVars, callVars, processVars>>

\* Mutated: any password will do.
ComparePasswordSkipped(r) ==
    /\ HandlersRun
    /\ step[r] = "found"
    /\ userId' = [userId EXCEPT ![r] = row[r].id]
    /\ Goto(r, "identified")
    /\ UNCHANGED <<now, row, token, expected, tableVars, callVars, processVars>>

\* bcrypt.CompareHashAndPassword with the row that was read: go on, or 401.
ComparePassword(r) ==
    /\ HandlersRun
    /\ step[r] = "found"
    /\ \/ /\ row[r].password = Password[r]
          /\ userId' = [userId EXCEPT ![r] = row[r].id]
          /\ Goto(r, "identified")
       \/ /\ row[r].password # Password[r]
          /\ Goto(r, "refused")
          /\ UNCHANGED userId
    /\ UNCHANGED <<now, row, token, expected, tableVars, callVars, processVars>>

\* The claims and their signature.
GenerateToken(r) ==
    /\ HandlersRun
    /\ step[r] = "identified"
    /\ token' = [token EXCEPT ![r] = [user |-> userId[r], iat |-> now,
                                      exp |-> now + TokenLife, secret |-> secret]]
    /\ Goto(r, "signed")
    /\ UNCHANGED <<now, row, userId, expected, tableVars, callVars, processVars>>

\* setAuthCookies and the 201 or 200.
Grant(r) ==
    /\ HandlersRun
    /\ step[r] = "signed"
    /\ Goto(r, "granted")
    /\ UNCHANGED <<now, row, userId, token, expected, tableVars, callVars,
                   processVars>>

-----------------------------------------------------------------------------
(* AuthMiddleware in front of /history and /solve *)

\* The tokens clients hold: those of the answers they got.
Held == {token[r] : r \in {s \in Requests : step[s] = "granted"}}

\* A client sends a cookie and a header with tokens it holds, of any age.
SendCall(c) ==
    /\ web = "up"
    /\ call[c] = "idle"
    /\ call' = [call EXCEPT ![c] = "arrived"]
    /\ \E t \in Held \cup {None}, h \in Held \cup {None} :
          /\ cookie' = [cookie EXCEPT ![c] = t]
          /\ header' = [header EXCEPT ![c] = h]
    /\ UNCHANGED <<now, requestVars, tableVars, callUser, checkedAt, processVars>>

\* Mutated: exp is not looked at.
ValidTokenNoExpiry(t) == t # None /\ t.secret = secret

\* ValidateToken: signed with this process's secret and not expired.
ValidToken(t) == t # None /\ t.secret = secret /\ now < t.exp

\* A cookie wins over the header, valid or not.
TokenOf(c) == IF cookie[c] # None THEN cookie[c] ELSE header[c]

AuthMiddleware(c) ==
    /\ HandlersRun
    /\ call[c] = "arrived"
    /\ checkedAt' = [checkedAt EXCEPT ![c] = now]
    /\ \/ /\ ValidToken(TokenOf(c))
          /\ call' = [call EXCEPT ![c] = "serving"]
          /\ callUser' = [callUser EXCEPT ![c] = TokenOf(c).user]
       \/ /\ ~ValidToken(TokenOf(c))
          /\ call' = [call EXCEPT ![c] = "unauthorized"]
          /\ UNCHANGED callUser
    /\ UNCHANGED <<now, requestVars, tableVars, cookie, header, processVars>>

\* The next handler returns: what it does is the subject of other modules.
FinishCall(c) ==
    /\ HandlersRun
    /\ call[c] = "serving"
    /\ call' = [call EXCEPT ![c] = "served"]
    /\ UNCHANGED <<now, requestVars, tableVars, cookie, header, callUser, checkedAt,
                   processVars>>

-----------------------------------------------------------------------------
Process == \/ \E k \in Secrets : InitJWTSecret(k)
           \/ Listen \/ StartFails \/ BeginShutdown \/ ShutdownReturns
           \/ RunFails \/ CloseDB \/ Exit \/ Crash

Handle(r) ==
    \/ HashPassword(r) \/ CreateUser(r) \/ CreateUserUnanswered(r)
    \/ CreateUserFails(r) \/ GetUserByEmail(r) \/ GetUserByEmailFails(r)
    \/ ComparePassword(r) \/ GenerateToken(r) \/ Grant(r)

Serve(c) == AuthMiddleware(c) \/ FinishCall(c)

Next == \/ Tick
        \/ Process
        \/ \E r \in Requests : Arrive(r) \/ Handle(r)
        \/ \E c \in Calls : SendCall(c) \/ Serve(c)

Spec == Init /\ [][Next]_vars

-----------------------------------------------------------------------------
(* Properties *)

Owns(r, id) == \E u \in users : u.id = id /\ u.email = Email[r] /\ u.password = Password[r]

\* Registrations of one address race from the hash to the INSERT
\* (database.go:255): at most one of them gets a 201.
OneWinner ==
    \A r, s \in Registrations :
        step[r] = "granted" /\ step[s] = "granted" /\ Email[r] = Email[s] => r = s

\* Whatever happens between reading or inserting the row and signing, an answer
\* (handlers.go:163, 206) carries a token of the account the password belongs to.
GrantedToOwner ==
    \A r \in Requests : step[r] = "granted" => Owns(r, token[r].user)

\* Once a registration has its 201, no login with its password is refused
\* (handlers.go:192, 198) but for an error of its own database call.
RegisteredCanLogIn ==
    \A r \in expected : step[r] # "refused"

\* A call that runs as a user (AuthMiddleware, middleware.go:385) carried a token that
\* was issued for that user's password less than TokenLife before, by a process with
\* the secret that serves the call: no restart with another secret lets one through.
ServedAsOwner ==
    \A c \in Calls :
        call[c] \in {"serving", "served"} =>
            \E r \in Requests :
                /\ token[r] = TokenOf(c)
                /\ step[r] = "granted"
                /\ Owns(r, callUser[c])
                /\ token[r].iat <= checkedAt[c]
                /\ checkedAt[c] < token[r].iat + TokenLife
                /\ call[c] = "serving" => token[r].secret = secret

\* A shutdown that does not run out of time (main.go:239) ends no request without an
\* answer and closes the database under none (main.go:171).
CleanShutdown ==
    ~disrupted => /\ \A r \in Requests : /\ step[r] # "cut"
                                         /\ InHandler(r) => DatabaseOpen
                  /\ \A c \in Calls : /\ call[c] # "cut"
                                      /\ InCall(c) => DatabaseOpen

Entries == {[email |-> u.email, password |-> u.password, by |-> u.by] : u \in users}

Book == INSTANCE AccountBook WITH
    book <- Entries,
    granted <- {r \in Requests : step[r] = "granted"},
    over <- {r \in Requests : step[r] \in {"granted", "rejected", "refused", "misjudged", "failed", "cut"}}

\* Accounts keeps what AccountBook promises through every race, lost answer, crash
\* and restart.
ImplementsBook == Book!Spec
=============================================================================
