---------------------------- MODULE AccountsProofs ----------------------------
(***************************************************************************)
(* Proofs about Accounts for every set of requests, calls and secrets,     *)
(* every token life and any number of starts.                              *)
(***************************************************************************)
EXTENDS Accounts, TLAPS

USE RequestAssumption, BoundAssumption, NoneAssumption

-----------------------------------------------------------------------------
(* Type correctness *)

LEMMA TypeInit == Init => TypeOK
<1>. SUFFICES ASSUME Init PROVE TypeOK
  OBVIOUS
<1>1. now \in Times /\ starts \in 0..MaxStarts /\ checkedAt \in [Calls -> Times]
  BY DEF Init, Times
<1>2. step \in [Requests -> {"idle"}] /\ call \in [Calls -> {"idle"}]
  BY DEF Init
<1>3. users \subseteq Rows /\ expected \subseteq Logins /\ disrupted \in BOOLEAN
  BY DEF Init
<1>. QED
  BY <1>1, <1>2, <1>3 DEF Init, TypeOK, Phases

LEMMA HeldTokens == TypeOK => Held \subseteq Tokens \cup {None}
BY DEF TypeOK, Held

LEMMA TypeProcess == TypeOK /\ Process => TypeOK'
<1>. SUFFICES ASSUME TypeOK, Process PROVE TypeOK'
  OBVIOUS
<1>. USE DEF TypeOK, Phases, requestVars, tableVars, callVars
<1>1. ASSUME NEW k \in Secrets, InitJWTSecret(k) PROVE TypeOK'
  BY <1>1 DEF InitJWTSecret
<1>2. CASE Listen \/ StartFails \/ BeginShutdown
  BY <1>2 DEF Listen, StartFails, BeginShutdown
<1>3. CASE ShutdownReturns \/ RunFails \/ CloseDB
  BY <1>3 DEF ShutdownReturns, RunFails, CloseDB
<1>4. CASE Exit \/ Crash
  <2>1. ProcessEnds /\ disrupted' \in BOOLEAN
    BY <1>4 DEF Exit, Crash
  <2>. QED
    BY <2>1 DEF ProcessEnds
<1>. QED
  BY <1>1, <1>2, <1>3, <1>4 DEF Process

LEMMA NewRowType ==
    ASSUME TypeOK, NEW r \in Registrations
    PROVE  NewRow(r) \in Rows /\ nextId + 1 \in Nat
BY DEF NewRow, Rows, Requests, TypeOK

LEMMA TypeRegister ==
    ASSUME TypeOK, NEW r \in Registrations,
           CreateUser(r) \/ CreateUserUnanswered(r) \/ CreateUserFails(r)
    PROVE  TypeOK'
<1>. r \in Requests /\ NewRow(r) \in Rows /\ nextId \in Nat /\ nextId + 1 \in Nat
  BY NewRowType DEF Requests, TypeOK
<1>. USE DEF TypeOK, Goto, callVars, processVars
<1>1. CASE CreateUser(r)
  BY <1>1 DEF CreateUser
<1>2. CASE CreateUserUnanswered(r)
  BY <1>2 DEF CreateUserUnanswered
<1>3. CASE CreateUserFails(r)
  BY <1>3 DEF CreateUserFails
<1>. QED
  BY <1>1, <1>2, <1>3

LEMMA TypeLogin ==
    ASSUME TypeOK, NEW r \in Requests,
           \/ Arrive(r) \/ HashPassword(r) \/ GetUserByEmail(r)
           \/ GetUserByEmailFails(r) \/ Grant(r)
    PROVE  TypeOK'
<1>. USE DEF TypeOK, Goto, tableVars, callVars, processVars
<1>1. CASE Arrive(r)
  BY <1>1 DEF Arrive
<1>2. CASE HashPassword(r) \/ Grant(r)
  BY <1>2 DEF HashPassword, Grant
<1>3. CASE GetUserByEmail(r)
  BY <1>3 DEF GetUserByEmail
<1>4. CASE GetUserByEmailFails(r)
  BY <1>4 DEF GetUserByEmailFails
<1>. QED
  BY <1>1, <1>2, <1>3, <1>4

\* These two use what a handler has learnt before: a row, a user id, the secret.
LEMMA TypeToken ==
    ASSUME TypeOK, NEW r \in Requests,
           \/ ComparePassword(r) /\ row[r] \in Rows
           \/ GenerateToken(r) /\ userId[r] \in Nat /\ secret \in Secrets
    PROVE  TypeOK'
<1>. USE DEF TypeOK, Goto, tableVars, callVars, processVars
<1>1. CASE ComparePassword(r) /\ row[r] \in Rows
  BY <1>1 DEF ComparePassword, Rows
<1>2. CASE GenerateToken(r) /\ userId[r] \in Nat /\ secret \in Secrets
  <2>1. now + TokenLife \in Nat
    BY DEF Times
  <2>2. [user |-> userId[r], iat |-> now, exp |-> now + TokenLife, secret |-> secret] \in Tokens
    BY <1>2, <2>1 DEF Tokens
  <2>. QED
    BY <1>2, <2>2 DEF GenerateToken
<1>. QED
  BY <1>1, <1>2

LEMMA TypeCall ==
    ASSUME TypeOK, NEW c \in Calls, SendCall(c) \/ Serve(c)
    PROVE  TypeOK'
<1>. USE DEF TypeOK, requestVars, tableVars, processVars
<1>1. CASE SendCall(c)
  BY <1>1, HeldTokens DEF SendCall
<1>2. CASE AuthMiddleware(c)
  <2>1. TokenOf(c) \in Tokens \cup {None}
    BY DEF TokenOf
  <2>2. ValidToken(TokenOf(c)) => TokenOf(c).user \in Nat
    BY <2>1 DEF ValidToken, Tokens
  <2>. QED
    BY <1>2, <2>2 DEF AuthMiddleware
<1>3. CASE FinishCall(c)
  BY <1>3 DEF FinishCall
<1>. QED
  BY <1>1, <1>2, <1>3 DEF Serve

-----------------------------------------------------------------------------
(* The inductive invariant *)

\* A row was inserted by a registration of its address that has left "hashed".
RowsOK ==
    \A u \in users :
        /\ u.id < nextId
        /\ u.email = Email[u.by] /\ u.password = Password[u.by]
        /\ step[u.by] \notin {"idle", "decoded", "hashed"}

OneRowPerAddress ==
    \A u, v \in users : u.email = v.email \/ u.id = v.id => u = v

\* Only registrations hash; a login compares with a row of its address.
PathOK ==
    \A r \in Requests :
        /\ step[r] = "hashed" => r \in Registrations
        /\ step[r] = "found" => r \in Logins /\ row[r] \in users /\ row[r].email = Email[r]

Identified(r) == step[r] \in {"identified", "signed", "granted"}
Signed(r) == step[r] \in {"signed", "granted"}

RowOf(r, u) == /\ u.email = Email[r] /\ u.password = Password[r]
               /\ r \in Registrations => u.by = r

\* A handler that knows a user id knows that of its account.
KnownOK ==
    \A r \in Requests : Identified(r) =>
        /\ userId[r] \in Nat
        /\ \E u \in users : u.id = userId[r] /\ RowOf(r, u)

TokenOK ==
    \A r \in Requests : Signed(r) =>
        /\ token[r] \in Tokens
        /\ token[r].user = userId[r]
        /\ token[r].iat <= now
        /\ token[r].exp = token[r].iat + TokenLife

\* Clients carry tokens they were granted; a call that is served had a valid one.
CarriedOK == \A c \in Calls : cookie[c] \in Held \cup {None} /\ header[c] \in Held \cup {None}

ServedOK ==
    \A c \in Calls :
        call[c] \in {"serving", "served"} =>
            /\ TokenOf(c) \in Held
            /\ callUser[c] = TokenOf(c).user
            /\ TokenOf(c).iat <= checkedAt[c]
            /\ checkedAt[c] < TokenOf(c).exp
            /\ call[c] = "serving" => TokenOf(c).secret = secret

ExpectedOK ==
    \A r \in expected :
        /\ step[r] # "refused"
        /\ \E u \in users : u.email = Email[r] /\ u.password = Password[r]

\* Handlers run only in a process that has read its secret.
InsideOK ==
    /\ \A r \in Requests : InHandler(r) => HandlersRun
    /\ \A c \in Calls : InCall(c) => HandlersRun
    /\ web # "down" => secret \in Secrets

CleanOK ==
    /\ ~disrupted => /\ \A r \in Requests : step[r] # "cut"
                     /\ \A c \in Calls : call[c] # "cut"
    /\ ~disrupted /\ web \in {"closing", "closed"} => NobodyInside

IInv == /\ TypeOK /\ RowsOK /\ OneRowPerAddress /\ PathOK /\ KnownOK /\ TokenOK
        /\ CarriedOK /\ ServedOK /\ ExpectedOK /\ InsideOK /\ CleanOK

LEMMA IInvInit == Init => IInv
<1>. SUFFICES ASSUME Init PROVE IInv
  OBVIOUS
<1>1. TypeOK
  BY TypeInit
<1>2. /\ RowsOK /\ OneRowPerAddress /\ PathOK /\ KnownOK /\ TokenOK
      /\ CarriedOK /\ ServedOK /\ ExpectedOK
  BY DEF Init, RowsOK, OneRowPerAddress, PathOK, KnownOK, TokenOK, CarriedOK, ServedOK,
         ExpectedOK, Identified, Signed
<1>3. InsideOK /\ CleanOK
  BY DEF Init, InsideOK, CleanOK, InHandler, InCall, HandlersRun
<1>. QED
  BY <1>1, <1>2, <1>3 DEF IInv

\* A start, a stop and the time leave rows, tokens and what is known alone.
LEMMA ProcessStep == IInv /\ (Process \/ Tick) => IInv'
<1>. SUFFICES ASSUME IInv, Process \/ Tick PROVE IInv'
  OBVIOUS
<1>1. TypeOK'
  <2>1. CASE Tick
    BY <2>1 DEF IInv, TypeOK, Tick, Times, requestVars, tableVars, callVars, processVars
  <2>. QED
    BY <2>1, TypeProcess DEF IInv
<1>2. /\ UNCHANGED <<row, userId, token, expected, users, nextId, cookie, header, callUser, checkedAt>>
      /\ now \in Int /\ now' \in Int /\ now <= now'
  BY DEF IInv, TypeOK, Times, Tick, Process, InitJWTSecret, Listen, StartFails, BeginShutdown,
         ShutdownReturns, RunFails, CloseDB, Exit, Crash, ProcessEnds, requestVars, tableVars, callVars
<1>3. /\ \A r \in Requests : step'[r] = step[r] \/ (InHandler(r) /\ step'[r] = "cut")
      /\ \A c \in Calls : call'[c] = call[c] \/ (InCall(c) /\ call'[c] = "cut")
  BY DEF IInv, TypeOK, Tick, Process, InitJWTSecret, Listen, StartFails, BeginShutdown,
         ShutdownReturns, RunFails, CloseDB, Exit, Crash, ProcessEnds, requestVars, callVars
<1>4. Held' = Held
  BY <1>2, <1>3 DEF Held, InHandler
<1>5. RowsOK' /\ OneRowPerAddress' /\ PathOK' /\ ExpectedOK'
  BY <1>2, <1>3 DEF IInv, TypeOK, RowsOK, OneRowPerAddress, PathOK, ExpectedOK, InHandler, Requests, Rows
<1>6. KnownOK' /\ TokenOK'
  BY <1>2, <1>3 DEF IInv, KnownOK, TokenOK, Identified, Signed, InHandler, RowOf, Tokens, Times
<1>7. CarriedOK'
  BY <1>2, <1>4 DEF IInv, CarriedOK
<1>8. InsideOK' /\ CleanOK'
  <2>. USE DEF IInv, TypeOK, InsideOK, CleanOK, InHandler, InCall, HandlersRun, NobodyInside
  <2>1. CASE Tick
    BY <2>1 DEF Tick, requestVars, callVars, processVars
  <2>2. ASSUME NEW k \in Secrets, InitJWTSecret(k)
        PROVE  InsideOK' /\ CleanOK'
    BY <2>2 DEF InitJWTSecret, requestVars, callVars
  <2>3. CASE Listen \/ StartFails
    BY <2>3 DEF Listen, StartFails, requestVars, callVars
  <2>4. CASE BeginShutdown \/ ShutdownReturns
    BY <2>4 DEF BeginShutdown, ShutdownReturns, requestVars, callVars
  <2>5. CASE RunFails \/ CloseDB
    BY <2>5 DEF RunFails, CloseDB, requestVars, callVars
  <2>6. CASE Exit \/ Crash
    BY <2>6 DEF Exit, Crash, ProcessEnds
  <2>. QED
    BY <2>1, <2>2, <2>3, <2>4, <2>5, <2>6 DEF Process
<1>9. ServedOK'
  <2>1. \A c \in Calls : TokenOf(c)' = TokenOf(c)
    BY <1>2 DEF TokenOf
  <2>2. \A c \in Calls : call'[c] = "serving" => secret' = secret
    BY DEF IInv, TypeOK, InsideOK, InCall, HandlersRun, Tick, Process, InitJWTSecret, Listen, StartFails, BeginShutdown,
         ShutdownReturns, RunFails, CloseDB, Exit, Crash, ProcessEnds, requestVars, callVars, processVars
  <2>. QED
    BY <1>2, <1>3, <1>4, <2>1, <2>2 DEF IInv, ServedOK
<1>. QED
  BY <1>1, <1>5, <1>6, <1>7, <1>8, <1>9 DEF IInv

-----------------------------------------------------------------------------
(* Steps of a handler *)

\* What every step of the handler of r leaves alone, and what it only adds to.
HandlerFrame(r) ==
    /\ UNCHANGED <<now, callVars, processVars>>
    /\ HandlersRun
    /\ step[r] # "granted"
    /\ step'[r] \notin {"idle", "cut"}
    /\ \A s \in Requests : s # r => /\ step'[s] = step[s] /\ row'[s] = row[s]
                                    /\ userId'[s] = userId[s] /\ token'[s] = token[s]
    /\ step[r] \notin {"idle", "decoded", "hashed"} =>
           step'[r] \notin {"idle", "decoded", "hashed"}

LEMMA HandlerFrameHolds ==
    ASSUME IInv, NEW r \in Requests, Arrive(r) \/ Handle(r)
    PROVE  HandlerFrame(r)
<1>. USE DEF IInv, TypeOK, HandlerFrame, HandlersRun, Goto
<1>1. CASE Arrive(r)
  BY <1>1 DEF Arrive
<1>2. CASE HashPassword(r) \/ ComparePassword(r) \/ GenerateToken(r) \/ Grant(r)
  BY <1>2 DEF HashPassword, ComparePassword, GenerateToken, Grant
<1>3. CASE CreateUser(r) \/ CreateUserUnanswered(r) \/ CreateUserFails(r)
  BY <1>3 DEF CreateUser, CreateUserUnanswered, CreateUserFails
<1>4. CASE GetUserByEmail(r) \/ GetUserByEmailFails(r)
  BY <1>4 DEF GetUserByEmail, GetUserByEmailFails
<1>. QED
  BY <1>1, <1>2, <1>3, <1>4 DEF Handle

\* What the steps of a handler may do to the table.
LEMMA TableGrows ==
    ASSUME IInv, NEW r \in Requests, Arrive(r) \/ Handle(r)
    PROVE  /\ nextId \in Nat /\ nextId' \in Nat /\ nextId <= nextId'
           /\ \/ users' = users
              \/ /\ r \in Registrations /\ EmailFree(r) /\ step[r] = "hashed"
                 /\ step'[r] \in {"identified", "failed"}
                 /\ nextId' = nextId + 1
                 /\ users' = users \cup {NewRow(r)}
<1>. USE DEF IInv, TypeOK, PathOK, Goto, tableVars
<1>1. CASE CreateUser(r) \/ CreateUserUnanswered(r) \/ CreateUserFails(r)
  BY <1>1 DEF CreateUser, CreateUserUnanswered, CreateUserFails
<1>2. CASE Arrive(r) \/ HashPassword(r) \/ ComparePassword(r) \/ GenerateToken(r) \/ Grant(r)
  BY <1>2 DEF Arrive, HashPassword, ComparePassword, GenerateToken, Grant
<1>3. CASE GetUserByEmail(r) \/ GetUserByEmailFails(r)
  BY <1>3 DEF GetUserByEmail, GetUserByEmailFails
<1>. QED
  BY <1>1, <1>2, <1>3 DEF Handle

\* The rows a handler step leaves are as before, and one for an address.
LEMMA HandlerKeepsRows ==
    ASSUME IInv, NEW r \in Requests, Arrive(r) \/ Handle(r)
    PROVE  RowsOK' /\ OneRowPerAddress'
<1>1. HandlerFrame(r)
  BY HandlerFrameHolds
<1>2. \A u \in users : u \in Rows /\ u.id \in Nat /\ u.by \in Registrations /\ u.id < nextId
  BY DEF IInv, TypeOK, RowsOK, Rows
<1>3. CASE users' = users
  BY <1>1, <1>2, <1>3, TableGrows DEF IInv, RowsOK, OneRowPerAddress, HandlerFrame, Requests
<1>4. CASE users' # users
  <2>1. /\ users' = users \cup {NewRow(r)} /\ nextId' = nextId + 1 /\ nextId \in Nat
        /\ EmailFree(r) /\ step'[r] \notin {"idle", "decoded", "hashed"}
    BY <1>4, TableGrows
  <2>2. /\ NewRow(r).id = nextId /\ NewRow(r).by = r
        /\ NewRow(r).email = Email[r] /\ NewRow(r).password = Password[r]
    BY DEF NewRow
  <2>3. RowsOK'
    BY <1>1, <1>2, <2>1, <2>2 DEF IInv, RowsOK, HandlerFrame, Requests
  <2>4. OneRowPerAddress'
    BY <1>2, <2>1, <2>2 DEF IInv, OneRowPerAddress, EmailFree
  <2>. QED
    BY <2>3, <2>4
<1>. QED
  BY <1>3, <1>4

\* What the handler of r itself holds after its step.
LEMMA HandlerOwn ==
    ASSUME IInv, NEW r \in Requests, Arrive(r) \/ Handle(r)
    PROVE  /\ step'[r] = "hashed" => r \in Registrations
           /\ step'[r] = "found" => r \in Logins /\ row'[r] \in users' /\ row'[r].email = Email[r]
           /\ Identified(r)' => userId'[r] \in Nat /\ \E u \in users' : u.id = userId'[r] /\ RowOf(r, u)
           /\ Signed(r)' => /\ token'[r] \in Tokens
                            /\ token'[r].user = userId'[r]
                            /\ token'[r].iat <= now'
                            /\ token'[r].exp = token'[r].iat + TokenLife
<1>. USE DEF IInv, TypeOK, Identified, Signed, Goto, tableVars
<1>1. CASE Arrive(r) \/ HashPassword(r)
  BY <1>1 DEF Arrive, HashPassword
<1>2. CASE CreateUser(r)
  <2>1. /\ NewRow(r).id = nextId /\ NewRow(r).by = r /\ NewRow(r) \in users'
        /\ NewRow(r).email = Email[r] /\ NewRow(r).password = Password[r]
    BY <1>2 DEF NewRow, CreateUser
  <2>. QED
    BY <1>2, <2>1 DEF CreateUser, RowOf
<1>3. CASE CreateUserUnanswered(r) \/ CreateUserFails(r) \/ GetUserByEmailFails(r)
  BY <1>3 DEF CreateUserUnanswered, CreateUserFails, GetUserByEmailFails
<1>4. CASE GetUserByEmail(r)
  BY <1>4 DEF GetUserByEmail
<1>5. CASE ComparePassword(r)
  <2>1. row[r] \in users /\ row[r].email = Email[r] /\ r \notin Registrations /\ row[r].id \in Nat
    BY <1>5 DEF ComparePassword, PathOK, Rows
  <2>. QED
    BY <1>5, <2>1 DEF ComparePassword, RowOf
<1>6. CASE GenerateToken(r)
  <2>1. userId[r] \in Nat /\ \E u \in users : u.id = userId[r] /\ RowOf(r, u)
    BY <1>6 DEF GenerateToken, KnownOK
  <2>2. secret \in Secrets /\ now \in Times /\ now + TokenLife \in Nat
    BY <1>6 DEF GenerateToken, InsideOK, HandlersRun, Times
  <2>3. /\ users' = users /\ userId' = userId /\ now' = now /\ step'[r] = "signed"
        /\ token'[r] = [user |-> userId[r], iat |-> now, exp |-> now + TokenLife, secret |-> secret]
    BY <1>6 DEF GenerateToken
  <2>4. token'[r] \in Tokens
    BY <2>1, <2>2, <2>3 DEF Tokens
  <2>. QED
    BY <2>1, <2>2, <2>3, <2>4 DEF Times, RowOf
<1>7. CASE Grant(r)
  BY <1>7 DEF Grant, KnownOK, TokenOK, RowOf
<1>. QED
  BY <1>1, <1>2, <1>3, <1>4, <1>5, <1>6, <1>7 DEF Handle

LEMMA HandlerKeepsRequests ==
    ASSUME IInv, NEW r \in Requests, Arrive(r) \/ Handle(r)
    PROVE  PathOK' /\ KnownOK' /\ TokenOK'
<1>1. HandlerFrame(r) /\ users \subseteq users'
  BY HandlerFrameHolds, TableGrows
<1>2. PathOK'
  BY <1>1, HandlerOwn DEF IInv, PathOK, HandlerFrame
<1>3. KnownOK'
  <2>. SUFFICES ASSUME NEW s \in Requests, Identified(s)'
                PROVE  userId'[s] \in Nat /\ \E u \in users' : u.id = userId'[s] /\ RowOf(s, u)
    BY DEF KnownOK, RowOf
  <2>1. CASE s = r
    BY <2>1, HandlerOwn
  <2>2. CASE s # r
    BY <1>1, <2>2 DEF IInv, KnownOK, HandlerFrame, Identified
  <2>. QED
    BY <2>1, <2>2
<1>4. TokenOK'
  <2>. SUFFICES ASSUME NEW s \in Requests, Signed(s)'
                PROVE  /\ token'[s] \in Tokens
                       /\ token'[s].user = userId'[s]
                       /\ token'[s].iat <= now'
                       /\ token'[s].exp = token'[s].iat + TokenLife
    BY DEF TokenOK
  <2>1. CASE s = r
    BY <2>1, HandlerOwn
  <2>2. CASE s # r
    BY <1>1, <2>2 DEF IInv, TokenOK, HandlerFrame, Signed
  <2>. QED
    BY <2>1, <2>2
<1>. QED
  BY <1>2, <1>3, <1>4

LEMMA HandlerKeepsCalls ==
    ASSUME IInv, NEW r \in Requests, Arrive(r) \/ Handle(r)
    PROVE  CarriedOK' /\ ServedOK' /\ InsideOK' /\ CleanOK'
<1>1. HandlerFrame(r)
  BY HandlerFrameHolds
<1>2. Held \subseteq Held'
  BY <1>1 DEF Held, HandlerFrame
<1>3. CarriedOK'
  BY <1>1, <1>2 DEF IInv, CarriedOK, HandlerFrame, callVars
<1>4. ServedOK'
  <2>1. \A c \in Calls : TokenOf(c)' = TokenOf(c)
    BY <1>1 DEF TokenOf, HandlerFrame, callVars
  <2>. QED
    BY <1>1, <1>2, <2>1 DEF IInv, ServedOK, HandlerFrame, callVars, processVars
<1>5. InsideOK'
  BY <1>1 DEF IInv, InsideOK, HandlerFrame, HandlersRun, InHandler, InCall, callVars, processVars
<1>6. CleanOK'
  <2>1. CASE Arrive(r)
    BY <1>1, <2>1 DEF IInv, CleanOK, HandlerFrame, Arrive, NobodyInside, InHandler, InCall,
                      callVars, processVars
  <2>2. CASE Handle(r)
    <3>1. InHandler(r)
      BY <2>2 DEF InHandler, Handle, HashPassword, CreateUser, CreateUserUnanswered, CreateUserFails,
                  GetUserByEmail, GetUserByEmailFails, ComparePassword, GenerateToken, Grant
    <3>. QED
      BY <1>1, <3>1 DEF IInv, CleanOK, HandlerFrame, NobodyInside, callVars, processVars
  <2>. QED
    BY <2>1, <2>2
<1>. QED
  BY <1>3, <1>4, <1>5, <1>6

LEMMA HandlerKeepsExpected ==
    ASSUME IInv, NEW r \in Requests, Arrive(r) \/ Handle(r)
    PROVE  ExpectedOK'
<1>1. HandlerFrame(r) /\ users \subseteq users'
  BY HandlerFrameHolds, TableGrows
<1>2. CASE Arrive(r)
  <2>1. ASSUME NEW s \in expected', s \notin expected
        PROVE  \E u \in users : u.email = Email[s] /\ u.password = Password[s]
    <3>1. s = r /\ Expected(r)
      BY <1>2, <2>1 DEF Arrive
    <3>2. PICK g \in Registrations : step[g] = "granted" /\ Email[g] = Email[r] /\ Password[g] = Password[r]
      BY <3>1 DEF Expected
    <3>. QED
      BY <3>1, <3>2 DEF IInv, KnownOK, Identified, RowOf, Requests
  <2>. QED
    BY <1>1, <1>2, <2>1 DEF IInv, TypeOK, ExpectedOK, Arrive, Goto, HandlerFrame, Requests
<1>3. CASE Handle(r)
  <2>1. expected' = expected
    BY <1>3 DEF Handle, HashPassword, CreateUser, CreateUserUnanswered, CreateUserFails,
                GetUserByEmail, GetUserByEmailFails, ComparePassword, GenerateToken, Grant
  <2>2. r \in expected => step'[r] # "refused"
    <3>. SUFFICES ASSUME r \in expected, step'[r] = "refused" PROVE FALSE
      OBVIOUS
    <3>1. PICK u \in users : u.email = Email[r] /\ u.password = Password[r]
      BY DEF IInv, ExpectedOK
    <3>2. CASE GetUserByEmailFails(r)
      BY <3>1, <3>2 DEF IInv, TypeOK, GetUserByEmailFails, EmailFree, Goto
    <3>3. CASE ComparePassword(r)
      <4>1. row[r] = u
        BY <3>1, <3>3 DEF ComparePassword, IInv, PathOK, OneRowPerAddress
      <4>. QED
        BY <3>1, <3>3, <4>1 DEF IInv, TypeOK, ComparePassword, Goto
    <3>. QED
      BY <1>3, <3>2, <3>3 DEF IInv, TypeOK, Handle, HashPassword, CreateUser, CreateUserUnanswered,
                CreateUserFails, GetUserByEmail, GenerateToken, Grant, Goto
  <2>. QED
    BY <1>1, <2>1, <2>2 DEF IInv, TypeOK, ExpectedOK, HandlerFrame, Requests
<1>. QED
  BY <1>2, <1>3

LEMMA HandlerStep ==
    ASSUME IInv, NEW r \in Requests, Arrive(r) \/ Handle(r)
    PROVE  IInv'
<1>1. TypeOK'
  <2>1. CASE CreateUser(r) \/ CreateUserUnanswered(r) \/ CreateUserFails(r)
    <3>1. r \in Registrations
      BY <2>1 DEF IInv, PathOK, CreateUser, CreateUserUnanswered, CreateUserFails
    <3>. QED
      BY <2>1, <3>1, TypeRegister DEF IInv
  <2>2. CASE ComparePassword(r)
    <3>1. row[r] \in Rows
      BY <2>2 DEF IInv, TypeOK, PathOK, ComparePassword
    <3>. QED
      BY <2>2, <3>1, TypeToken DEF IInv
  <2>3. CASE GenerateToken(r)
    <3>1. userId[r] \in Nat /\ secret \in Secrets
      BY <2>3 DEF IInv, KnownOK, Identified, InsideOK, GenerateToken, HandlersRun
    <3>. QED
      BY <2>3, <3>1, TypeToken DEF IInv
  <2>. QED
    BY <2>1, <2>2, <2>3, TypeLogin DEF IInv, Handle
<1>. QED
  BY <1>1, HandlerKeepsRows, HandlerKeepsRequests, HandlerKeepsCalls, HandlerKeepsExpected DEF IInv

-----------------------------------------------------------------------------
(* Steps of AuthMiddleware and of the clients *)

LEMMA TokenOfHeld ==
    ASSUME IInv, NEW c \in Calls, TokenOf(c) # None
    PROVE  TokenOf(c) \in Held
BY DEF IInv, CarriedOK, TokenOf

LEMMA HeldFacts ==
    ASSUME IInv, NEW t \in Held
    PROVE  /\ t \in Tokens
           /\ t.iat <= now
           /\ t.exp = t.iat + TokenLife
BY DEF IInv, Held, TokenOK, Signed

LEMMA CallStep ==
    ASSUME IInv, NEW c \in Calls, SendCall(c) \/ Serve(c)
    PROVE  IInv'
<1>1. TypeOK'
  BY TypeCall DEF IInv
<1>2. /\ UNCHANGED <<now, requestVars, tableVars, processVars>>
      /\ HandlersRun
      /\ call[c] \in {"idle", "arrived", "serving"}
      /\ call'[c] \in {"arrived", "serving", "served", "unauthorized"}
      /\ \A d \in Calls : d # c => /\ call'[d] = call[d] /\ cookie'[d] = cookie[d] /\ header'[d] = header[d]
                                   /\ callUser'[d] = callUser[d] /\ checkedAt'[d] = checkedAt[d]
  BY DEF IInv, TypeOK, SendCall, Serve, AuthMiddleware, FinishCall, HandlersRun
<1>3. Held' = Held
  BY <1>2 DEF Held, requestVars
<1>4. RowsOK' /\ OneRowPerAddress' /\ PathOK' /\ ExpectedOK'
  BY <1>2 DEF IInv, RowsOK, OneRowPerAddress, PathOK, ExpectedOK, requestVars, tableVars
<1>5. KnownOK' /\ TokenOK'
  BY <1>2 DEF IInv, KnownOK, TokenOK, Identified, Signed, RowOf, requestVars, tableVars
<1>6. CarriedOK'
  BY <1>2, <1>3 DEF IInv, TypeOK, CarriedOK, SendCall, Serve, AuthMiddleware, FinishCall
<1>7. InsideOK' /\ CleanOK'
  <2>1. InsideOK'
    BY <1>2 DEF IInv, InsideOK, HandlersRun, InHandler, InCall, requestVars, processVars
  <2>2. CleanOK'
    <3>1. web \in {"closing", "closed"} => InCall(c)
      BY DEF SendCall, Serve, AuthMiddleware, FinishCall, InCall
    <3>. QED
      BY <1>2, <3>1 DEF IInv, CleanOK, NobodyInside, InHandler, InCall, requestVars, processVars
  <2>. QED
    BY <2>1, <2>2
<1>8. ServedOK'
  <2>. SUFFICES ASSUME NEW d \in Calls, call'[d] \in {"serving", "served"}
                PROVE  /\ TokenOf(d)' \in Held
                       /\ callUser'[d] = TokenOf(d)'.user
                       /\ TokenOf(d)'.iat <= checkedAt'[d]
                       /\ checkedAt'[d] < TokenOf(d)'.exp
                       /\ call'[d] = "serving" => TokenOf(d)'.secret = secret'
    BY <1>3 DEF ServedOK
  <2>1. CASE d # c
    <3>1. TokenOf(d)' = TokenOf(d)
      BY <1>2, <2>1 DEF TokenOf
    <3>. QED
      BY <1>2, <2>1, <3>1 DEF IInv, ServedOK, processVars
  <2>2. CASE d = c
    <3>1. TokenOf(c)' = TokenOf(c)
      BY <2>2 DEF IInv, TypeOK, TokenOf, SendCall, Serve, AuthMiddleware, FinishCall
    <3>2. CASE AuthMiddleware(c)
      <4>1. ValidToken(TokenOf(c)) /\ callUser'[c] = TokenOf(c).user /\ checkedAt'[c] = now
        BY <2>2, <3>2 DEF IInv, TypeOK, AuthMiddleware
      <4>2. TokenOf(c) \in Held /\ TokenOf(c).iat <= now
        BY <4>1, TokenOfHeld, HeldFacts DEF ValidToken
      <4>. QED
        BY <1>2, <2>2, <3>1, <4>1, <4>2 DEF ValidToken, processVars
    <3>3. CASE FinishCall(c)
      BY <1>2, <2>2, <3>1, <3>3 DEF IInv, TypeOK, ServedOK, FinishCall
    <3>4. CASE SendCall(c)
      BY <2>2, <3>4 DEF IInv, TypeOK, SendCall
    <3>. QED
      BY <3>2, <3>3, <3>4 DEF Serve
  <2>. QED
    BY <2>1, <2>2
<1>. QED
  BY <1>1, <1>4, <1>5, <1>6, <1>7, <1>8 DEF IInv

LEMMA IInvStep == IInv /\ [Next]_vars => IInv'
<1>. SUFFICES ASSUME IInv, [Next]_vars PROVE IInv'
  OBVIOUS
<1>1. CASE UNCHANGED vars
  <2>. USE <1>1 DEF IInv, vars, requestVars, tableVars, callVars, processVars
  <2>1. TypeOK' /\ RowsOK' /\ OneRowPerAddress' /\ PathOK' /\ ExpectedOK'
    BY DEF TypeOK, RowsOK, OneRowPerAddress, PathOK, ExpectedOK
  <2>2. KnownOK' /\ TokenOK'
    BY DEF KnownOK, TokenOK, Identified, Signed, RowOf
  <2>3. CarriedOK' /\ ServedOK'
    BY DEF CarriedOK, ServedOK, Held, TokenOf
  <2>4. InsideOK' /\ CleanOK'
    BY DEF InsideOK, CleanOK, InHandler, InCall, HandlersRun, NobodyInside
  <2>. QED
    BY <2>1, <2>2, <2>3, <2>4
<1>. QED
  BY <1>1, ProcessStep, HandlerStep, CallStep DEF Next

LEMMA IInvCorrect == Spec => []IInv
BY IInvInit, IInvStep, PTL DEF Spec

-----------------------------------------------------------------------------
(* The properties *)

\* Every variable keeps its type: no token without a user id or signed without a secret.
THEOREM TypeCorrect == Spec => []TypeOK
<1>1. IInv => TypeOK
  BY DEF IInv
<1>. QED
  BY <1>1, IInvCorrect, PTL

\* An address and an id belong to one row of users.
THEOREM OneRowPerAddressCorrect == Spec => []OneRowPerAddress
<1>1. IInv => OneRowPerAddress
  BY DEF IInv
<1>. QED
  BY <1>1, IInvCorrect, PTL

\* Of any number of registrations of an address at most one has a 201.
THEOREM OneWinnerCorrect == Spec => []OneWinner
<1>1. IInv => OneWinner
  BY DEF IInv, OneWinner, OneRowPerAddress, KnownOK, Identified, RowOf, Requests
<1>. QED
  BY <1>1, IInvCorrect, PTL

\* Every token that was answered is that of the account the password belongs to.
THEOREM GrantedToOwnerCorrect == Spec => []GrantedToOwner
<1>1. IInv => GrantedToOwner
  BY DEF IInv, GrantedToOwner, Owns, KnownOK, TokenOK, Identified, Signed, RowOf
<1>. QED
  BY <1>1, IInvCorrect, PTL

\* After the 201 no login with the password is refused for its credentials.
THEOREM RegisteredCanLogInCorrect == Spec => []RegisteredCanLogIn
<1>1. IInv => RegisteredCanLogIn
  BY DEF IInv, RegisteredCanLogIn, ExpectedOK
<1>. QED
  BY <1>1, IInvCorrect, PTL

\* A call runs as the owner of a password that was given, with a token in time and
\* of the secret in force.
THEOREM ServedAsOwnerCorrect == Spec => []ServedAsOwner
<1>1. ASSUME IInv PROVE ServedAsOwner
  <2>. SUFFICES ASSUME NEW c \in Calls, call[c] \in {"serving", "served"}
                PROVE  \E r \in Requests :
                          /\ token[r] = TokenOf(c)
                          /\ step[r] = "granted"
                          /\ Owns(r, callUser[c])
                          /\ token[r].iat <= checkedAt[c]
                          /\ checkedAt[c] < token[r].iat + TokenLife
                          /\ call[c] = "serving" => token[r].secret = secret
    BY DEF ServedAsOwner
  <2>1. PICK r \in Requests : token[r] = TokenOf(c) /\ step[r] = "granted"
    BY <1>1 DEF IInv, ServedOK, Held
  <2>2. Owns(r, token[r].user) /\ token[r].exp = token[r].iat + TokenLife
    BY <1>1, <2>1 DEF IInv, Owns, KnownOK, TokenOK, Identified, Signed, RowOf
  <2>. QED
    BY <1>1, <2>1, <2>2 DEF IInv, ServedOK
<1>. QED
  BY <1>1, IInvCorrect, PTL

\* A shutdown that keeps its time cuts no request off, nor from the database.
THEOREM CleanShutdownCorrect == Spec => []CleanShutdown
<1>1. IInv => CleanShutdown
  BY DEF IInv, CleanShutdown, CleanOK, InsideOK, NobodyInside, HandlersRun, DatabaseOpen
<1>. QED
  BY <1>1, IInvCorrect, PTL

-----------------------------------------------------------------------------
(* Refinement *)

Granted == {r \in Requests : step[r] = "granted"}
Over == {r \in Requests : step[r] \in {"granted", "rejected", "refused", "misjudged", "failed", "cut"}}

\* A step that enters and grants nothing, but may end requests.
LEMMA TurnsAway ==
    ASSUME NEW R, R \subseteq Requests, R \cap Over = {}, Over' = Over \cup R,
           Granted' = Granted, users' = users
    PROVE  Book!Next
<1>1. Book!TurnAway(R)
  BY DEF Book!TurnAway, Granted, Over, Entries
<1>2. R \in SUBSET (Registrations \cup Logins)
  BY DEF Requests
<1>. QED
  BY <1>1, <1>2 DEF Book!Next

LEMMA StepEnters ==
    ASSUME IInv, NEW r \in Requests, CreateUser(r) \/ CreateUserUnanswered(r)
    PROVE  Book!Next
<1>1. /\ r \in Registrations /\ EmailFree(r) /\ step[r] = "hashed"
      /\ users' = users \cup {NewRow(r)}
      /\ step'[r] \in {"identified", "failed"}
      /\ \A s \in Requests : s # r => step'[s] = step[s]
  BY DEF IInv, TypeOK, PathOK, CreateUser, CreateUserUnanswered, Goto
<1>2. Entries' = Entries \cup {Book!Entry(r)}
  <2>. DEFINE E(u) == [email |-> u.email, password |-> u.password, by |-> u.by]
  <2>1. E(NewRow(r)) = Book!Entry(r)
    BY DEF NewRow, Book!Entry
  <2>2. Entries = {E(u) : u \in users} /\ Entries' = {E(u) : u \in users'}
    BY DEF Entries
  <2>. HIDE DEF E
  <2>3. {E(u) : u \in users \cup {NewRow(r)}} = {E(u) : u \in users} \cup {E(NewRow(r))}
    OBVIOUS
  <2>. QED
    BY <1>1, <2>1, <2>2, <2>3
<1>3. \A e \in Entries : e.email # Email[r]
  BY <1>1 DEF Entries, EmailFree
<1>4. Granted' = Granted /\ r \notin Over /\ Over' \in {Over, Over \cup {r}}
  <2>1. CASE step'[r] = "identified"
    BY <1>1, <2>1 DEF Granted, Over
  <2>2. CASE step'[r] = "failed"
    BY <1>1, <2>2 DEF Granted, Over
  <2>. QED
    BY <1>1, <2>1, <2>2
<1>5. Book!Enter(r)
  BY <1>2, <1>3, <1>4 DEF Book!Enter, Granted, Over
<1>. QED
  BY <1>1, <1>5 DEF Book!Next

LEMMA StepGrants ==
    ASSUME IInv, NEW r \in Requests, Grant(r)
    PROVE  Book!Next
<1>1. /\ step[r] = "signed" /\ step'[r] = "granted" /\ users' = users
      /\ \A s \in Requests : s # r => step'[s] = step[s]
  BY DEF IInv, TypeOK, Grant, Goto, tableVars
<1>2. Granted' = Granted \cup {r} /\ Over' = Over \cup {r} /\ r \notin Over /\ Entries' = Entries
  BY <1>1 DEF Granted, Over, Entries
<1>3. PICK u \in users : RowOf(r, u)
  BY <1>1 DEF IInv, KnownOK, Identified
<1>4. Book!Entitled(r)
  <2>1. [email |-> u.email, password |-> u.password, by |-> u.by] \in Entries
    BY DEF Entries
  <2>2. CASE r \in Registrations
    BY <1>3, <2>1, <2>2 DEF RowOf, Book!Entitled, Book!Entry
  <2>3. CASE r \in Logins
    BY <1>3, <2>1, <2>3 DEF RowOf, Book!Entitled
  <2>. QED
    BY <2>2, <2>3 DEF Requests
<1>5. Book!Grant(r)
  BY <1>2, <1>4 DEF Book!Grant, Granted, Over
<1>. QED
  BY <1>5 DEF Book!Next, Requests

\* Any other step of a handler ends its request or nothing.
LEMMA StepOfHandler ==
    ASSUME IInv, NEW r \in Requests, Arrive(r) \/ Handle(r)
    PROVE  Book!Next \/ UNCHANGED Book!vars
<1>1. CASE CreateUser(r) \/ CreateUserUnanswered(r)
  BY <1>1, StepEnters
<1>2. CASE Grant(r)
  BY <1>2, StepGrants
<1>3. CASE \/ Arrive(r) \/ HashPassword(r) \/ CreateUserFails(r) \/ GetUserByEmail(r)
           \/ GetUserByEmailFails(r) \/ ComparePassword(r) \/ GenerateToken(r)
  <2>1. /\ users' = users
        /\ step[r] \in {"idle", "decoded", "hashed", "found", "identified"}
        /\ step'[r] \in {"decoded", "hashed", "found", "identified", "signed",
                         "rejected", "refused", "misjudged", "failed"}
        /\ \A s \in Requests : s # r => step'[s] = step[s]
    BY <1>3 DEF IInv, TypeOK, Arrive, HashPassword, CreateUserFails, GetUserByEmail,
                GetUserByEmailFails, ComparePassword, GenerateToken, Goto, tableVars
  <2>2. Granted' = Granted /\ Entries' = Entries /\ r \notin Over
    BY <2>1 DEF Granted, Entries, Over
  <2>3. CASE step'[r] \in {"rejected", "refused", "misjudged", "failed"}
    <3>1. Over' = Over \cup {r}
      BY <2>1, <2>3 DEF Over
    <3>2. {r} \subseteq Requests /\ {r} \cap Over = {}
      BY <2>2
    <3>. QED
      BY <2>1, <2>2, <3>1, <3>2, TurnsAway
  <2>4. CASE step'[r] \notin {"rejected", "refused", "misjudged", "failed"}
    <3>1. Over' = Over
      BY <2>1, <2>4 DEF Over
    <3>. QED
      BY <2>2, <3>1 DEF Book!vars, Granted, Over
  <2>. QED
    BY <2>3, <2>4
<1>. QED
  BY <1>1, <1>2, <1>3 DEF Handle

LEMMA StepOfProcess ==
    ASSUME IInv, Exit \/ Crash
    PROVE  Book!Next
<1>. DEFINE R == {r \in Requests : InHandler(r)}
<1>1. /\ \A r \in Requests : step'[r] = IF InHandler(r) THEN "cut" ELSE step[r]
      /\ users' = users
  BY DEF Exit, Crash, ProcessEnds, tableVars
<1>2. R \subseteq Requests /\ R \cap Over = {} /\ Granted' = Granted
  BY <1>1 DEF InHandler, Over, Granted
<1>3. Over' = Over \cup R
  BY <1>1 DEF InHandler, Over
<1>. QED
  BY <1>1, <1>2, <1>3, TurnsAway

LEMMA BookStep == IInv /\ [Next]_vars => [Book!Next]_(Book!vars)
<1>. SUFFICES ASSUME IInv, [Next]_vars PROVE Book!Next \/ UNCHANGED Book!vars
  OBVIOUS
<1>1. ASSUME NEW r \in Requests, Arrive(r) \/ Handle(r)
      PROVE  Book!Next \/ UNCHANGED Book!vars
  BY <1>1, StepOfHandler
<1>2. ASSUME users' = users, step' = step
      PROVE  UNCHANGED Book!vars
  BY <1>2 DEF Book!vars, Entries
<1>3. ASSUME NEW c \in Calls, SendCall(c) \/ Serve(c)
      PROVE  users' = users /\ step' = step
  BY <1>3 DEF SendCall, Serve, AuthMiddleware, FinishCall, requestVars, tableVars
<1>4. CASE Process
  <2>1. CASE Exit \/ Crash
    BY <2>1, StepOfProcess
  <2>2. CASE ~(Exit \/ Crash)
    BY <1>2, <1>4, <2>2 DEF Process, InitJWTSecret, Listen, StartFails, BeginShutdown,
         ShutdownReturns, RunFails, CloseDB, requestVars, tableVars
  <2>. QED
    BY <2>1, <2>2
<1>5. CASE Tick \/ UNCHANGED vars
  BY <1>2, <1>5 DEF Tick, vars, requestVars, tableVars
<1>. QED
  BY <1>1, <1>2, <1>3, <1>4, <1>5 DEF Next

\* Registration and login, with races, lost answers, crashes and restarts, keep
\* the abstract book of accounts.
THEOREM ImplementsBookCorrect == Spec => ImplementsBook
<1>1. Init => Book!Init
  BY DEF Init, Book!Init, Entries
<1>. QED
  BY <1>1, BookStep, IInvCorrect, PTL DEF Spec, ImplementsBook, Book!Spec

-----------------------------------------------------------------------------
(* What the book promises, its own steps guarantee *)

\* An address has one entry, made by a registration for it; who was granted is entitled.
BookKept ==
    /\ \A e \in Entries : e.by \in Registrations /\ e = Book!Entry(e.by)
    /\ \A d, e \in Entries : d.email = e.email => d = e
    /\ \A r \in Granted : Book!Entitled(r)

LEMMA BookKeptInit == Book!Init => BookKept
BY DEF Book!Init, BookKept, Granted

\* Every step keeps all entries, so nobody's entitlement ends.
LEMMA BookKeptStep ==
    ASSUME BookKept, [Book!Next]_(Book!vars)
    PROVE  BookKept' /\ Entries \subseteq Entries'
<1>1. ASSUME Entries \subseteq Entries', NEW r, Book!Entitled(r)
      PROVE  Book!Entitled(r)'
  BY <1>1 DEF Book!Entitled, Book!Entry
<1>2. ASSUME NEW r \in Registrations, Book!Enter(r)
      PROVE  BookKept' /\ Entries \subseteq Entries'
  <2>1. /\ Entries' = Entries \cup {Book!Entry(r)} /\ Granted' = Granted
        /\ \A e \in Entries : e.email # Email[r]
    BY <1>2 DEF Book!Enter, Granted
  <2>2. Book!Entry(r).by = r /\ Book!Entry(r).email = Email[r]
    BY DEF Book!Entry
  <2>3. \A e \in Entries' : e.by \in Registrations /\ e = Book!Entry(e.by)
    BY <2>1, <2>2 DEF BookKept
  <2>4. \A d, e \in Entries' : d.email = e.email => d = e
    BY <2>1, <2>2 DEF BookKept
  <2>. QED
    BY <1>1, <2>1, <2>3, <2>4 DEF BookKept, Book!Entry
<1>3. ASSUME NEW r, Book!Grant(r)
      PROVE  BookKept' /\ Entries \subseteq Entries'
  <2>1. Entries' = Entries /\ Granted' = Granted \cup {r} /\ Book!Entitled(r)
    BY <1>3 DEF Book!Grant, Granted
  <2>. QED
    BY <1>1, <2>1 DEF BookKept, Book!Entry
<1>4. ASSUME Entries' = Entries, Granted' = Granted
      PROVE  BookKept' /\ Entries \subseteq Entries'
  BY <1>1, <1>4 DEF BookKept, Book!Entry
<1>5. ASSUME NEW R, Book!TurnAway(R)
      PROVE  Entries' = Entries /\ Granted' = Granted
  BY <1>5 DEF Book!TurnAway, Granted
<1>6. CASE UNCHANGED Book!vars
  BY <1>4, <1>6 DEF Book!vars, Granted
<1>. QED
  BY <1>2, <1>3, <1>4, <1>5, <1>6 DEF Book!Next

\* Whatever implements AccountBook gives an address to one registration for good and
\* grants nobody else: the promise needs nothing of the handlers below it.
THEOREM BookPromiseCorrect ==
    Book!Spec => []BookKept /\ [][Entries \subseteq Entries']_(Book!vars)
<1>1. BookKept /\ [Book!Next]_(Book!vars) => BookKept' /\ Entries \subseteq Entries'
  BY BookKeptStep
<1>. QED
  BY <1>1, BookKeptInit, PTL DEF Book!Spec

\* No account is lost or altered by a race, a lost answer, a shutdown or a crash: the
\* code has no UPDATE and no DELETE, and CreateUser (database.go:255) never replaces.
AccountsStay == [][Entries \subseteq Entries']_vars

\* Accounts inherits it from the book, through the refinement.
THEOREM AccountsStayCorrect == Spec => AccountsStay
<1>1. UNCHANGED vars => UNCHANGED Book!vars
  BY DEF vars, requestVars, tableVars, Book!vars, Entries
<1>2. UNCHANGED Book!vars => Entries \subseteq Entries'
  BY DEF Book!vars
<1>. QED
  BY <1>1, <1>2, BookPromiseCorrect, ImplementsBookCorrect, PTL DEF AccountsStay, ImplementsBook
=============================================================================
