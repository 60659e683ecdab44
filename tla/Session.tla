-------------------------------- MODULE Session --------------------------------
(***************************************************************************)
(* The browser's session: the cookies that setAuthCookies sets             *)
(* (web-server/handlers.go), the client of the API (api.js), App.jsx and   *)
(* the pages it shows, in several tabs that share the cookies.             *)
(*                                                                         *)
(* App reads the session cookie once, when a tab is loaded; api.js reads   *)
(* it before every solve and history call; logging out deletes it and      *)
(* leaves the httpOnly token.  Answers arrive in any order and after       *)
(* logouts, other logins and page changes.  React is external: a page that *)
(* is replaced loses its state, and what a call of it sets later is void.  *)
(***************************************************************************)
EXTENDS Integers, FiniteSets

CONSTANTS Tabs, Users, Problems, None,
          Accounts,  \* whose address and password are typed in each tab
          TokenLife, \* GenerateToken: 24 hours
          MaxAge,    \* of both cookies, 86400 seconds
          MaxTime,   \* bound on the clock
          MaxCalls   \* bound on the calls of each tab

ASSUME SessionAssumption == /\ {TokenLife, MaxAge} \subseteq Nat
                            /\ MaxTime \in Nat /\ MaxCalls \in [Tabs -> Nat]
                            /\ Accounts \in [Tabs -> SUBSET Users]
                            /\ None \notin Users \cup Problems \cup [user : Users, exp : Nat]

VARIABLES
    now,           \* the clock of browser and server
    token,         \* the authToken cookie
    tokenUntil,    \* when it expires
    activeUntil,   \* when the sessionActive cookie expires
    authenticated, \* App's state in each tab
    currentPage,   \* App's state in each tab
    view,          \* the state of the page that each tab shows
    flight,        \* the calls whose await is not over
    sent,          \* how many each tab has made
    last,          \* ghost: what was last submitted on the solver page of each tab
    held,          \* ghost: whose session there was since a tab was loaded or logged out
    loggedOut      \* ghost: nobody has logged in since somebody logged out

jarVars == <<token, tokenUntil, activeUntil>>
appVars == <<authenticated, currentPage>>
ghostVars == <<held, loggedOut>>
vars == <<now, jarVars, appVars, view, flight, sent, last, ghostVars>>

Token == [user : Users, exp : Nat]
Forms == {"login", "register"}
Pages == Forms \cup {"solve", "history"}
View == [answer : Problems \cup {None}, history : Users \cup {None},
         loading : BOOLEAN, error : BOOLEAN]
\* data is first the user or the problem that is submitted, then what a good answer
\* brings: a token, the problem that was solved, or whose items are listed.
Call == [id : Nat, tab : Tabs, kind : {"form", "solve", "history"}, mounted : BOOLEAN,
         stage : {"sent", "answered", "arrived", "failed"},
         token : Token \cup {None}, data : Token \cup Users \cup Problems \cup {None}]

TypeOK ==
    /\ now \in 0..MaxTime
    /\ token \in Token \cup {None}
    /\ tokenUntil \in Nat
    /\ activeUntil \in Nat
    /\ authenticated \in [Tabs -> BOOLEAN]
    /\ currentPage \in [Tabs -> Pages]
    /\ \A t \in Tabs : authenticated[t] <=> currentPage[t] \notin Forms
    /\ view \in [Tabs -> View]
    /\ flight \subseteq Call
    /\ sent \in [Tabs -> Nat]
    /\ \A t \in Tabs : sent[t] <= MaxCalls[t]
    /\ \A c \in flight : c.id <= sent[c.tab]
    /\ \A c, d \in flight : c.tab = d.tab /\ c.id = d.id => c = d
    /\ last \in [Tabs -> Problems \cup {None}]
    /\ held \in [Tabs -> SUBSET Users]
    /\ loggedOut \in BOOLEAN

Blank == [answer |-> None, history |-> None, loading |-> FALSE, error |-> FALSE]

Init ==
    /\ now = 0
    /\ token = None
    /\ tokenUntil = 0
    /\ activeUntil = 0
    /\ authenticated = [t \in Tabs |-> FALSE]
    /\ currentPage = [t \in Tabs |-> "login"]
    /\ view = [t \in Tabs |-> Blank]
    /\ flight = {}
    /\ sent = [t \in Tabs |-> 0]
    /\ last = [t \in Tabs |-> None]
    /\ held = [t \in Tabs |-> {}]
    /\ loggedOut = FALSE

Tick ==
    /\ now < MaxTime
    /\ now' = now + 1
    /\ UNCHANGED <<jarVars, appVars, view, flight, sent, last, ghostVars>>

-----------------------------------------------------------------------------
(* Cookies and calls: api.js *)

IsAuthenticated == now < activeUntil

\* What the browser sends as authToken, with credentials: 'include'.
CookieSent == IF now < tokenUntil THEN token ELSE None

NewCall(t, k, s) ==
    [id |-> sent[t] + 1, tab |-> t, kind |-> k, mounted |-> TRUE, stage |-> "sent",
     token |-> CookieSent, data |-> s]

\* A call is put into flight besides the others.
Send(t, k, s, others) ==
    /\ sent[t] < MaxCalls[t]
    /\ sent' = [sent EXCEPT ![t] = @ + 1]
    /\ flight' = others \cup {NewCall(t, k, s)}

\* setState calls for the page of a tab; void when another page is there by now.
SetView(t, v) == view' = [view EXCEPT ![t] = v]

-----------------------------------------------------------------------------
(* The pages: App.jsx *)

\* The page of a tab is left: nobody waits for a solve or a history call of it any more,
\* and of a form's call only what it does to App remains.
Unmounted(t, calls) ==
    {c \in calls : c.tab # t}
        \cup {[c EXCEPT !.mounted = FALSE] : c \in {d \in calls : d.tab = t /\ d.kind = "form"}}

\* setAuthenticated and setCurrentPage; a page that is shown already stays as it is.
Show(t, auth, page, calls) ==
    /\ authenticated' = [authenticated EXCEPT ![t] = auth]
    /\ currentPage' = [currentPage EXCEPT ![t] = page]
    /\ \/ /\ page = currentPage[t]
          /\ flight' = calls
          /\ UNCHANGED <<view, last>>
       \/ /\ page # currentPage[t]
          /\ flight' = Unmounted(t, calls)
          /\ SetView(t, Blank)
          /\ last' = [last EXCEPT ![t] = None]

\* LOGIN, REGISTER and SOLVER.
ClickForm(t) ==
    /\ ~authenticated[t]
    /\ \E page \in Forms \ {currentPage[t]} : Show(t, FALSE, page, flight)
    /\ UNCHANGED <<now, jarVars, sent, ghostVars>>

ClickSolver(t) ==
    /\ currentPage[t] = "history"
    /\ Show(t, TRUE, "solve", flight)
    /\ UNCHANGED <<now, jarVars, sent, ghostVars>>

\* getHistory of a page that is v: a call, or 'Not authenticated' at once.
FetchHistory(t, v, others) ==
    \/ /\ IsAuthenticated
       /\ Send(t, "history", None, others)
       /\ SetView(t, [v EXCEPT !.loading = TRUE])
    \/ /\ ~IsAuthenticated
       /\ flight' = others
       /\ SetView(t, [v EXCEPT !.error = TRUE])
       /\ UNCHANGED sent

\* HISTORY: the page fetches as soon as it is mounted.
ClickHistory(t) ==
    /\ currentPage[t] = "solve"
    /\ currentPage' = [currentPage EXCEPT ![t] = "history"]
    /\ last' = [last EXCEPT ![t] = None]
    /\ FetchHistory(t, Blank, Unmounted(t, flight))
    /\ UNCHANGED <<now, jarVars, authenticated, ghostVars>>

\* Mutated: App's state is not reset.
HandleLogoutStays(t) ==
    /\ authenticated[t]
    /\ activeUntil' = 0
    /\ held' = [held EXCEPT ![t] = {}]
    /\ loggedOut' = TRUE
    /\ UNCHANGED <<now, token, tokenUntil, appVars, view, flight, sent, last>>

\* Mutated: the page is left as it is.
HandleLogoutKeepsPage(t) ==
    /\ authenticated[t]
    /\ activeUntil' = 0
    /\ Show(t, FALSE, currentPage[t], flight)
    /\ held' = [held EXCEPT ![t] = {}]
    /\ loggedOut' = TRUE
    /\ UNCHANGED <<now, token, tokenUntil, sent>>

\* Mutated: clearToken() is forgotten.
HandleLogoutKeepsCookie(t) ==
    /\ authenticated[t]
    /\ Show(t, FALSE, "login", flight)
    /\ held' = [held EXCEPT ![t] = {}]
    /\ loggedOut' = TRUE
    /\ UNCHANGED <<now, jarVars, sent>>

\* LOGOUT: clearToken() deletes the one cookie that JavaScript sees.
HandleLogout(t) ==
    /\ authenticated[t]
    /\ activeUntil' = 0
    /\ Show(t, FALSE, "login", flight)
    /\ held' = [held EXCEPT ![t] = {}]
    /\ loggedOut' = TRUE
    /\ UNCHANGED <<now, token, tokenUntil, sent>>

\* The tab is loaded again: its calls are aborted, the effect of App reads the cookie.
Reload(t) ==
    /\ authenticated' = [authenticated EXCEPT ![t] = IsAuthenticated]
    /\ currentPage' = [currentPage EXCEPT ![t] = IF IsAuthenticated THEN "solve" ELSE "login"]
    /\ flight' = {c \in flight : c.tab # t}
    /\ SetView(t, Blank)
    /\ last' = [last EXCEPT ![t] = None]
    /\ held' = [held EXCEPT ![t] = IF IsAuthenticated THEN {token.user} ELSE {}]
    /\ UNCHANGED <<now, jarVars, sent, loggedOut>>

-----------------------------------------------------------------------------
(* Submitting: LoginPage, RegisterPage, SolverPage, HistoryPage *)

\* handleSubmit of both forms; nothing keeps a user from clicking again.
HandleSubmit(t) ==
    /\ currentPage[t] \in Forms
    /\ \/ /\ SetView(t, Blank)
          /\ \E u \in Accounts[t] : Send(t, "form", u, flight)
       \/ /\ SetView(t, [Blank EXCEPT !.error = TRUE])
          /\ UNCHANGED <<sent, flight>>
    /\ UNCHANGED <<now, jarVars, appVars, last, ghostVars>>

\* Mutated: the button stays enabled while a problem is being solved.
SolveEnabledAlways(t) == currentPage[t] = "solve"

SolveEnabled(t) == currentPage[t] = "solve" /\ ~view[t].loading

\* handleSolve: the problem is refused, sent, or there is no session.
HandleSolve(t) ==
    /\ SolveEnabled(t)
    /\ \/ /\ SetView(t, [Blank EXCEPT !.error = TRUE])
          /\ last' = [last EXCEPT ![t] = None]
          /\ UNCHANGED <<sent, flight>>
       \/ \E p \in Problems :
             /\ last' = [last EXCEPT ![t] = p]
             /\ \/ /\ IsAuthenticated
                   /\ Send(t, "solve", p, flight)
                   /\ SetView(t, [Blank EXCEPT !.loading = TRUE])
                \/ /\ ~IsAuthenticated
                   /\ SetView(t, [Blank EXCEPT !.error = TRUE])
                   /\ UNCHANGED <<sent, flight>>
    /\ UNCHANGED <<now, jarVars, appVars, ghostVars>>

\* REFRESH is there when items are.
Refresh(t) ==
    /\ currentPage[t] = "history"
    /\ ~view[t].loading
    /\ view[t].history # None
    /\ FetchHistory(t, view[t], flight)
    /\ UNCHANGED <<now, jarVars, appVars, last, ghostVars>>

-----------------------------------------------------------------------------
(* Answers *)

Move(c, s, d) ==
    flight' = (flight \ {c}) \cup {[c EXCEPT !.stage = s, !.token = None, !.data = d]}

\* The web-server grants a token, or AuthMiddleware finds one that is valid.
Answer(c) ==
    /\ c.stage = "sent"
    /\ \/ /\ c.kind = "form"
          /\ Move(c, "answered", [user |-> c.data, exp |-> now + TokenLife])
       \/ /\ c.token # None /\ now < c.token.exp
          /\ \/ c.kind = "solve" /\ Move(c, "answered", c.data)
             \/ c.kind = "history" /\ \E o \in {c.token.user, None} : Move(c, "answered", o)
    /\ UNCHANGED <<now, jarVars, appVars, view, sent, last, ghostVars>>

\* A status that is not ok, for whatever reason, no answer at all, or a body that
\* breaks off when the cookies have been set already.
Fail(c) ==
    /\ c.stage # "failed"
    /\ Move(c, "failed", None)
    /\ UNCHANGED <<now, jarVars, appVars, view, sent, last, ghostVars>>

\* Mutated: authToken lives as long as the token at the time of the answer.
SetAuthCookiesOfToken(g) ==
    /\ token' = g
    /\ tokenUntil' = g.exp
    /\ activeUntil' = now + MaxAge

\* setAuthCookies, as the browser obeys it.
SetAuthCookies(g) ==
    /\ token' = g
    /\ tokenUntil' = now + MaxAge
    /\ activeUntil' = now + MaxAge

\* The response is there; the code behind the await has not run yet.
Arrive(c) ==
    /\ c.stage = "answered"
    /\ Move(c, "arrived", c.data)
    /\ \/ /\ c.kind = "form"
          /\ SetAuthCookies(c.data)
          /\ held' = [t \in Tabs |-> held[t] \cup {c.data.user}]
          /\ loggedOut' = FALSE
       \/ /\ c.kind # "form"
          /\ UNCHANGED <<jarVars, ghostVars>>
    /\ UNCHANGED <<now, appVars, view, sent, last>>

\* onLoginSuccess() and onRegisterSuccess() reach App, whatever it shows by then.
HandleLoginSuccess(c) ==
    /\ c.stage = "arrived" /\ c.kind = "form"
    /\ Show(c.tab, TRUE, "solve", flight \ {c})
    /\ UNCHANGED <<now, jarVars, sent, ghostVars>>

\* The page as the code behind the await leaves it, for a good answer ...
ViewWith(v, c) ==
    IF c.kind = "solve" THEN [v EXCEPT !.answer = c.data, !.loading = FALSE]
    ELSE [v EXCEPT !.history = c.data, !.loading = FALSE]

\* Mutated: no finally.
ViewFailedNoFinally(v) == [v EXCEPT !.error = TRUE]

\* ... and for an error.
ViewFailed(v) == [v EXCEPT !.error = TRUE, !.loading = FALSE]

ShowAnswer(c) ==
    /\ c.stage = "arrived" /\ c.kind # "form"
    /\ IF c.mounted THEN SetView(c.tab, ViewWith(view[c.tab], c)) ELSE UNCHANGED view
    /\ flight' = flight \ {c}
    /\ UNCHANGED <<now, jarVars, appVars, sent, last, ghostVars>>

ShowError(c) ==
    /\ c.stage = "failed"
    /\ IF c.mounted THEN SetView(c.tab, ViewFailed(view[c.tab])) ELSE UNCHANGED view
    /\ flight' = flight \ {c}
    /\ UNCHANGED <<now, jarVars, appVars, sent, last, ghostVars>>

-----------------------------------------------------------------------------
Proceed(c) == \/ Answer(c) \/ Fail(c) \/ Arrive(c)
              \/ HandleLoginSuccess(c) \/ ShowAnswer(c) \/ ShowError(c)

Next == \/ Tick
        \/ \E t \in Tabs : \/ ClickForm(t) \/ ClickSolver(t) \/ ClickHistory(t)
                           \/ HandleLogout(t) \/ Reload(t)
                           \/ HandleSubmit(t) \/ HandleSolve(t) \/ Refresh(t)
        \/ \E c \in flight : Proceed(c)

Spec == Init /\ [][Next]_vars

\* A call is answered or fails, and the event loop runs what waits for it.  Nothing
\* makes a user click.
Fairness == WF_vars(\E c \in flight : Proceed(c))

FairSpec == Spec /\ Fairness

-----------------------------------------------------------------------------
(* Properties *)

\* The session cookie never outlives the token (handlers.go:425): every solve and
\* history call that isAuthenticated() lets pass carries one, also after logouts,
\* other logins and the expiry of cookies.
CallsCarryToken ==
    /\ IsAuthenticated => CookieSent # None
    /\ \A c \in flight : c.kind # "form" /\ c.stage = "sent" => c.token # None

\* An answer on the solver page (SolverPage.jsx:28) is that of the last problem
\* submitted there, whatever was in flight when the page was opened.
AnswerOfLast ==
    \A t \in Tabs : view[t].answer # None =>
        view[t].answer = last[t] /\ ~view[t].error /\ ~view[t].loading

\* The items on a history page (HistoryPage.jsx:23) are those of a user who had a session in
\* the browser since the tab was loaded or logged out, never those of one before that.
HistoryOfHolder ==
    \A t \in Tabs : view[t].history # None => view[t].history \in held[t]

\* After a logout in any tab (App.jsx:197) no tab sends a call for the user it
\* was, though the token is still there, until somebody logs in.
LogoutHolds ==
    [][loggedOut => \A c \in flight' : c.id > sent[c.tab] => c.kind = "form"]_vars

\* Whatever fails or is left behind, a page that is loading stops loading
\* (SolverPage.jsx:33, HistoryPage.jsx:26).
LoadingEnds == \A t \in Tabs : view[t].loading ~> ~view[t].loading
=============================================================================
