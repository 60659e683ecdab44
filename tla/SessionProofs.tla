----------------------------- MODULE SessionProofs -----------------------------
(***************************************************************************)
(* Proofs about Session for any number of tabs, users and calls and all    *)
(* lifetimes: which session what a tab shows and sends belongs to.         *)
(***************************************************************************)
EXTENDS Session, TLAPS

USE SessionAssumption

-----------------------------------------------------------------------------
(* The inductive invariant *)

\* The session cookie implies a token, of a user whom every tab has seen.
JarOK == /\ activeUntil <= tokenUntil
         /\ token = None => tokenUntil = 0
         /\ IsAuthenticated => ~loggedOut /\ \A t \in Tabs : token.user \in held[t]

\* What a page shows, and that the solver waits with neither an answer nor an error.
TabOK(t) ==
    /\ view[t].answer # None =>
          currentPage[t] = "solve" /\ view[t].answer = last[t] /\ ~view[t].error /\ ~view[t].loading
    /\ view[t].history # None => currentPage[t] = "history" /\ view[t].history \in held[t]
    /\ currentPage[t] = "solve" /\ view[t].loading => ~view[t].error

\* A page's call is the one that the page is waiting for.
OwnerOK(c) ==
    /\ c.kind # "form" => c.mounted /\ currentPage[c.tab] = c.kind /\ view[c.tab].loading
    /\ c.kind = "form" /\ c.mounted => currentPage[c.tab] \in Forms

\* What a call carries and brings.
DataOK(c) ==
    /\ c.kind = "form" /\ c.stage = "sent" => c.data \in Users
    /\ c.kind = "form" /\ c.stage \in {"answered", "arrived"} => c.data \in Token
    /\ c.kind # "form" /\ c.stage = "sent" => c.token \in Token
    /\ c.kind = "solve" /\ c.stage # "failed" => c.data \in Problems /\ c.data = last[c.tab]
    /\ c.kind = "history" /\ c.stage = "sent" => c.token.user \in held[c.tab]
    /\ c.kind = "history" /\ c.stage \in {"answered", "arrived"} =>
          c.data \in held[c.tab] \cup {None}

OnePageCall ==
    \A c, d \in flight : c.tab = d.tab /\ c.kind # "form" /\ d.kind # "form" => c = d

IInv == /\ TypeOK
        /\ JarOK
        /\ \A t \in Tabs : TabOK(t)
        /\ \A c \in flight : OwnerOK(c) /\ DataOK(c)
        /\ OnePageCall

LEMMA IInvInit == Init => IInv
<1>. SUFFICES ASSUME Init PROVE IInv
  OBVIOUS
<1>1. Blank \in View
  BY DEF Blank, View
<1>2. TypeOK
  <2>1. \A t \in Tabs : sent[t] = 0 /\ sent[t] <= MaxCalls[t]
    BY DEF Init
  <2>2. now \in 0..MaxTime
    BY DEF Init
  <2>3. view \in [Tabs -> View] /\ held \in [Tabs -> SUBSET Users]
    BY <1>1 DEF Init
  <2>4. /\ authenticated \in [Tabs -> BOOLEAN] /\ currentPage \in [Tabs -> Pages]
        /\ \A t \in Tabs : authenticated[t] <=> currentPage[t] \notin Forms
    BY DEF Init, Forms, Pages
  <2>. QED
    BY <2>1, <2>2, <2>3, <2>4 DEF Init, TypeOK
<1>3. JarOK /\ OnePageCall
  BY DEF Init, JarOK, OnePageCall, IsAuthenticated
<1>4. ASSUME NEW t \in Tabs PROVE TabOK(t)
  BY <1>4 DEF Init, TabOK, Blank
<1>. QED
  BY <1>2, <1>3, <1>4 DEF Init, IInv

-----------------------------------------------------------------------------
(* Types *)

\* A call that goes on keeps its tab, kind, number and page.
LEMMA MoveType ==
    ASSUME TypeOK, NEW c \in flight, NEW s \in {"sent", "answered", "arrived", "failed"},
           NEW d \in Token \cup Users \cup Problems \cup {None}, Move(c, s, d), UNCHANGED sent
    PROVE  \E e \in Call :
              /\ e.id = c.id /\ e.tab = c.tab /\ e.kind = c.kind /\ e.mounted = c.mounted
              /\ e.stage = s /\ e.token = None /\ e.data = d
              /\ flight' = (flight \ {c}) \cup {e}
              /\ flight' \subseteq Call
              /\ \A b \in flight' : b.id <= sent'[b.tab]
              /\ \A b, f \in flight' : b.tab = f.tab /\ b.id = f.id => b = f
<1>. DEFINE e == [c EXCEPT !.stage = s, !.token = None, !.data = d]
<1>1. c \in Call /\ flight \subseteq Call
  BY DEF TypeOK
<1>2. /\ e \in Call /\ e.id = c.id /\ e.tab = c.tab /\ e.kind = c.kind /\ e.mounted = c.mounted
      /\ e.stage = s /\ e.token = None /\ e.data = d
  BY <1>1 DEF Call
<1>3. flight' = (flight \ {c}) \cup {e}
  BY DEF Move
<1>. HIDE DEF e
<1>4. \A b \in flight' : b.id <= sent'[b.tab]
  BY <1>2, <1>3 DEF TypeOK
<1>5. \A b, f \in flight' : b.tab = f.tab /\ b.id = f.id => b = f
  BY <1>2, <1>3 DEF TypeOK
<1>. QED
  BY <1>1, <1>2, <1>3, <1>4, <1>5

\* A call that is sent has a number of its own.
LEMMA SendType ==
    ASSUME TypeOK, NEW t \in Tabs, NEW k \in {"form", "solve", "history"},
           NEW d \in Users \cup Problems \cup {None}, NEW others \in SUBSET Call,
           \A b \in others : b.id <= sent[b.tab],
           \A b, f \in others : b.tab = f.tab /\ b.id = f.id => b = f,
           Send(t, k, d, others)
    PROVE  \E e \in Call :
              /\ e.tab = t /\ e.kind = k /\ e.mounted
              /\ e.stage = "sent" /\ e.token = CookieSent /\ e.data = d
              /\ flight' = others \cup {e}
              /\ flight' \subseteq Call
              /\ sent' \in [Tabs -> Nat] /\ \A q \in Tabs : sent'[q] <= MaxCalls[q]
              /\ \A b \in flight' : b.id <= sent'[b.tab]
              /\ \A b, f \in flight' : b.tab = f.tab /\ b.id = f.id => b = f
<1>. DEFINE e == NewCall(t, k, d)
<1>1. sent \in [Tabs -> Nat] /\ sent[t] \in Nat /\ CookieSent \in Token \cup {None}
  BY DEF TypeOK, CookieSent
<1>2. /\ e \in Call /\ e.id = sent[t] + 1 /\ e.tab = t /\ e.kind = k /\ e.mounted
      /\ e.stage = "sent" /\ e.token = CookieSent /\ e.data = d
  BY <1>1 DEF NewCall, Call
<1>3. flight' = others \cup {e} /\ sent' = [sent EXCEPT ![t] = sent[t] + 1] /\ sent[t] < MaxCalls[t]
  BY DEF Send
<1>. HIDE DEF e
<1>4. sent' \in [Tabs -> Nat] /\ \A q \in Tabs : sent'[q] <= MaxCalls[q] /\ sent[q] <= sent'[q]
  BY <1>1, <1>3 DEF TypeOK
<1>5. sent'[t] = sent[t] + 1
  BY <1>1, <1>3
<1>6. \A b \in others : b.tab \in Tabs /\ b.id \in Nat /\ b.id <= sent'[b.tab]
  BY <1>1, <1>4 DEF Call
<1>7. \A b \in flight' : b.id <= sent'[b.tab]
  BY <1>1, <1>2, <1>3, <1>5, <1>6
<1>8. \A b \in others : ~(b.tab = t /\ b.id = e.id)
  BY <1>1, <1>2, <1>6
<1>9. \A b, f \in flight' : b.tab = f.tab /\ b.id = f.id => b = f
  BY <1>2, <1>3, <1>8
<1>. QED
  BY <1>2, <1>3, <1>4, <1>7, <1>9

-----------------------------------------------------------------------------
(* Answers: a call goes on, the pages stay as they are *)

LEMMA MoveStep ==
    ASSUME IInv, NEW c \in flight, NEW s \in {"answered", "arrived", "failed"},
           NEW d \in Token \cup Users \cup Problems \cup {None}, Move(c, s, d),
           UNCHANGED <<now, appVars, view, sent, last>>,
           token' \in Token \cup {None}, tokenUntil' \in Nat, activeUntil' \in Nat,
           held' \in [Tabs -> SUBSET Users], loggedOut' \in BOOLEAN, JarOK',
           \A t \in Tabs : held[t] \subseteq held'[t],
           c.kind = "form" /\ s # "failed" => d \in Token,
           c.kind = "solve" /\ s # "failed" => d \in Problems /\ d = last[c.tab],
           c.kind = "history" /\ s # "failed" => d \in held'[c.tab] \cup {None}
    PROVE  IInv'
<1>1. TypeOK /\ flight \subseteq Call /\ c \in Call /\ c.tab \in Tabs
  BY DEF IInv, TypeOK, Call
<1>2. PICK e \in Call :
         /\ e.id = c.id /\ e.tab = c.tab /\ e.kind = c.kind /\ e.mounted = c.mounted
         /\ e.stage = s /\ e.token = None /\ e.data = d
         /\ flight' = (flight \ {c}) \cup {e}
         /\ flight' \subseteq Call
         /\ \A b \in flight' : b.id <= sent'[b.tab]
         /\ \A b, f \in flight' : b.tab = f.tab /\ b.id = f.id => b = f
  BY <1>1, MoveType
<1>3. TypeOK'
  BY <1>1, <1>2 DEF TypeOK, appVars
<1>4. ASSUME NEW t \in Tabs PROVE TabOK(t)'
  <2>1. TabOK(t)
    BY DEF IInv
  <2>. QED
    BY <2>1 DEF TabOK, appVars
<1>5. ASSUME NEW b \in flight' PROVE OwnerOK(b)' /\ DataOK(b)'
  <2>1. CASE b \in flight
    <3>1. OwnerOK(b) /\ DataOK(b) /\ b.tab \in Tabs
      BY <1>1, <2>1 DEF IInv, Call
    <3>2. OwnerOK(b)'
      BY <3>1 DEF OwnerOK, appVars
    <3>3. DataOK(b)'
      BY <3>1 DEF DataOK
    <3>. QED
      BY <3>2, <3>3
  <2>2. CASE b = e
    <3>1. OwnerOK(c)
      BY DEF IInv
    <3>2. OwnerOK(b)'
      BY <1>2, <2>2, <3>1 DEF OwnerOK, appVars
    <3>3. DataOK(b)'
      BY <1>2, <2>2 DEF DataOK
    <3>. QED
      BY <3>2, <3>3
  <2>. QED
    BY <1>2, <2>1, <2>2
<1>6. OnePageCall'
  <2>1. OnePageCall
    BY DEF IInv
  <2>2. \A b \in flight' : b = e \/ (b \in flight /\ b # c)
    BY <1>2
  <2>3. \A b \in flight : b # c /\ b.tab = c.tab /\ b.kind # "form" => c.kind = "form"
    BY <2>1 DEF OnePageCall
  <2>. QED
    BY <1>2, <2>1, <2>2, <2>3 DEF OnePageCall
<1>. QED
  BY <1>3, <1>4, <1>5, <1>6 DEF IInv

LEMMA AnswerStep == ASSUME IInv, NEW c \in flight, Answer(c) PROVE IInv'
<1>1. TypeOK /\ c \in Call /\ DataOK(c) /\ c.stage = "sent" /\ JarOK
  BY DEF IInv, TypeOK, Answer
<1>2. UNCHANGED <<now, jarVars, appVars, view, sent, last, ghostVars>>
  BY DEF Answer
<1>3. /\ token' \in Token \cup {None} /\ tokenUntil' \in Nat /\ activeUntil' \in Nat
      /\ held' \in [Tabs -> SUBSET Users] /\ loggedOut' \in BOOLEAN
      /\ \A t \in Tabs : held[t] \subseteq held'[t]
  BY <1>1, <1>2 DEF TypeOK, jarVars, ghostVars
<1>4. JarOK'
  BY <1>1, <1>2 DEF JarOK, IsAuthenticated, jarVars, ghostVars
<1>5. CASE c.kind = "form" /\ Move(c, "answered", [user |-> c.data, exp |-> now + TokenLife])
  <2>1. [user |-> c.data, exp |-> now + TokenLife] \in Token
    BY <1>1, <1>5 DEF TypeOK, DataOK, Token
  <2>. QED
    BY <1>2, <1>3, <1>4, <1>5, <2>1, MoveStep
<1>6. CASE c.kind = "solve" /\ Move(c, "answered", c.data)
  <2>1. c.data \in Problems /\ c.data = last[c.tab]
    BY <1>1, <1>6 DEF DataOK
  <2>. QED
    BY <1>2, <1>3, <1>4, <1>6, <2>1, MoveStep
<1>7. ASSUME c.kind = "history", NEW o \in {c.token.user, None}, Move(c, "answered", o)
      PROVE  IInv'
  <2>1. c.token.user \in held[c.tab] /\ c.token.user \in Users
    BY <1>1, <1>7 DEF DataOK, Token
  <2>2. held'[c.tab] = held[c.tab]
    BY <1>2 DEF ghostVars
  <2>3. o \in Users \cup {None} /\ o \in held'[c.tab] \cup {None}
    BY <1>7, <2>1, <2>2
  <2>. QED
    BY <1>2, <1>3, <1>4, <1>7, <2>3, MoveStep
<1>. QED
  BY <1>5, <1>6, <1>7 DEF Answer

LEMMA FailStep == ASSUME IInv, NEW c \in flight, Fail(c) PROVE IInv'
<1>1. TypeOK /\ JarOK
  BY DEF IInv
<1>2. Move(c, "failed", None) /\ UNCHANGED <<now, jarVars, appVars, view, sent, last, ghostVars>>
  BY DEF Fail
<1>3. /\ token' \in Token \cup {None} /\ tokenUntil' \in Nat /\ activeUntil' \in Nat
      /\ held' \in [Tabs -> SUBSET Users] /\ loggedOut' \in BOOLEAN
      /\ \A t \in Tabs : held[t] \subseteq held'[t]
  BY <1>1, <1>2 DEF TypeOK, jarVars, ghostVars
<1>4. JarOK'
  BY <1>1, <1>2 DEF JarOK, IsAuthenticated, jarVars, ghostVars
<1>. QED
  BY <1>2, <1>3, <1>4, MoveStep

LEMMA ArriveStep == ASSUME IInv, NEW c \in flight, Arrive(c) PROVE IInv'
<1>1. TypeOK /\ c \in Call /\ DataOK(c) /\ c.stage = "answered" /\ JarOK /\ c.tab \in Tabs
  BY DEF IInv, TypeOK, Arrive, Call
<1>2. Move(c, "arrived", c.data) /\ UNCHANGED <<now, appVars, view, sent, last>>
  BY DEF Arrive
<1>3. CASE c.kind = "form"
  <2>1. c.data \in Token /\ c.data.user \in Users
    BY <1>1, <1>3 DEF DataOK, Token
  <2>2. /\ token' = c.data /\ tokenUntil' = now + MaxAge /\ activeUntil' = now + MaxAge
        /\ held' = [t \in Tabs |-> held[t] \cup {c.data.user}]
        /\ loggedOut' = FALSE
    BY <1>3 DEF Arrive, SetAuthCookies
  <2>3. now + MaxAge \in Nat
    BY <1>1 DEF TypeOK
  <2>4. held' \in [Tabs -> SUBSET Users] /\ \A t \in Tabs : held[t] \subseteq held'[t]
    BY <1>1, <2>1, <2>2 DEF TypeOK
  <2>5. JarOK'
    <3>1. activeUntil' <= tokenUntil' /\ token' # None /\ ~loggedOut'
      BY <2>1, <2>2, <2>3 DEF Token
    <3>2. \A t \in Tabs : token'.user \in held'[t]
      BY <2>2
    <3>. QED
      BY <3>1, <3>2 DEF JarOK
  <2>. QED
    BY <1>2, <1>3, <2>1, <2>2, <2>3, <2>4, <2>5, MoveStep
<1>4. CASE c.kind # "form"
  <2>1. UNCHANGED <<jarVars, ghostVars>>
    BY <1>4 DEF Arrive
  <2>2. /\ token' \in Token \cup {None} /\ tokenUntil' \in Nat /\ activeUntil' \in Nat
        /\ held' \in [Tabs -> SUBSET Users] /\ loggedOut' \in BOOLEAN
        /\ \A t \in Tabs : held[t] = held'[t]
    BY <1>1, <2>1 DEF TypeOK, jarVars, ghostVars
  <2>3. JarOK'
    BY <1>1, <1>2, <2>1 DEF JarOK, IsAuthenticated, jarVars, ghostVars
  <2>4. /\ c.kind = "solve" => c.data \in Problems /\ c.data = last[c.tab]
        /\ c.kind = "history" => c.data \in held'[c.tab] \cup {None}
        /\ c.data \in Token \cup Users \cup Problems \cup {None}
    BY <1>1, <2>2 DEF DataOK, Call
  <2>. QED
    BY <1>2, <1>4, <2>2, <2>3, <2>4, MoveStep
<1>. QED
  BY <1>3, <1>4

-----------------------------------------------------------------------------
(* What waits for a call runs *)

\* The call is over; its page, when it is still there, becomes v.
LEMMA SettleStep ==
    ASSUME IInv, NEW c \in flight, NEW v \in View, flight' = flight \ {c},
           IF c.mounted THEN SetView(c.tab, v) ELSE UNCHANGED view,
           UNCHANGED <<now, jarVars, appVars, sent, last, ghostVars>>,
           LET t == c.tab IN
              c.mounted =>
                 /\ v.answer # None =>
                       currentPage[t] = "solve" /\ v.answer = last[t] /\ ~v.error /\ ~v.loading
                 /\ v.history # None => currentPage[t] = "history" /\ v.history \in held[t]
                 /\ currentPage[t] = "solve" /\ v.loading => ~v.error
    PROVE  IInv'
<1>1. TypeOK /\ flight \subseteq Call /\ c \in Call /\ c.tab \in Tabs /\ view \in [Tabs -> View]
  BY DEF IInv, TypeOK, Call
<1>2. view' \in [Tabs -> View] /\ \A t \in Tabs : t # c.tab \/ ~c.mounted => view'[t] = view[t]
  BY <1>1 DEF SetView
<1>3. c.mounted => view'[c.tab] = v
  BY <1>1 DEF SetView
<1>4. TypeOK'
  BY <1>1, <1>2 DEF TypeOK, jarVars, appVars, ghostVars
<1>5. JarOK'
  BY DEF IInv, JarOK, IsAuthenticated, jarVars, ghostVars
<1>6. ASSUME NEW t \in Tabs PROVE TabOK(t)'
  <2>1. TabOK(t) /\ UNCHANGED <<currentPage, last, held>>
    BY DEF IInv, appVars, ghostVars
  <2>2. CASE t = c.tab /\ c.mounted
    BY <1>3, <2>1, <2>2 DEF TabOK
  <2>3. CASE ~(t = c.tab /\ c.mounted)
    BY <1>2, <2>1, <2>3 DEF TabOK
  <2>. QED
    BY <2>2, <2>3
<1>7. ASSUME NEW b \in flight' PROVE OwnerOK(b)' /\ DataOK(b)'
  <2>1. b \in flight /\ b # c /\ OwnerOK(b) /\ DataOK(b) /\ OwnerOK(c) /\ b.tab \in Tabs
    BY <1>1 DEF IInv, Call
  <2>2. UNCHANGED <<currentPage, last, held>>
    BY DEF appVars, ghostVars
  <2>3. OwnerOK(b)'
    <3>1. CASE b.kind = "form"
      BY <2>1, <2>2, <3>1 DEF OwnerOK
    <3>2. CASE b.kind # "form" /\ b.tab # c.tab
      <4>1. view'[b.tab] = view[b.tab]
        BY <1>2, <2>1, <3>2
      <4>. QED
        BY <2>1, <2>2, <3>2, <4>1 DEF OwnerOK
    <3>3. CASE b.kind # "form" /\ b.tab = c.tab
      <4>1. c.kind = "form"
        BY <2>1, <3>3 DEF IInv, OnePageCall
      <4>3. ~c.mounted
        BY <1>1, <2>1, <3>3, <4>1 DEF OwnerOK, Forms, Call
      <4>2. view'[b.tab].loading = view[b.tab].loading
        BY <1>2, <2>1, <4>3
      <4>. QED
        BY <2>1, <2>2, <3>3, <4>2 DEF OwnerOK
    <3>. QED
      BY <3>1, <3>2, <3>3
  <2>4. DataOK(b)'
    BY <2>1, <2>2 DEF DataOK
  <2>. QED
    BY <2>3, <2>4
<1>8. OnePageCall'
  BY DEF IInv, OnePageCall
<1>. QED
  BY <1>4, <1>5, <1>6, <1>7, <1>8 DEF IInv

LEMMA ShowAnswerStep == ASSUME IInv, NEW c \in flight, ShowAnswer(c) PROVE IInv'
<1>. DEFINE v == view[c.tab]
<1>1. TypeOK /\ c \in Call /\ c.tab \in Tabs /\ v \in View /\ TabOK(c.tab)
  BY DEF IInv, TypeOK, Call
<1>2. /\ c.stage = "arrived" /\ c.kind \in {"solve", "history"} /\ c.mounted
      /\ currentPage[c.tab] = c.kind /\ v.loading /\ DataOK(c)
  BY <1>1 DEF IInv, ShowAnswer, OwnerOK, Call
<1>. HIDE DEF v
<1>3. ~(c.kind = "solve" /\ v.error) /\ v.answer = None
  BY <1>1, <1>2 DEF TabOK, v
<1>4. CASE c.kind = "solve"
  <2>1. c.data \in Problems /\ c.data = last[c.tab] /\ v.history = None
    BY <1>1, <1>2, <1>4 DEF DataOK, TabOK, v
  <2>2. ViewWith(v, c) = [v EXCEPT !.answer = c.data, !.loading = FALSE]
    BY <1>4 DEF ViewWith
  <2>3. /\ ViewWith(v, c) \in View /\ ViewWith(v, c).answer = c.data /\ ViewWith(v, c).history = None
        /\ ~ViewWith(v, c).loading /\ ~ViewWith(v, c).error
    BY <1>1, <1>3, <1>4, <2>1, <2>2 DEF View
  <2>. QED
    BY <1>2, <1>4, <2>1, <2>3, SettleStep DEF ShowAnswer, v
<1>5. CASE c.kind = "history"
  <2>1. c.data \in held[c.tab] \cup {None} /\ held[c.tab] \subseteq Users
    BY <1>1, <1>2, <1>5 DEF DataOK, TypeOK
  <2>2. ViewWith(v, c) = [v EXCEPT !.history = c.data, !.loading = FALSE]
    BY <1>5 DEF ViewWith
  <2>3. /\ ViewWith(v, c) \in View /\ ViewWith(v, c).answer = None /\ ViewWith(v, c).history = c.data
        /\ ~ViewWith(v, c).loading
    BY <1>1, <1>3, <2>1, <2>2 DEF View
  <2>. QED
    BY <1>2, <1>5, <2>1, <2>3, SettleStep DEF ShowAnswer, v
<1>. QED
  BY <1>2, <1>4, <1>5

LEMMA ShowErrorStep == ASSUME IInv, NEW c \in flight, ShowError(c) PROVE IInv'
<1>. DEFINE v == view[c.tab]
<1>1. TypeOK /\ c \in Call /\ c.tab \in Tabs /\ v \in View /\ TabOK(c.tab) /\ OwnerOK(c)
  BY DEF IInv, TypeOK, Call
<1>. DEFINE w == ViewFailed(v)
<1>. HIDE DEF v
<1>2. w \in View /\ w.answer = v.answer /\ w.history = v.history /\ ~w.loading /\ w.error
  BY <1>1 DEF ViewFailed, View
<1>3. c.mounted => v.answer = None
  <2>1. CASE c.kind = "form"
    BY <1>1, <2>1 DEF TabOK, OwnerOK, Forms, v
  <2>2. CASE c.kind # "form"
    BY <1>1, <2>2 DEF TabOK, OwnerOK, v
  <2>. QED
    BY <2>1, <2>2
<1>. QED
  BY <1>1, <1>2, <1>3, SettleStep DEF ShowError, TabOK, v

-----------------------------------------------------------------------------
(* A page is left *)

LEMMA UnmountedFacts ==
    ASSUME IInv, NEW t \in Tabs, NEW calls \in SUBSET flight
    PROVE  LET U == Unmounted(t, calls) IN
           /\ U \subseteq Call
           /\ \A b \in U : b.id <= sent[b.tab]
           /\ \A b, d \in U : b.tab = d.tab /\ b.id = d.id => b = d
           /\ \A b \in U : b.tab # t => b \in flight
           /\ \A b \in U : b.tab = t => b.kind = "form" /\ ~b.mounted /\ DataOK(b)
<1>. DEFINE U == Unmounted(t, calls)
            F == {d \in calls : d.tab = t /\ d.kind = "form"}
            m(d) == [d EXCEPT !.mounted = FALSE]
<1>1. flight \subseteq Call /\ \A b \in flight : b.id <= sent[b.tab] /\ DataOK(b)
  BY DEF IInv, TypeOK
<1>2. U = {b \in calls : b.tab # t} \cup {m(d) : d \in F}
  BY DEF Unmounted
<1>3. ASSUME NEW d \in F
      PROVE  /\ m(d) \in Call /\ m(d).id = d.id /\ m(d).tab = t /\ m(d).kind = "form" /\ ~m(d).mounted
             /\ m(d).stage = d.stage /\ m(d).data = d.data
  <2>1. d \in Call /\ d.tab = t /\ d.kind = "form"
    BY <1>1
  <2>2. m(d) = [d EXCEPT !.mounted = FALSE]
    OBVIOUS
  <2>. HIDE DEF F, m
  <2>. QED
    BY <2>1, <2>2 DEF Call
<1>. HIDE DEF m, U
<1>4. \A d \in F : DataOK(m(d))
  BY <1>1, <1>3 DEF DataOK
<1>5. \A b \in U : (b \in flight /\ b.tab # t) \/ \E d \in F : b = m(d)
  BY <1>2
<1>6. \A b, d \in flight : b.tab = d.tab /\ b.id = d.id => b = d
  BY DEF IInv, TypeOK
<1>7. ASSUME NEW b \in U, NEW d \in U, b.tab = d.tab, b.id = d.id
      PROVE  b = d
  <2>1. CASE b.tab # t
    BY <1>3, <1>5, <1>6, <1>7, <2>1
  <2>2. CASE b.tab = t
    <3>1. PICK x \in F : b = m(x)
      BY <1>5, <2>2
    <3>2. PICK y \in F : d = m(y)
      BY <1>5, <1>7, <2>2
    <3>3. x = y
      BY <1>3, <1>6, <1>7, <3>1, <3>2
    <3>. QED
      BY <3>1, <3>2, <3>3
  <2>. QED
    BY <2>1, <2>2
<1>8. U \subseteq Call
  BY <1>1, <1>3, <1>5
<1>9. \A b \in U : b.id <= sent[b.tab]
  BY <1>1, <1>3, <1>5
<1>10. \A b \in U : b.tab # t => b \in flight
  BY <1>3, <1>5
<1>11. \A b \in U : b.tab = t => b.kind = "form" /\ ~b.mounted /\ DataOK(b)
  BY <1>3, <1>4, <1>5
<1>. QED
  BY <1>7, <1>8, <1>9, <1>10, <1>11 DEF U

\* The tab t comes to show another page, or the same one afresh.
LEMMA LeaveStep ==
    ASSUME IInv, TypeOK', JarOK', NEW t \in Tabs, NEW page \in Pages, NEW v \in View,
           currentPage' = [currentPage EXCEPT ![t] = page],
           SetView(t, v), v.answer = None, v.history = None,
           page = "solve" => ~v.loading,
           last' = [last EXCEPT ![t] = None],
           \A q \in Tabs : q # t => held'[q] = held[q],
           \A b \in flight' : b.tab # t => b \in flight,
           \A b \in flight' : b.tab = t /\ b.kind = "form" => ~b.mounted /\ DataOK(b),
           \A b \in flight' : b.tab = t /\ b.kind # "form" => OwnerOK(b)' /\ DataOK(b)',
           \A b, d \in flight' : b.tab = t /\ b.kind # "form" /\ d.tab = t /\ d.kind # "form" => b = d
    PROVE  IInv'
<1>1. TypeOK
  BY DEF IInv
<1>2. /\ view'[t] = v /\ currentPage'[t] = page /\ last'[t] = None
      /\ \A q \in Tabs : q # t => view'[q] = view[q] /\ currentPage'[q] = currentPage[q] /\ last'[q] = last[q]
  BY <1>1 DEF TypeOK, SetView
<1>3. ASSUME NEW q \in Tabs PROVE TabOK(q)'
  <2>1. CASE q = t
    BY <1>2, <2>1 DEF TabOK
  <2>2. CASE q # t
    BY <1>2, <2>2 DEF IInv, TabOK
  <2>. QED
    BY <2>1, <2>2
<1>4. ASSUME NEW b \in flight' PROVE OwnerOK(b)' /\ DataOK(b)'
  <2>1. b.tab \in Tabs
    BY DEF TypeOK, Call
  <2>2. CASE b.tab # t
    <3>1. OwnerOK(b) /\ DataOK(b)
      BY <2>2 DEF IInv
    <3>2. OwnerOK(b)'
      BY <1>2, <2>1, <2>2, <3>1 DEF OwnerOK
    <3>3. DataOK(b)'
      BY <1>2, <2>1, <2>2, <3>1 DEF DataOK
    <3>. QED
      BY <3>2, <3>3
  <2>3. CASE b.tab = t /\ b.kind = "form"
    BY <2>3 DEF OwnerOK, DataOK
  <2>4. CASE b.tab = t /\ b.kind # "form"
    BY <2>4
  <2>. QED
    BY <2>2, <2>3, <2>4
<1>5. OnePageCall'
  BY DEF IInv, OnePageCall
<1>. QED
  BY <1>3, <1>4, <1>5 DEF IInv

LEMMA BlankFacts == Blank \in View /\ Blank.answer = None /\ Blank.history = None
                    /\ Blank.loading = FALSE /\ Blank.error = FALSE
BY DEF Blank, View

\* setAuthenticated and setCurrentPage, to another page than before.
LEMMA ShowStep ==
    ASSUME IInv, NEW t \in Tabs, NEW auth \in BOOLEAN, NEW page \in Pages, page # currentPage[t],
           auth <=> page \notin Forms,
           NEW calls \in SUBSET flight, Show(t, auth, page, calls),
           UNCHANGED <<now, token, tokenUntil, sent>>,
           activeUntil' \in Nat, held' \in [Tabs -> SUBSET Users], loggedOut' \in BOOLEAN, JarOK',
           \A q \in Tabs : q # t => held'[q] = held[q]
    PROVE  IInv'
<1>1. TypeOK
  BY DEF IInv
<1>2. /\ authenticated' = [authenticated EXCEPT ![t] = auth]
      /\ currentPage' = [currentPage EXCEPT ![t] = page]
      /\ flight' = Unmounted(t, calls) /\ SetView(t, Blank)
      /\ last' = [last EXCEPT ![t] = None]
  BY DEF Show
<1>3. /\ flight' \subseteq Call
      /\ \A b \in flight' : b.id <= sent'[b.tab]
      /\ \A b, d \in flight' : b.tab = d.tab /\ b.id = d.id => b = d
      /\ \A b \in flight' : b.tab # t => b \in flight
      /\ \A b \in flight' : b.tab = t => b.kind = "form" /\ ~b.mounted /\ DataOK(b)
  BY <1>2, UnmountedFacts
<1>4. TypeOK'
  <2>1. /\ authenticated' \in [Tabs -> BOOLEAN] /\ currentPage' \in [Tabs -> Pages]
        /\ \A q \in Tabs : authenticated'[q] <=> currentPage'[q] \notin Forms
    BY <1>1, <1>2 DEF TypeOK
  <2>2. view' \in [Tabs -> View] /\ last' \in [Tabs -> Problems \cup {None}]
    BY <1>1, <1>2, BlankFacts DEF TypeOK, SetView
  <2>. QED
    BY <1>1, <1>3, <2>1, <2>2 DEF TypeOK
<1>5. /\ \A b \in flight' : b.tab = t /\ b.kind = "form" => ~b.mounted /\ DataOK(b)
      /\ \A b \in flight' : ~(b.tab = t /\ b.kind # "form")
  BY <1>3
<1>6. page = "solve" => ~Blank.loading
  BY BlankFacts
<1>. QED
  BY ONLY IInv, t \in Tabs, page \in Pages, <1>2, <1>3, <1>4, <1>5, <1>6, BlankFacts, LeaveStep,
          JarOK', \A q \in Tabs : q # t => held'[q] = held[q]

LEMMA SamePage == ASSUME IInv, NEW t \in Tabs PROVE currentPage[t] \in Pages /\ (authenticated[t] <=> currentPage[t] \notin Forms)
BY DEF IInv, TypeOK

\* An action that leaves the jar and the ghosts alone.
LEMMA JarKept ==
    ASSUME IInv, UNCHANGED <<now, jarVars, ghostVars>>
    PROVE  /\ JarOK' /\ token' \in Token \cup {None} /\ tokenUntil' \in Nat /\ activeUntil' \in Nat
           /\ held' \in [Tabs -> SUBSET Users] /\ loggedOut' \in BOOLEAN
           /\ UNCHANGED <<now, token, tokenUntil, activeUntil, held, loggedOut>>
BY DEF IInv, TypeOK, JarOK, IsAuthenticated, jarVars, ghostVars

LEMMA ClickStep ==
    ASSUME IInv, NEW t \in Tabs, ClickForm(t) \/ ClickSolver(t)
    PROVE  IInv'
<1>1. UNCHANGED <<now, jarVars, sent, ghostVars>>
  BY DEF ClickForm, ClickSolver
<1>2. /\ JarOK' /\ activeUntil' \in Nat /\ held' \in [Tabs -> SUBSET Users] /\ loggedOut' \in BOOLEAN
      /\ UNCHANGED <<now, token, tokenUntil, sent, held>>
  BY <1>1, JarKept
<1>3. \A q \in Tabs : q # t => held'[q] = held[q]
  BY <1>2
<1>4. CASE ClickForm(t)
  <2>1. PICK page \in Forms \ {currentPage[t]} : Show(t, FALSE, page, flight)
    BY <1>4 DEF ClickForm
  <2>2. page \in Pages /\ page # currentPage[t] /\ flight \in SUBSET flight
    BY DEF Pages
  <2>3. FALSE <=> page \notin Forms
    OBVIOUS
  <2>. QED
    BY ONLY IInv, t \in Tabs, <1>2, <1>3, <2>1, <2>2, <2>3, FALSE \in BOOLEAN, ShowStep
<1>5. CASE ClickSolver(t)
  <2>1. Show(t, TRUE, "solve", flight) /\ currentPage[t] = "history"
    BY <1>5 DEF ClickSolver
  <2>2. "solve" \in Pages /\ "solve" # currentPage[t] /\ "solve" \notin Forms /\ flight \in SUBSET flight
    BY <2>1 DEF Pages, Forms
  <2>. QED
    BY <1>2, <1>3, <2>1, <2>2, ShowStep
<1>. QED
  BY <1>4, <1>5

LEMMA LogoutStep == ASSUME IInv, NEW t \in Tabs, HandleLogout(t) PROVE IInv'
<1>1. TypeOK /\ JarOK
  BY DEF IInv
<1>2. /\ authenticated[t] /\ activeUntil' = 0 /\ Show(t, FALSE, "login", flight)
      /\ held' = [held EXCEPT ![t] = {}] /\ loggedOut' = TRUE
      /\ UNCHANGED <<now, token, tokenUntil, sent>>
  BY DEF HandleLogout
<1>3. "login" \in Pages /\ "login" \in Forms /\ "login" # currentPage[t] /\ flight \in SUBSET flight
  BY <1>2, SamePage DEF Forms, Pages
<1>4. held' \in [Tabs -> SUBSET Users] /\ \A q \in Tabs : q # t => held'[q] = held[q]
  BY <1>1, <1>2 DEF TypeOK
<1>5. JarOK'
  <2>1. activeUntil' <= tokenUntil' /\ ~(now' < activeUntil')
    BY <1>1, <1>2 DEF TypeOK
  <2>. QED
    BY <1>1, <1>2, <2>1 DEF JarOK, IsAuthenticated
<1>. QED
  BY <1>2, <1>3, <1>4, <1>5, ShowStep

LEMMA LoginSuccessStep == ASSUME IInv, NEW c \in flight, HandleLoginSuccess(c) PROVE IInv'
<1>1. c.tab \in Tabs /\ c.kind = "form" /\ OwnerOK(c)
  BY DEF IInv, TypeOK, Call, HandleLoginSuccess
<1>2. UNCHANGED <<now, jarVars, sent, ghostVars>> /\ Show(c.tab, TRUE, "solve", flight \ {c})
  BY DEF HandleLoginSuccess
<1>3. "solve" \in Pages /\ "solve" \notin Forms /\ flight \ {c} \in SUBSET flight
  BY DEF Pages, Forms
<1>4. CASE currentPage[c.tab] # "solve"
  <2>1. /\ JarOK' /\ activeUntil' \in Nat /\ held' \in [Tabs -> SUBSET Users] /\ loggedOut' \in BOOLEAN
        /\ UNCHANGED <<now, token, tokenUntil, sent, held>>
    BY <1>2, JarKept
  <2>2. \A q \in Tabs : q # c.tab => held'[q] = held[q]
    BY <2>1
  <2>. QED
    BY <1>1, <1>2, <1>3, <1>4, <2>1, <2>2, ShowStep
<1>5. CASE currentPage[c.tab] = "solve"
  <2>1. /\ authenticated' = [authenticated EXCEPT ![c.tab] = TRUE]
        /\ currentPage' = [currentPage EXCEPT ![c.tab] = "solve"]
        /\ flight' = flight \ {c} /\ UNCHANGED <<view, last>>
    BY <1>2, <1>5 DEF Show
  <2>2. authenticated[c.tab] = TRUE
    BY <1>1, <1>3, <1>5 DEF IInv, TypeOK
  <2>3. UNCHANGED appVars
    BY <1>5, <2>1, <2>2 DEF IInv, TypeOK, appVars
  <2>4. ~c.mounted
    BY <1>1, <1>3, <1>5 DEF OwnerOK
  <2>. QED
    BY <1>2, <2>1, <2>3, <2>4, BlankFacts, SettleStep
<1>. QED
  BY <1>4, <1>5

LEMMA ReloadStep == ASSUME IInv, NEW t \in Tabs, Reload(t) PROVE IInv'
<1>1. TypeOK /\ JarOK
  BY DEF IInv
<1>. DEFINE page == IF IsAuthenticated THEN "solve" ELSE "login"
            h == IF IsAuthenticated THEN {token.user} ELSE {}
<1>2. /\ authenticated' = [authenticated EXCEPT ![t] = IsAuthenticated]
      /\ currentPage' = [currentPage EXCEPT ![t] = page]
      /\ flight' = {c \in flight : c.tab # t}
      /\ SetView(t, Blank)
      /\ last' = [last EXCEPT ![t] = None]
      /\ held' = [held EXCEPT ![t] = h]
      /\ UNCHANGED <<now, jarVars, sent, loggedOut>>
  BY DEF Reload
<1>3. page \in Pages /\ (IsAuthenticated <=> page \notin Forms) /\ IsAuthenticated \in BOOLEAN
  BY DEF Pages, Forms, IsAuthenticated
<1>4. h \in SUBSET Users
  <2>1. CASE IsAuthenticated
    <3>1. token # None
      BY <1>1, <2>1 DEF TypeOK, JarOK, IsAuthenticated
    <3>. QED
      BY <1>1, <2>1, <3>1 DEF TypeOK, Token
  <2>2. CASE ~IsAuthenticated
    BY <2>2
  <2>. QED
    BY <2>1, <2>2
<1>. HIDE DEF page
<1>5. TypeOK'
  <2>1. /\ authenticated' \in [Tabs -> BOOLEAN] /\ currentPage' \in [Tabs -> Pages]
        /\ \A q \in Tabs : authenticated'[q] <=> currentPage'[q] \notin Forms
    BY <1>1, <1>2, <1>3 DEF TypeOK
  <2>2. /\ view' \in [Tabs -> View] /\ last' \in [Tabs -> Problems \cup {None}]
        /\ held' \in [Tabs -> SUBSET Users]
    BY <1>1, <1>2, <1>4, BlankFacts DEF TypeOK, SetView
  <2>3. flight' \subseteq flight
    BY <1>2
  <2>. QED
    BY <1>1, <1>2, <2>1, <2>2, <2>3 DEF TypeOK, jarVars
<1>6. JarOK'
  <2>1. IsAuthenticated => \A q \in Tabs : token.user \in held'[q]
    BY <1>1, <1>2 DEF TypeOK, JarOK
  <2>. QED
    BY <1>1, <1>2, <2>1 DEF JarOK, IsAuthenticated, jarVars
<1>7. \A q \in Tabs : q # t => held'[q] = held[q]
  BY <1>1, <1>2 DEF TypeOK
<1>8. \A b \in flight' : b.tab # t /\ b \in flight
  BY <1>2
<1>. QED
  BY <1>2, <1>3, <1>5, <1>6, <1>7, <1>8, BlankFacts, LeaveStep

-----------------------------------------------------------------------------
(* Calls are sent *)

\* What a session gives a call.
LEMMA CookieFacts ==
    ASSUME IInv, IsAuthenticated
    PROVE  CookieSent \in Token /\ \A t \in Tabs : CookieSent.user \in held[t]
<1>1. TypeOK /\ JarOK
  BY DEF IInv
<1>2. now < tokenUntil
  BY <1>1 DEF TypeOK, JarOK, IsAuthenticated
<1>3. CookieSent = token /\ token # None
  BY <1>1, <1>2 DEF CookieSent, JarOK, TypeOK
<1>. QED
  BY <1>1, <1>3 DEF TypeOK, JarOK

LEMMA FlightFacts ==
    IInv => /\ flight \in SUBSET Call
            /\ \A b \in flight : b.id <= sent[b.tab]
            /\ \A b, d \in flight : b.tab = d.tab /\ b.id = d.id => b = d
BY DEF IInv, TypeOK

\* The page of t stays; it submits k to others, all calls or those of other pages.
LEMMA StayStep ==
    ASSUME IInv, NEW t \in Tabs, NEW v \in View, NEW l \in Problems \cup {None},
           UNCHANGED <<now, jarVars, appVars, ghostVars>>, SetView(t, v),
           last' = [last EXCEPT ![t] = l],
           \/ UNCHANGED <<sent, flight>>
           \/ \E k \in {"form", "solve", "history"}, d \in Users \cup Problems \cup {None} :
                 /\ Send(t, k, d, flight)
                 /\ k = "form" => d \in Users /\ currentPage[t] \in Forms
                 /\ k # "form" => IsAuthenticated /\ currentPage[t] = k /\ v.loading
                 /\ k = "solve" => d \in Problems /\ d = l,
           \A b \in flight : b.tab = t => b.kind = "form",
           /\ v.answer # None =>
                 currentPage[t] = "solve" /\ v.answer = l /\ ~v.error /\ ~v.loading
           /\ v.history # None => currentPage[t] = "history" /\ v.history \in held[t]
           /\ currentPage[t] = "solve" /\ v.loading => ~v.error
    PROVE  IInv'
<1>1. TypeOK /\ JarOK' /\ UNCHANGED <<now, token, tokenUntil, activeUntil, authenticated, currentPage, held, loggedOut>>
  BY JarKept DEF IInv, appVars
<1>2. /\ view'[t] = v /\ last'[t] = l /\ view' \in [Tabs -> View] /\ last' \in [Tabs -> Problems \cup {None}]
      /\ \A q \in Tabs : q # t => view'[q] = view[q] /\ last'[q] = last[q]
  BY <1>1 DEF TypeOK, SetView
<1>3. ASSUME NEW q \in Tabs PROVE TabOK(q)'
  <2>1. CASE q = t
    BY <1>1, <1>2, <2>1 DEF TabOK
  <2>2. CASE q # t
    BY <1>1, <1>2, <2>2 DEF IInv, TabOK
  <2>. QED
    BY <2>1, <2>2
<1>4. ASSUME NEW b \in flight PROVE OwnerOK(b)' /\ DataOK(b)'
  <2>1. b.tab \in Tabs /\ OwnerOK(b) /\ DataOK(b)
    BY DEF IInv, TypeOK, Call
  <2>2. CASE b.tab = t
    BY <1>1, <2>1, <2>2 DEF OwnerOK, DataOK
  <2>3. CASE b.tab # t
    <3>1. view'[b.tab] = view[b.tab] /\ last'[b.tab] = last[b.tab]
      BY <1>2, <2>1, <2>3
    <3>2. OwnerOK(b)'
      BY <1>1, <2>1, <3>1 DEF OwnerOK
    <3>3. DataOK(b)'
      BY <1>1, <2>1, <3>1 DEF DataOK
    <3>. QED
      BY <3>2, <3>3
  <2>. QED
    BY <2>2, <2>3
<1>5. CASE UNCHANGED <<sent, flight>>
  <2>1. TypeOK'
    BY <1>1, <1>2, <1>5 DEF TypeOK
  <2>. QED
    BY <1>1, <1>3, <1>4, <1>5, <2>1 DEF IInv, OnePageCall
<1>6. ASSUME NEW k \in {"form", "solve", "history"}, NEW d \in Users \cup Problems \cup {None},
             Send(t, k, d, flight),
             k = "form" => d \in Users /\ currentPage[t] \in Forms,
             k # "form" => IsAuthenticated /\ currentPage[t] = k /\ v.loading,
             k = "solve" => d \in Problems /\ d = l
      PROVE  IInv'
  <2>1. PICK e \in Call :
           /\ e.tab = t /\ e.kind = k /\ e.mounted
           /\ e.stage = "sent" /\ e.token = CookieSent /\ e.data = d
           /\ flight' = flight \cup {e}
           /\ flight' \subseteq Call
           /\ sent' \in [Tabs -> Nat] /\ \A q \in Tabs : sent'[q] <= MaxCalls[q]
           /\ \A b \in flight' : b.id <= sent'[b.tab]
           /\ \A b, f \in flight' : b.tab = f.tab /\ b.id = f.id => b = f
    BY <1>1, <1>6, FlightFacts, SendType
  <2>2. TypeOK'
    BY <1>1, <1>2, <2>1 DEF TypeOK
  <2>3. OwnerOK(e)'
    BY <1>1, <1>2, <1>6, <2>1 DEF OwnerOK
  <2>4. k # "form" => e.token \in Token /\ e.token.user \in held[t]
    BY <1>6, <2>1, CookieFacts
  <2>5. DataOK(e)'
    BY <1>1, <1>2, <1>6, <2>1, <2>4 DEF DataOK
  <2>6. OnePageCall'
    <3>1. \A b \in flight' : b = e \/ b \in flight
      BY <2>1
    <3>. QED
      BY <2>1, <3>1 DEF IInv, OnePageCall
  <2>. QED
    BY <1>1, <1>3, <1>4, <2>1, <2>2, <2>3, <2>5, <2>6 DEF IInv
<1>. QED
  BY <1>5, <1>6

\* A page that is not loading waits for nothing.
LEMMA NoPageCall ==
    ASSUME IInv, NEW t \in Tabs, ~view[t].loading \/ currentPage[t] \in Forms
    PROVE  \A b \in flight : b.tab = t => b.kind = "form"
BY DEF IInv, OwnerOK, Forms, TypeOK, Call

LEMMA BlankWith ==
    /\ [Blank EXCEPT !.error = TRUE] \in View
    /\ [Blank EXCEPT !.error = TRUE].answer = None /\ [Blank EXCEPT !.error = TRUE].history = None
    /\ [Blank EXCEPT !.error = TRUE].loading = FALSE
    /\ [Blank EXCEPT !.loading = TRUE] \in View
    /\ [Blank EXCEPT !.loading = TRUE].answer = None /\ [Blank EXCEPT !.loading = TRUE].history = None
    /\ [Blank EXCEPT !.loading = TRUE].loading = TRUE /\ [Blank EXCEPT !.loading = TRUE].error = FALSE
BY DEF Blank, View

LEMMA SubmitStep == ASSUME IInv, NEW t \in Tabs, HandleSubmit(t) PROVE IInv'
<1>1. /\ UNCHANGED <<now, jarVars, appVars, ghostVars>> /\ currentPage[t] \in Forms
      /\ last' = last
  BY DEF HandleSubmit
<1>2. last[t] \in Problems \cup {None} /\ last' = [last EXCEPT ![t] = last[t]]
  BY <1>1 DEF IInv, TypeOK
<1>3. \A b \in flight : b.tab = t => b.kind = "form"
  BY <1>1, NoPageCall
<1>4. ASSUME NEW u \in Accounts[t], SetView(t, Blank), Send(t, "form", u, flight) PROVE IInv'
  <2>1. u \in Users
    OBVIOUS
  <2>2. \E k \in {"form", "solve", "history"}, d \in Users \cup Problems \cup {None} :
           /\ Send(t, k, d, flight)
           /\ k = "form" => d \in Users /\ currentPage[t] \in Forms
           /\ k # "form" => IsAuthenticated /\ currentPage[t] = k /\ Blank.loading
           /\ k = "solve" => d \in Problems /\ d = last[t]
    BY <1>1, <1>4, <2>1
  <2>. QED
    BY <1>1, <1>2, <1>3, <1>4, <2>2, BlankFacts, StayStep
<1>5. CASE SetView(t, [Blank EXCEPT !.error = TRUE]) /\ UNCHANGED <<sent, flight>>
  BY <1>1, <1>2, <1>3, <1>5, BlankWith, StayStep
<1>. QED
  BY <1>4, <1>5 DEF HandleSubmit

LEMMA SolveStep == ASSUME IInv, NEW t \in Tabs, HandleSolve(t) PROVE IInv'
<1>1. /\ UNCHANGED <<now, jarVars, appVars, ghostVars>>
      /\ currentPage[t] = "solve" /\ ~view[t].loading
  BY DEF HandleSolve, SolveEnabled
<1>2. \A b \in flight : b.tab = t => b.kind = "form"
  BY <1>1, NoPageCall
<1>3. ASSUME NEW l \in Problems \cup {None}, last' = [last EXCEPT ![t] = l],
             SetView(t, [Blank EXCEPT !.error = TRUE]), UNCHANGED <<sent, flight>>
      PROVE  IInv'
  BY <1>1, <1>2, <1>3, BlankWith, StayStep
<1>4. ASSUME NEW p \in Problems, last' = [last EXCEPT ![t] = p], IsAuthenticated,
             Send(t, "solve", p, flight), SetView(t, [Blank EXCEPT !.loading = TRUE])
      PROVE  IInv'
  <2>1. \E k \in {"form", "solve", "history"}, d \in Users \cup Problems \cup {None} :
           /\ Send(t, k, d, flight)
           /\ k = "form" => d \in Users /\ currentPage[t] \in Forms
           /\ k # "form" => IsAuthenticated /\ currentPage[t] = k /\ [Blank EXCEPT !.loading = TRUE].loading
           /\ k = "solve" => d \in Problems /\ d = p
    BY <1>1, <1>4, BlankWith
  <2>2. p \in Problems \cup {None}
    OBVIOUS
  <2>. QED
    BY <1>1, <1>2, <1>4, <2>1, <2>2, BlankWith, StayStep
<1>. QED
  BY <1>3, <1>4 DEF HandleSolve

LEMMA RefreshStep == ASSUME IInv, NEW t \in Tabs, Refresh(t) PROVE IInv'
<1>. DEFINE v == view[t]
            w == [v EXCEPT !.loading = TRUE]
            x == [v EXCEPT !.error = TRUE]
<1>1. /\ UNCHANGED <<now, jarVars, appVars, last, ghostVars>>
      /\ currentPage[t] = "history" /\ ~v.loading /\ FetchHistory(t, v, flight)
  BY DEF Refresh
<1>2. TabOK(t) /\ v \in View /\ last[t] \in Problems \cup {None} /\ last' = [last EXCEPT ![t] = last[t]]
  BY <1>1 DEF IInv, TypeOK
<1>3. \A b \in flight : b.tab = t => b.kind = "form"
  BY <1>1, NoPageCall
<1>4. v.answer = None /\ (v.history # None => v.history \in held[t])
  BY <1>1, <1>2 DEF TabOK
<1>. HIDE DEF v
<1>5. /\ w \in View /\ w.answer = None /\ w.history = v.history /\ w.loading = TRUE
      /\ x \in View /\ x.answer = None /\ x.history = v.history
  BY <1>2, <1>4 DEF View
<1>. HIDE DEF w, x
<1>6. CASE IsAuthenticated /\ Send(t, "history", None, flight) /\ SetView(t, w)
  <2>1. \E k \in {"form", "solve", "history"}, d \in Users \cup Problems \cup {None} :
           /\ Send(t, k, d, flight)
           /\ k = "form" => d \in Users /\ currentPage[t] \in Forms
           /\ k # "form" => IsAuthenticated /\ currentPage[t] = k /\ w.loading
           /\ k = "solve" => d \in Problems /\ d = last[t]
    BY <1>1, <1>5, <1>6
  <2>. QED
    BY ONLY IInv, t \in Tabs, <1>1, <1>2, <1>3, <1>4, <1>5, <1>6, <2>1, StayStep, Zenon
<1>7. CASE flight' = flight /\ SetView(t, x) /\ UNCHANGED sent
  BY ONLY IInv, t \in Tabs, <1>1, <1>2, <1>3, <1>4, <1>5, <1>7, StayStep, Zenon
<1>. QED
  BY <1>1, <1>6, <1>7 DEF FetchHistory, w, x

LEMMA ClickHistoryStep == ASSUME IInv, NEW t \in Tabs, ClickHistory(t) PROVE IInv'
<1>. DEFINE U == Unmounted(t, flight)
            w == [Blank EXCEPT !.loading = TRUE]
            x == [Blank EXCEPT !.error = TRUE]
            page == "history"
<1>1. /\ currentPage[t] = "solve" /\ currentPage' = [currentPage EXCEPT ![t] = page]
      /\ last' = [last EXCEPT ![t] = None] /\ FetchHistory(t, Blank, U)
      /\ UNCHANGED <<now, jarVars, authenticated, ghostVars>>
  BY DEF ClickHistory
<1>2. TypeOK
  BY DEF IInv
<1>3. /\ U \in SUBSET Call
      /\ \A b \in U : b.id <= sent[b.tab]
      /\ \A b, d \in U : b.tab = d.tab /\ b.id = d.id => b = d
      /\ \A b \in U : b.tab # t => b \in flight
      /\ \A b \in U : b.tab = t => b.kind = "form" /\ ~b.mounted /\ DataOK(b)
  BY UnmountedFacts
<1>4. /\ JarOK' /\ token' \in Token \cup {None} /\ tokenUntil' \in Nat /\ activeUntil' \in Nat
      /\ held' \in [Tabs -> SUBSET Users] /\ loggedOut' \in BOOLEAN /\ UNCHANGED <<now, held>>
  BY <1>1, JarKept
<1>5. /\ page \in Pages /\ page \notin Forms
      /\ currentPage' \in [Tabs -> Pages] /\ authenticated' \in [Tabs -> BOOLEAN]
      /\ \A q \in Tabs : authenticated'[q] <=> currentPage'[q] \notin Forms
  BY <1>1, <1>2 DEF TypeOK, Pages, Forms
<1>6. \A q \in Tabs : q # t => held'[q] = held[q]
  BY <1>4
<1>. HIDE DEF U
<1>7. CASE IsAuthenticated /\ Send(t, "history", None, U) /\ SetView(t, w)
  <2>1. PICK e \in Call :
           /\ e.tab = t /\ e.kind = "history" /\ e.mounted
           /\ e.stage = "sent" /\ e.token = CookieSent /\ e.data = None
           /\ flight' = U \cup {e}
           /\ flight' \subseteq Call
           /\ sent' \in [Tabs -> Nat] /\ \A q \in Tabs : sent'[q] <= MaxCalls[q]
           /\ \A b \in flight' : b.id <= sent'[b.tab]
           /\ \A b, f \in flight' : b.tab = f.tab /\ b.id = f.id => b = f
    BY <1>2, <1>3, <1>7, SendType
  <2>2. e.token \in Token /\ e.token.user \in held'[t]
    BY <1>4, <1>7, <2>1, CookieFacts
  <2>3. TypeOK'
    <3>1. view' \in [Tabs -> View] /\ last' \in [Tabs -> Problems \cup {None}]
      BY <1>1, <1>2, <1>7, BlankWith DEF TypeOK, SetView
    <3>. QED
      BY <1>2, <1>4, <1>5, <2>1, <3>1 DEF TypeOK
  <2>4. /\ \A b \in flight' : b.tab # t => b \in flight
        /\ \A b \in flight' : b.tab = t /\ b.kind = "form" => ~b.mounted /\ DataOK(b)
        /\ \A b \in flight' : b.tab = t /\ b.kind # "form" => b = e
    BY <1>3, <2>1
  <2>5. \A b \in flight' : b.tab = t /\ b.kind # "form" => OwnerOK(b)' /\ DataOK(b)'
    <3>1. currentPage'[t] = "history" /\ view'[t].loading
      BY <1>1, <1>2, <1>7, BlankWith DEF TypeOK, SetView
    <3>2. OwnerOK(e)' /\ DataOK(e)'
      BY <2>1, <2>2, <3>1 DEF OwnerOK, DataOK
    <3>. QED
      BY <2>4, <3>2
  <2>6. \A b, d \in flight' : b.tab = t /\ b.kind # "form" /\ d.tab = t /\ d.kind # "form" => b = d
    BY <2>4
  <2>7. w \in View /\ w.answer = None /\ w.history = None
    BY BlankWith
  <2>8. page = "solve" => ~w.loading
    OBVIOUS
  <2>. HIDE DEF w, page
  <2>. QED
    BY ONLY IInv, t \in Tabs, <1>1, <1>4, <1>5, <1>6, <1>7, <2>3, <2>4, <2>5, <2>6, <2>7, <2>8,
            LeaveStep
<1>8. CASE flight' = U /\ SetView(t, x) /\ UNCHANGED sent
  <2>1. TypeOK'
    <3>1. view' \in [Tabs -> View] /\ last' \in [Tabs -> Problems \cup {None}]
      BY <1>1, <1>2, <1>8, BlankWith DEF TypeOK, SetView
    <3>. QED
      BY <1>2, <1>3, <1>4, <1>5, <1>8, <3>1 DEF TypeOK
  <2>2. /\ \A b \in flight' : b.tab # t => b \in flight
        /\ \A b \in flight' : b.tab = t /\ b.kind = "form" => ~b.mounted /\ DataOK(b)
        /\ \A b \in flight' : ~(b.tab = t /\ b.kind # "form")
    BY <1>3, <1>8
  <2>3. x \in View /\ x.answer = None /\ x.history = None
    BY BlankWith
  <2>4. page = "solve" => ~x.loading
    OBVIOUS
  <2>5. \A b \in flight' : b.tab = t /\ b.kind # "form" => OwnerOK(b)' /\ DataOK(b)'
    BY <2>2
  <2>6. \A b, d \in flight' : b.tab = t /\ b.kind # "form" /\ d.tab = t /\ d.kind # "form" => b = d
    BY <2>2
  <2>. HIDE DEF x, page
  <2>. QED
    BY ONLY IInv, t \in Tabs, <1>1, <1>4, <1>5, <1>6, <1>8, <2>1, <2>2, <2>3, <2>4, <2>5, <2>6,
            LeaveStep
<1>. QED
  BY <1>1, <1>7, <1>8 DEF FetchHistory, U

LEMMA TimeStep == ASSUME IInv, Tick \/ UNCHANGED vars PROVE IInv'
<1>1. UNCHANGED <<jarVars, appVars, view, flight, sent, last, ghostVars>> /\ now' \in 0..MaxTime /\ now <= now'
  BY DEF IInv, TypeOK, Tick, vars
<1>2. TypeOK'
  BY <1>1 DEF IInv, TypeOK, jarVars, appVars, ghostVars
<1>3. JarOK'
  <2>1. now' < activeUntil' => now < activeUntil
    BY <1>1 DEF IInv, TypeOK, jarVars
  <2>. QED
    BY <1>1, <2>1 DEF IInv, JarOK, IsAuthenticated, jarVars, ghostVars
<1>4. OnePageCall' /\ \A b \in flight' : OwnerOK(b)' /\ DataOK(b)'
  BY <1>1 DEF IInv, OnePageCall, OwnerOK, DataOK, appVars, ghostVars
<1>5. \A t \in Tabs : TabOK(t)'
  BY <1>1 DEF IInv, TabOK, appVars, ghostVars
<1>. QED
  BY <1>2, <1>3, <1>4, <1>5 DEF IInv

LEMMA IInvStep == IInv /\ [Next]_vars => IInv'
<1>. SUFFICES ASSUME IInv, [Next]_vars PROVE IInv'
  OBVIOUS
<1>1. ASSUME NEW t \in Tabs,
             \/ ClickForm(t) \/ ClickSolver(t) \/ ClickHistory(t)
             \/ HandleLogout(t) \/ Reload(t)
             \/ HandleSubmit(t) \/ HandleSolve(t) \/ Refresh(t)
      PROVE  IInv'
  BY <1>1, ClickStep, ClickHistoryStep, LogoutStep, ReloadStep, SubmitStep, SolveStep, RefreshStep
<1>2. ASSUME NEW c \in flight, Proceed(c) PROVE IInv'
  BY <1>2, AnswerStep, FailStep, ArriveStep, LoginSuccessStep, ShowAnswerStep, ShowErrorStep DEF Proceed
<1>. QED
  BY <1>1, <1>2, TimeStep DEF Next

LEMMA IInvCorrect == Spec => []IInv
BY IInvInit, IInvStep, PTL DEF Spec

-----------------------------------------------------------------------------
(* The properties *)

\* Every variable keeps its type.
THEOREM TypeCorrect == Spec => []TypeOK
<1>1. IInv => TypeOK
  BY DEF IInv
<1>. QED
  BY <1>1, IInvCorrect, PTL

\* A session cookie without a token and a call without one do not occur.
THEOREM CallsCarryTokenCorrect == Spec => []CallsCarryToken
<1>1. IInv => CallsCarryToken
  <2>. SUFFICES ASSUME IInv PROVE CallsCarryToken
    OBVIOUS
  <2>1. \A k \in Token : k # None
    BY DEF Token
  <2>2. IsAuthenticated => CookieSent # None
    BY <2>1, CookieFacts
  <2>3. \A c \in flight : c.kind # "form" /\ c.stage = "sent" => c.token # None
    BY <2>1 DEF IInv, DataOK
  <2>. QED
    BY <2>2, <2>3 DEF CallsCarryToken
<1>. QED
  BY <1>1, IInvCorrect, PTL

\* An answer on the solver page is that of the last problem submitted there.
THEOREM AnswerOfLastCorrect == Spec => []AnswerOfLast
<1>1. IInv => AnswerOfLast
  BY DEF IInv, AnswerOfLast, TabOK
<1>. QED
  BY <1>1, IInvCorrect, PTL

\* A history page never shows items from before a logout or a load of its tab.
THEOREM HistoryOfHolderCorrect == Spec => []HistoryOfHolder
<1>1. IInv => HistoryOfHolder
  BY DEF IInv, HistoryOfHolder, TabOK
<1>. QED
  BY <1>1, IInvCorrect, PTL

\* In no step does a call of a page appear unless there is a session.
LEMMA NewCalls ==
    ASSUME IInv, [Next]_vars, ~IsAuthenticated,
           NEW c \in flight', c.id > sent[c.tab]
    PROVE  c.kind = "form"
<1>1. /\ flight \subseteq Call /\ \A b \in flight : b.id <= sent[b.tab]
      /\ sent \in [Tabs -> Nat] /\ TypeOK /\ \A b \in flight : b.id \in Nat /\ b.tab \in Tabs
  BY DEF IInv, TypeOK, Call
<1>2. c \notin flight
  BY <1>1
<1>3. ASSUME NEW t \in Tabs, NEW calls \in SUBSET flight, c \in Unmounted(t, calls) PROVE FALSE
  <2>1. c \in Call /\ c.id <= sent[c.tab]
    BY <1>3, UnmountedFacts
  <2>. QED
    BY <1>1, <2>1 DEF Call
<1>4. ASSUME NEW b \in flight, NEW s \in {"answered", "arrived", "failed"},
             NEW d \in Token \cup Users \cup Problems \cup {None}, Move(b, s, d), UNCHANGED sent
      PROVE  FALSE
  <2>1. PICK e \in Call : e.id = b.id /\ e.tab = b.tab /\ flight' = (flight \ {b}) \cup {e}
    BY <1>1, <1>4, MoveType
  <2>. QED
    BY <1>1, <1>2, <2>1
<1>5. CASE flight' \subseteq flight
  BY <1>2, <1>5
<1>6. ASSUME NEW t \in Tabs, NEW auth, NEW page, NEW calls \in SUBSET flight,
             Show(t, auth, page, calls)
      PROVE  FALSE
  BY <1>2, <1>3, <1>6 DEF Show
<1>7. ASSUME NEW t \in Tabs, NEW k, NEW d, Send(t, k, d, flight) PROVE c.kind = k
  <2>1. c = NewCall(t, k, d)
    BY <1>2, <1>7 DEF Send
  <2>. QED
    BY <2>1 DEF NewCall
<1>8. ASSUME NEW t \in Tabs, ClickForm(t) \/ ClickSolver(t) \/ HandleLogout(t) PROVE c.kind = "form"
  <2>1. flight \in SUBSET flight
    OBVIOUS
  <2>. QED
    BY <1>6, <1>8, <2>1 DEF ClickForm, ClickSolver, HandleLogout
<1>9. ASSUME NEW t \in Tabs, ClickHistory(t) PROVE c.kind = "form"
  <2>1. flight' = Unmounted(t, flight) /\ flight \in SUBSET flight
    BY <1>9 DEF ClickHistory, FetchHistory
  <2>. QED
    BY <1>3, <2>1
<1>10. ASSUME NEW t \in Tabs, Refresh(t) \/ HandleSolve(t) \/ Reload(t) PROVE c.kind = "form"
  <2>1. flight' \subseteq flight
    BY <1>10 DEF Refresh, FetchHistory, HandleSolve, Reload
  <2>. QED
    BY <1>5, <2>1
<1>11. ASSUME NEW t \in Tabs, HandleSubmit(t) PROVE c.kind = "form"
  <2>1. CASE flight' = flight
    BY <1>5, <2>1
  <2>2. ASSUME NEW u \in Accounts[t], Send(t, "form", u, flight) PROVE c.kind = "form"
    BY <1>7, <2>2
  <2>. QED
    BY <1>11, <2>1, <2>2 DEF HandleSubmit
<1>12. ASSUME NEW b \in flight, Proceed(b) PROVE c.kind = "form"
  <2>1. b \in Call /\ DataOK(b) /\ b.tab \in Tabs
    BY <1>1 DEF IInv
  <2>2. CASE Answer(b)
    <3>1. UNCHANGED sent
      BY <2>2 DEF Answer
    <3>2. CASE b.kind = "form" /\ Move(b, "answered", [user |-> b.data, exp |-> now + TokenLife])
      <4>1. [user |-> b.data, exp |-> now + TokenLife] \in Token
        BY <1>1, <2>1, <2>2, <3>2 DEF Answer, TypeOK, DataOK, Token
      <4>. QED
        BY <1>4, <3>1, <3>2, <4>1
    <3>3. CASE Move(b, "answered", b.data)
      <4>1. b.data \in Token \cup Users \cup Problems \cup {None}
        BY <2>1 DEF Call
      <4>. QED
        BY <1>4, <3>1, <3>3, <4>1
    <3>4. ASSUME NEW o \in {b.token.user, None}, b.kind = "history", Move(b, "answered", o)
          PROVE  FALSE
      <4>1. o \in Users \cup {None}
        BY <2>1, <2>2, <3>4 DEF Answer, DataOK, Token
      <4>. QED
        BY <1>4, <3>1, <3>4, <4>1
    <3>. QED
      BY <2>2, <3>2, <3>3, <3>4 DEF Answer
  <2>3. CASE Fail(b)
    BY <1>4, <2>3 DEF Fail
  <2>4. CASE Arrive(b)
    <3>1. b.data \in Token \cup Users \cup Problems \cup {None}
      BY <2>1 DEF Call
    <3>. QED
      BY <1>4, <2>4, <3>1 DEF Arrive
  <2>5. CASE HandleLoginSuccess(b)
    <3>1. flight \ {b} \in SUBSET flight
      OBVIOUS
    <3>. QED
      BY <1>6, <2>1, <2>5, <3>1 DEF HandleLoginSuccess
  <2>6. CASE ShowAnswer(b) \/ ShowError(b)
    BY <1>5, <2>6 DEF ShowAnswer, ShowError
  <2>. QED
    BY <1>12, <2>2, <2>3, <2>4, <2>5, <2>6 DEF Proceed
<1>13. CASE Tick \/ UNCHANGED vars
  BY <1>5, <1>13 DEF Tick, vars
<1>. QED
  BY <1>8, <1>9, <1>10, <1>11, <1>12, <1>13 DEF Next

\* After a logout no tab sends a call for the user it was until somebody logs in.
THEOREM LogoutHoldsCorrect == Spec => LogoutHolds
<1>1. ASSUME IInv, [Next]_vars
      PROVE  [loggedOut => \A c \in flight' : c.id > sent[c.tab] => c.kind = "form"]_vars
  <2>1. loggedOut => ~IsAuthenticated
    BY <1>1 DEF IInv, JarOK
  <2>. QED
    BY <1>1, <2>1, NewCalls
<1>. QED
  BY <1>1, IInvCorrect, PTL DEF Spec, LogoutHolds

-----------------------------------------------------------------------------
(* No page waits for nothing: what LoadingEnds needs beyond fairness *)

\* A call of the page of t, which answers, fails or is shown in steps of its own.
Awaited(t) == \E c \in flight : c.tab = t /\ c.kind # "form"

\* A page says that it is loading (SolverPage.jsx:25, HistoryPage.jsx:21) exactly
\* while a call of it is in flight.
LoadingAwaited == \A t \in Tabs : view[t].loading <=> Awaited(t)

LoadingOwned == \A t \in Tabs : view[t].loading => Awaited(t)

LEMMA AwaitedLoads == ASSUME IInv, LoadingOwned PROVE LoadingAwaited
BY DEF IInv, OwnerOK, LoadingOwned, LoadingAwaited, Awaited

LEMMA MoveAwaits ==
    ASSUME IInv, NEW c \in flight, NEW s, NEW d, Move(c, s, d), LoadingOwned, UNCHANGED view
    PROVE  LoadingOwned'
<1>. DEFINE e == [c EXCEPT !.stage = s, !.token = None, !.data = d]
<1>1. flight' = (flight \ {c}) \cup {e}
  BY DEF Move
<1>2. e.tab = c.tab /\ e.kind = c.kind
  <2>1. c \in Call
    BY DEF IInv, TypeOK
  <2>. QED
    BY <2>1 DEF Call
<1>. HIDE DEF e
<1>3. \A t \in Tabs : Awaited(t) => Awaited(t)'
  BY <1>1, <1>2 DEF Awaited
<1>. QED
  BY <1>3 DEF LoadingOwned

\* One page becomes v, with a call of its own or not loading; the others keep theirs.
LEMMA PageAwaits ==
    ASSUME IInv, LoadingOwned, NEW t \in Tabs, NEW v, SetView(t, v),
           v.loading => Awaited(t)',
           \A b \in flight : b.tab # t => b \in flight'
    PROVE  LoadingOwned'
<1>1. view'[t] = v /\ \A q \in Tabs : q # t => view'[q] = view[q]
  BY DEF SetView, IInv, TypeOK
<1>2. \A q \in Tabs : q # t /\ Awaited(q) => Awaited(q)'
  BY DEF Awaited
<1>. QED
  BY <1>1, <1>2 DEF LoadingOwned

LEMMA ShowAwaits ==
    ASSUME IInv, LoadingOwned, NEW t \in Tabs, NEW auth, NEW page, NEW calls \in SUBSET flight,
           \A b \in flight : b.kind # "form" => b \in calls,
           Show(t, auth, page, calls)
    PROVE  LoadingOwned'
<1>1. CASE flight' = calls /\ UNCHANGED view
  <2>1. \A q \in Tabs : Awaited(q) => Awaited(q)'
    BY <1>1 DEF Awaited
  <2>. QED
    BY <1>1, <2>1 DEF LoadingOwned
<1>2. CASE flight' = Unmounted(t, calls) /\ SetView(t, Blank)
  <2>1. view'[t] = Blank /\ \A q \in Tabs : q # t => view'[q] = view[q]
    BY <1>2 DEF SetView, IInv, TypeOK
  <2>2. \A q \in Tabs : q # t /\ Awaited(q) => Awaited(q)'
    BY <1>2 DEF Awaited, Unmounted
  <2>. QED
    BY <2>1, <2>2, BlankFacts DEF LoadingOwned
<1>. QED
  BY <1>1, <1>2 DEF Show

\* What is sent is awaited.
LEMMA SendAwaits ==
    ASSUME NEW t \in Tabs, NEW k \in {"solve", "history"}, NEW d, NEW others, Send(t, k, d, others)
    PROVE  Awaited(t)'
<1>1. NewCall(t, k, d) \in flight'
  BY DEF Send
<1>2. NewCall(t, k, d).tab = t /\ NewCall(t, k, d).kind # "form"
  BY DEF NewCall
<1>. QED
  BY <1>1, <1>2 DEF Awaited

LEMMA FetchAwaits ==
    ASSUME IInv, LoadingOwned, NEW t \in Tabs, NEW v \in View, ~v.loading, NEW others,
           \A b \in flight : b.tab # t => b \in others,
           FetchHistory(t, v, others)
    PROVE  LoadingOwned'
<1>1. CASE Send(t, "history", None, others) /\ SetView(t, [v EXCEPT !.loading = TRUE])
  <2>1. Awaited(t)' /\ \A b \in flight : b.tab # t => b \in flight'
    BY <1>1, SendAwaits DEF Send
  <2>. QED
    BY <1>1, <2>1, PageAwaits
<1>2. CASE flight' = others /\ SetView(t, [v EXCEPT !.error = TRUE])
  <2>1. [v EXCEPT !.error = TRUE].loading = v.loading
    BY DEF View
  <2>. QED
    BY <1>2, <2>1, PageAwaits
<1>. QED
  BY <1>1, <1>2 DEF FetchHistory

LEMMA LoadingOwnedStep == IInv /\ LoadingOwned /\ [Next]_vars => LoadingOwned'
<1>. SUFFICES ASSUME IInv, LoadingOwned, [Next]_vars PROVE LoadingOwned'
  OBVIOUS
<1>1. ASSUME NEW t \in Tabs, ClickForm(t) \/ ClickSolver(t) \/ HandleLogout(t)
      PROVE  LoadingOwned'
  BY <1>1, ShowAwaits DEF ClickForm, ClickSolver, HandleLogout
<1>2. ASSUME NEW t \in Tabs, ClickHistory(t) PROVE LoadingOwned'
  <2>1. \A b \in flight : b.tab # t => b \in Unmounted(t, flight)
    BY DEF Unmounted
  <2>. QED
    BY <1>2, <2>1, BlankFacts, FetchAwaits DEF ClickHistory
<1>3. ASSUME NEW t \in Tabs, Reload(t) PROVE LoadingOwned'
  <2>1. SetView(t, Blank) /\ \A b \in flight : b.tab # t => b \in flight'
    BY <1>3 DEF Reload
  <2>. QED
    BY <2>1, BlankFacts, PageAwaits
<1>4. ASSUME NEW t \in Tabs, HandleSubmit(t) PROVE LoadingOwned'
  <2>1. /\ SetView(t, Blank) \/ SetView(t, [Blank EXCEPT !.error = TRUE])
        /\ \A b \in flight : b \in flight'
    BY <1>4 DEF HandleSubmit, Send
  <2>. QED
    BY <2>1, BlankFacts, BlankWith, PageAwaits
<1>5. ASSUME NEW t \in Tabs, HandleSolve(t) PROVE LoadingOwned'
  <2>1. /\ \/ SetView(t, [Blank EXCEPT !.error = TRUE])
           \/ SetView(t, [Blank EXCEPT !.loading = TRUE]) /\ Awaited(t)'
        /\ \A b \in flight : b \in flight'
    <3>1. CASE flight' = flight /\ SetView(t, [Blank EXCEPT !.error = TRUE])
      BY <3>1
    <3>2. ASSUME NEW p \in Problems, Send(t, "solve", p, flight),
                 SetView(t, [Blank EXCEPT !.loading = TRUE])
          PROVE  Awaited(t)' /\ \A b \in flight : b \in flight'
      BY <3>2, SendAwaits DEF Send
    <3>. QED
      BY <1>5, <3>1, <3>2 DEF HandleSolve
  <2>. QED
    BY <2>1, BlankWith, PageAwaits
<1>6. ASSUME NEW t \in Tabs, Refresh(t) PROVE LoadingOwned'
  <2>1. view[t] \in View /\ ~view[t].loading
    BY <1>6 DEF Refresh, IInv, TypeOK
  <2>. QED
    BY <1>6, <2>1, FetchAwaits DEF Refresh
<1>7. ASSUME NEW c \in flight, Answer(c) \/ Fail(c) \/ Arrive(c) PROVE LoadingOwned'
  BY <1>7, MoveAwaits DEF Answer, Fail, Arrive
<1>8. ASSUME NEW c \in flight, HandleLoginSuccess(c) PROVE LoadingOwned'
  <2>1. /\ c.tab \in Tabs /\ flight \ {c} \in SUBSET flight
        /\ \A b \in flight : b.kind # "form" => b \in flight \ {c}
    BY <1>8 DEF HandleLoginSuccess, IInv, TypeOK, Call
  <2>. QED
    BY <1>8, <2>1, ShowAwaits DEF HandleLoginSuccess
<1>9. ASSUME NEW c \in flight, ShowAnswer(c) \/ ShowError(c) PROVE LoadingOwned'
  <2>1. /\ c.tab \in Tabs /\ view[c.tab] \in View /\ flight' = flight \ {c}
        /\ c.kind # "form" => c.mounted
    BY <1>9 DEF ShowAnswer, ShowError, IInv, TypeOK, Call, OwnerOK
  <2>2. CASE c.mounted
    <3>1. /\ ViewWith(view[c.tab], c).loading = FALSE
          /\ ViewFailed(view[c.tab]).loading = FALSE
      BY <2>1 DEF ViewWith, ViewFailed, View
    <3>2. \E v : SetView(c.tab, v) /\ v.loading = FALSE
      BY <1>9, <2>2, <3>1 DEF ShowAnswer, ShowError
    <3>. QED
      BY <2>1, <3>2, PageAwaits
  <2>3. CASE ~c.mounted
    <3>1. UNCHANGED view /\ c.kind = "form"
      BY <1>9, <2>1, <2>3 DEF ShowAnswer, ShowError
    <3>2. \A q \in Tabs : Awaited(q) => Awaited(q)'
      BY <2>1, <3>1 DEF Awaited
    <3>. QED
      BY <3>1, <3>2 DEF LoadingOwned
  <2>. QED
    BY <2>2, <2>3
<1>10. CASE Tick \/ UNCHANGED vars
  BY <1>10 DEF Tick, vars, LoadingOwned, Awaited
<1>. QED
  BY <1>1, <1>2, <1>3, <1>4, <1>5, <1>6, <1>7, <1>8, <1>9, <1>10 DEF Next, Proceed

\* Through page changes, logouts and failures no page is left loading without a call,
\* and no page stops loading while its call is out.
THEOREM LoadingAwaitedCorrect == Spec => []LoadingAwaited
<1>1. Init => LoadingOwned
  BY BlankFacts DEF Init, LoadingOwned
<1>2. IInv /\ LoadingOwned => LoadingAwaited
  BY AwaitedLoads
<1>. QED
  BY <1>1, <1>2, IInvCorrect, LoadingOwnedStep, PTL DEF Spec
=============================================================================
