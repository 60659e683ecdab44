--------------------------------- MODULE Solver ---------------------------------
(***************************************************************************)
(* SolveMath (web-server/solver.go): the checks of the problem, the        *)
(* goroutine that evaluates it, its two channels, the one-second timeout   *)
(* and the conversion of the result to an int, for several calls at once.  *)
(*                                                                         *)
(* A problem is the sequence of the classes of its characters.  govaluate  *)
(* is external: parsing accepts or rejects, an evaluation takes any time   *)
(* and ends in a value, an error or a panic.  A float64 is counted in      *)
(* halves; an infinity or NaN converts like a value out of range.          *)
(***************************************************************************)
EXTENDS Integers, Sequences, FiniteSets

CONSTANTS Calls,             \* calls of SolveMath
          Problems,          \* what each call may be asked
          Values,            \* float64 results, in halves
          IntMax,            \* the largest int: 2^63 - 1 where the service is built
          MaxProblemLength, MaxOperatorCount, MaxNestingDepth, MaxNumberLength

Classes == {"operator", "open", "close", "digit", "other"}

ASSUME ProblemAssumption == Problems \in [Calls -> SUBSET Seq(Classes)]
ASSUME ValueAssumption == Values \subseteq Int /\ IntMax \in Nat
ASSUME LimitAssumption == {MaxProblemLength, MaxOperatorCount,
                           MaxNestingDepth, MaxNumberLength} \subseteq Nat

VARIABLES
    problem,     \* each call's argument
    call,        \* each call: "idle", "waiting" in the select, "returned"
    answer,      \* what it returned
    goroutine,   \* its goroutine: "none", "evaluating", "sending", "ended"
    product,     \* what the evaluation came to
    resultChan, errChan,
    timer        \* its context: "none", "armed", "fired", "stopped"

vars == <<problem, call, answer, goroutine, product, resultChan, errChan, timer>>

-----------------------------------------------------------------------------
(* Results and answers *)

\* Dynamic types of a result: a string is a numeral strconv.Atoi reads or a word.
Product == [type : {"float64"}, halves : Values]
           \cup [type : {"numeral"}, halves : {h \in Values : h % 2 = 0}]
           \cup [type : {"none", "word", "bool", "nil", "error", "panic"}, halves : {0}]

Outcome(type) == [type |-> type, halves |-> 0]

IntMin == -IntMax - 1

Answer == [kind : {"none", "refused", "invalid", "timeout", "failed",
                   "not a number", "unexpected type"},
           value : {0}]
          \cup [kind : {"number"}, value : IntMin..IntMax]

Refusal(kind) == [kind |-> kind, value |-> 0]

Truncated == [h \in Values |-> IF h >= 0 THEN h \div 2 ELSE -((-h) \div 2)]

InRange == {h \in Values : Truncated[h] \in IntMin..IntMax}

RoundedDown(h) == h \div 2

IntsOfRoundedDown(h) ==
    IF RoundedDown(h) \in IntMin..IntMax THEN {RoundedDown(h)} ELSE {IntMin, IntMax, 0}

IntsOfUnbounded(h) == {Truncated[h]}

\* int(v): towards zero; out of range amd64 gives IntMin, arm64 the nearer end or 0.
IntsOf(h) ==
    IF h \in InRange THEN {Truncated[h]} ELSE {IntMin, IntMax, 0}

\* The type switch on what came out of resultChan.
Converted(p) ==
    CASE p.type = "float64" -> [kind : {"number"}, value : IntsOf(p.halves)]
      [] p.type = "numeral" /\ p.halves \in InRange -> [kind : {"number"}, value : {Truncated[p.halves]}]
      [] p.type = "numeral" /\ p.halves \notin InRange -> {Refusal("not a number")}
      [] p.type = "word" -> {Refusal("not a number")}
      [] OTHER -> {Refusal("unexpected type")}

-----------------------------------------------------------------------------
(* validateComplexity *)

Count(p, class) == Cardinality({i \in 1..Len(p) : p[i] = class})

\* depth after each character
Depths(p) ==
    LET depth[i \in 0..Len(p)] ==
            IF i = 0 THEN 0
            ELSE depth[i-1] + (CASE p[i] = "open" -> 1 [] p[i] = "close" -> -1 [] OTHER -> 0)
    IN  depth

\* currentNumberLength after each character
NumberLengthsNoReset(p) ==
    LET length[i \in 0..Len(p)] ==
            IF i = 0 THEN 0 ELSE length[i-1] + (IF p[i] = "digit" THEN 1 ELSE 0)
    IN  length

NumberLengths(p) ==
    LET length[i \in 0..Len(p)] ==
            IF i = 0 \/ p[i] # "digit" THEN 0 ELSE length[i-1] + 1
    IN  length

ValidateComplexity(p) ==
    /\ Count(p, "operator") <= MaxOperatorCount
    /\ \A i \in 0..Len(p) : Depths(p)[i] <= MaxNestingDepth
    /\ \A i \in 0..Len(p) : NumberLengths(p)[i] <= MaxNumberLength

-----------------------------------------------------------------------------
TypeOK ==
    /\ \A c \in Calls : problem[c] \in Problems[c]
    /\ call \in [Calls -> {"idle", "waiting", "returned"}]
    /\ answer \in [Calls -> Answer]
    /\ goroutine \in [Calls -> {"none", "evaluating", "sending", "ended"}]
    /\ product \in [Calls -> Product]
    /\ resultChan \in [Calls -> Seq(Product)]
    /\ errChan \in [Calls -> Seq({"error", "panic"})]
    /\ timer \in [Calls -> {"none", "armed", "fired", "stopped"}]

Init ==
    /\ problem \in [Calls -> UNION {Problems[c] : c \in Calls}]
    /\ \A c \in Calls : problem[c] \in Problems[c]
    /\ call = [c \in Calls |-> "idle"]
    /\ answer = [c \in Calls |-> Refusal("none")]
    /\ goroutine = [c \in Calls |-> "none"]
    /\ product = [c \in Calls |-> Outcome("none")]
    /\ resultChan = [c \in Calls |-> <<>>]
    /\ errChan = [c \in Calls |-> <<>>]
    /\ timer = [c \in Calls |-> "none"]

Accepted(p) == p # <<>> /\ Len(p) <= MaxProblemLength /\ ValidateComplexity(p)

Return(c, a) ==
    /\ call' = [call EXCEPT ![c] = "returned"]
    /\ answer' = [answer EXCEPT ![c] = a]

\* Empty, too long or too complex.
RefuseProblem(c) ==
    /\ call[c] = "idle"
    /\ ~Accepted(problem[c])
    /\ Return(c, Refusal("refused"))
    /\ UNCHANGED <<problem, goroutine, product, resultChan, errChan, timer>>

\* govaluate.NewEvaluableExpression rejects it.
RefuseExpression(c) ==
    /\ call[c] = "idle"
    /\ Accepted(problem[c])
    /\ Return(c, Refusal("invalid"))
    /\ UNCHANGED <<problem, goroutine, product, resultChan, errChan, timer>>

\* A context with a deadline, two channels and a goroutine.
Start(c) ==
    /\ call[c] = "idle"
    /\ Accepted(problem[c])
    /\ call' = [call EXCEPT ![c] = "waiting"]
    /\ timer' = [timer EXCEPT ![c] = "armed"]
    /\ goroutine' = [goroutine EXCEPT ![c] = "evaluating"]
    /\ UNCHANGED <<problem, answer, product, resultChan, errChan>>

-----------------------------------------------------------------------------
(* The goroutine *)

EvaluateUnrecovered(c) ==
    /\ goroutine[c] = "evaluating"
    /\ \E p \in Product \ {Outcome("none"), Outcome("nil")} :
          /\ product' = [product EXCEPT ![c] = p]
          /\ IF p.type = "panic"
             THEN /\ goroutine' = [d \in Calls |-> "none"]
                  /\ timer' = [d \in Calls |-> "none"]
             ELSE /\ goroutine' = [goroutine EXCEPT ![c] = "sending"]
                  /\ UNCHANGED timer
    /\ UNCHANGED <<problem, call, answer, resultChan, errChan>>

\* expression.Evaluate returns a value or an error, or panics and is recovered.
Evaluate(c) ==
    /\ goroutine[c] = "evaluating"
    /\ \E p \in Product \ {Outcome("none"), Outcome("nil")} :
          product' = [product EXCEPT ![c] = p]
    /\ goroutine' = [goroutine EXCEPT ![c] = "sending"]
    /\ UNCHANGED <<problem, call, answer, resultChan, errChan, timer>>

\* Both channels are made with room for one message.
RoomUnbuffered(c, chan) == call[c] = "waiting" /\ Len(chan) = 0
Room(c, chan) == Len(chan) < 1

SendErrorAndGoOn(c) ==
    /\ goroutine[c] = "sending"
    /\ product[c].type \in {"error", "panic"}
    /\ Room(c, errChan[c])
    /\ errChan' = [errChan EXCEPT ![c] = Append(@, product[c].type)]
    /\ resultChan' = [resultChan EXCEPT ![c] = Append(@, Outcome("nil"))]
    /\ goroutine' = [goroutine EXCEPT ![c] = "ended"]
    /\ UNCHANGED <<problem, call, answer, product, timer>>

\* errChan <- err, after an error or in the deferred recover.
SendError(c) ==
    /\ goroutine[c] = "sending"
    /\ product[c].type \in {"error", "panic"}
    /\ Room(c, errChan[c])
    /\ errChan' = [errChan EXCEPT ![c] = Append(@, product[c].type)]
    /\ goroutine' = [goroutine EXCEPT ![c] = "ended"]
    /\ UNCHANGED <<problem, call, answer, product, resultChan, timer>>

\* resultChan <- result
SendResult(c) ==
    /\ goroutine[c] = "sending"
    /\ product[c].type \notin {"error", "panic"}
    /\ Room(c, resultChan[c])
    /\ resultChan' = [resultChan EXCEPT ![c] = Append(@, product[c])]
    /\ goroutine' = [goroutine EXCEPT ![c] = "ended"]
    /\ UNCHANGED <<problem, call, answer, product, errChan, timer>>

-----------------------------------------------------------------------------
(* The deadline and the select; of several ready cases any may be taken *)

Expire(c) ==
    /\ timer[c] = "armed"
    /\ timer' = [timer EXCEPT ![c] = "fired"]
    /\ UNCHANGED <<problem, call, answer, goroutine, product, resultChan, errChan>>

\* defer cancel()
Cancel(c) == timer' = [timer EXCEPT ![c] = "stopped"]

ReturnTimeout(c) ==
    /\ call[c] = "waiting"
    /\ timer[c] = "fired"
    /\ Return(c, Refusal("timeout"))
    /\ Cancel(c)
    /\ UNCHANGED <<problem, goroutine, product, resultChan, errChan>>

ReturnError(c) ==
    /\ call[c] = "waiting"
    /\ errChan[c] # <<>>
    /\ errChan' = [errChan EXCEPT ![c] = Tail(@)]
    /\ Return(c, Refusal("failed"))
    /\ Cancel(c)
    /\ UNCHANGED <<problem, goroutine, product, resultChan>>

ReturnResult(c) ==
    /\ call[c] = "waiting"
    /\ resultChan[c] # <<>>
    /\ resultChan' = [resultChan EXCEPT ![c] = Tail(@)]
    /\ \E a \in Converted(Head(resultChan[c])) : Return(c, a)
    /\ Cancel(c)
    /\ UNCHANGED <<problem, goroutine, product, errChan>>

-----------------------------------------------------------------------------
Send(c) == SendError(c) \/ SendResult(c)
Select(c) == ReturnTimeout(c) \/ ReturnError(c) \/ ReturnResult(c)

Next == \E c \in Calls :
            \/ RefuseProblem(c) \/ RefuseExpression(c) \/ Start(c)
            \/ Evaluate(c) \/ Send(c) \/ Expire(c) \/ Select(c)

Spec == Init /\ [][Next]_vars

\* The scheduler runs goroutines and timers; an evaluation may take for ever.
FairSpec == Spec /\ \A c \in Calls : WF_vars(Send(c)) /\ WF_vars(Expire(c)) /\ WF_vars(Select(c))

-----------------------------------------------------------------------------
(* Properties *)

\* What the limits of solver.go:17 say, without counting along the problem.
WithinLimits(p) ==
    LET Among(i, j, class) == Cardinality({k \in i..j : p[k] = class})
    IN  /\ Len(p) \in 1..MaxProblemLength
        /\ Among(1, Len(p), "operator") <= MaxOperatorCount
        /\ \A n \in 1..Len(p) :
              Among(1, n, "open") - Among(1, n, "close") <= MaxNestingDepth
        /\ \A i \in 1..Len(p) : \A j \in i..Len(p) :
              Among(i, j, "digit") = j - i + 1 => j - i + 1 <= MaxNumberLength

\* A problem is refused before parsing exactly when it exceeds a limit
\* (validateComplexity, solver.go:30, and the length checks of SolveMath).
LimitsEnforced ==
    \A c \in Calls :
        call[c] # "idle" => (answer[c].kind = "refused" <=> ~WithinLimits(problem[c]))

Taken(c) == answer[c].kind \notin {"none", "refused", "invalid", "timeout"}

\* One evaluation delivers one message: until the caller takes it, if it ever
\* does, it waits in one of the channels (solver.go:180).
OneMessage ==
    \A c \in Calls :
        Len(resultChan[c]) + Len(errChan[c]) + (IF Taken(c) THEN 1 ELSE 0)
            = IF goroutine[c] = "ended" THEN 1 ELSE 0

Own(p, a) ==
    /\ a.kind = "number" => /\ p.type \in {"float64", "numeral"}
                            /\ p.halves \in InRange => a.value = Truncated[p.halves]
    /\ a.kind = "failed" => p.type \in {"error", "panic"}
    /\ a.kind = "not a number" => p.type \in {"word", "numeral"}
    /\ a.kind = "unexpected type" => p.type = "bool"

\* Whatever races with the deadline, an answer is that of the call's own
\* evaluation: a number for a number, truncated towards zero when it is in range,
\* and an error for an error or a panic (solver.go:197).
AnswerIsOwn == \A c \in Calls : Own(product[c], answer[c])

\* Every call returns, although its evaluation, or another call's, may never end
\* or may panic.
EveryCallReturns == \A c \in Calls : call[c] = "waiting" ~> call[c] = "returned"

\* No goroutine is left blocked on its channel when its caller is gone.
EveryGoroutineEnds == \A c \in Calls : goroutine[c] = "sending" ~> goroutine[c] = "ended"

\* What solver_test.go:220 asks: a result no int can hold is an error.
OverflowDetected ==
    \A c \in Calls :
        answer[c].kind = "number" => answer[c].value = Truncated[product[c].halves]
=============================================================================
