SPECIFICATION FairSpec
CONSTANTS
    c1 = c1
    c2 = c2
    Calls = {c1, c2}
    Problems <- AllProblems
    Values <- SomeValues
    IntMax = 7
    MaxProblemLength = 3
    MaxOperatorCount = 1
    MaxNestingDepth = 1
    MaxNumberLength = 1
INVARIANTS TypeOK LimitsEnforced OneMessage AnswerIsOwn
PROPERTIES EveryCallReturns EveryGoroutineEnds
CHECK_DEADLOCK FALSE
