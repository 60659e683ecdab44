SPECIFICATION Spec
CONSTANTS
    c1 = c1
    c2 = c2
    Calls = {c1, c2}
    Problems <- AcceptedProblems
    Values <- SomeValues
    IntMax = 7
    MaxProblemLength = 3
    MaxOperatorCount = 1
    MaxNestingDepth = 1
    MaxNumberLength = 1
INVARIANTS OverflowDetected
CHECK_DEADLOCK FALSE
