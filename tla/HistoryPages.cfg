\* One client pages while two workers insert; ties and late commits included.
SPECIFICATION Spec
CONSTANTS
    d1 = d1
    d2 = d2
    d3 = d3
    d4 = d4
    w1 = w1
    w2 = w2
    u1 = u1
    u2 = u2
    p1 = p1
    NotANumber = NotANumber
    Deliveries = {d1, d2, d3, d4}
    Users = {u1, u2}
    Readers = {p1}
    WorkerOf <- MCWorkerOf
    Owner <- MCOwner
    Who <- MCWho
    Limits <- MCLimits
    Offsets <- MCOffsets
    MaxHistoryLimit = 2
    DefaultHistoryLimit = 1
    MaxTime = 2
CHECK_DEADLOCK FALSE
INVARIANTS TypeOK OwnPages NothingSkipped ReadInOrder
