\* One worker, two solves, a malformed payload, any three incidents.
SPECIFICATION Spec
CONSTANTS
    Solves = {s1, s2}
    Foreign = {f1}
    Workers = {w1}
    NoEvent = NoEvent
    PendingLimit = 2
    ReconnectLimit = 1
    MaxIncidents = 3
    Incidents <- AllIncidents
SYMMETRY Symmetry
CHECK_DEADLOCK FALSE
INVARIANTS
    TypeOK
    AtMostOnce
    OnePlace
    PublishOrderKept
