\* Two plain subscriptions store one solve twice.
SPECIFICATION Spec
CONSTANTS
    Solves = {s1}
    Foreign = {}
    Workers = {w1, w2}
    NoEvent = NoEvent
    PendingLimit = 2
    ReconnectLimit = 1
    MaxIncidents = 0
    Incidents = {}
CHECK_DEADLOCK FALSE
INVARIANTS
    AtMostOnce
