\* Two workers, each with its own one-message subscription, and any two incidents.
SPECIFICATION Spec
CONSTANTS
    Solves = {s1, s2}
    Foreign = {}
    Workers = {w1, w2}
    NoEvent = NoEvent
    PendingLimit = 1
    ReconnectLimit = 1
    MaxIncidents = 2
    Incidents <- AllIncidents
SYMMETRY Symmetry
CHECK_DEADLOCK FALSE
INVARIANTS
    AtMostOncePerWorker
PROPERTIES
    OnlyIncidentsLose
    ImplementsLedger
