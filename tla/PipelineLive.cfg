\* Progress of requests and events under any two incidents.
SPECIFICATION FairSpec
CONSTANTS
    Solves = {s1, s2}
    Foreign = {f1}
    Workers = {w1}
    NoEvent = NoEvent
    PendingLimit = 2
    ReconnectLimit = 1
    MaxIncidents = 2
    Incidents <- AllIncidents
CHECK_DEADLOCK FALSE
PROPERTIES
    EveryRequestEnds
    EventSettles
    EverySolveRecorded
