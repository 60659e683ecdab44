\* The connection of the web-server stays closed after a long outage.
SPECIFICATION FairSpec
CONSTANTS
    Solves = {s1}
    Foreign = {}
    Workers = {w1}
    NoEvent = NoEvent
    PendingLimit = 2
    ReconnectLimit = 1
    MaxIncidents = 1
    Incidents = {"nats_outage"}
CHECK_DEADLOCK FALSE
PROPERTIES
    AutoReconnects
