\* A graceful shutdown of the web-server ends with a publish still to run.
SPECIFICATION Spec
CONSTANTS
    Solves = {s1}
    Foreign = {}
    Workers = {w1}
    NoEvent = NoEvent
    PendingLimit = 2
    ReconnectLimit = 1
    MaxIncidents = 1
    Incidents = {"web_stop"}
CHECK_DEADLOCK FALSE
PROPERTIES
    ShutdownWaitsForPublishers
