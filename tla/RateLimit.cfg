SPECIFICATION FairSpec
CONSTANTS
    r1 = r1
    r2 = r2
    r3 = r3
    r4 = r4
    h1 = h1
    h2 = h2
    p1 = p1
    p2 = p2
    Requests = {r1, r2, r3, r4}
    Hosts = {h1, h2}
    Ports = {p1, p2}
    RemoteAddr <- MCRemoteAddr
    None = None
    Burst = 2
    Period = 2
    MaxTime = 3
INVARIANTS TypeOK OneLimiterPerHost WindowBound DeniedOnlyAfterBurst
PROPERTIES WaitIsEnough ImplementsBuckets EveryRequestDecided
CHECK_DEADLOCK FALSE
