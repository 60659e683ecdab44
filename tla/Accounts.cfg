\* Two registrations race for an address, a login follows, a call carries any token held.
SPECIFICATION Spec
CONSTANTS
    g1 = g1
    g2 = g2
    l1 = l1
    l2 = l2
    e1 = e1
    p1 = p1
    p2 = p2
    Empty = Empty
    None = None
    Registrations = {g1, g2}
    Logins = {l1, l2}
    Email <- MCEmail
    Password <- MCPassword
    Short <- MCShort
    Calls = {c1}
    Secrets = {k1, k2}
    TokenLife = 1
    MaxTime = 1
    MaxStarts = 2
CHECK_DEADLOCK FALSE
INVARIANTS TypeOK OneWinner GrantedToOwner RegisteredCanLogIn ServedAsOwner CleanShutdown
PROPERTIES ImplementsBook
