\* Two tabs, two users, logins and calls in any order.
SPECIFICATION FairSpec
CONSTANTS
    t1 = t1
    t2 = t2
    u1 = u1
    u2 = u2
    p1 = p1
    p2 = p2
    None = None
    Tabs = {t1, t2}
    Users = {u1, u2}
    Accounts <- MCAccounts
    Problems = {p1, p2}
    TokenLife = 1
    MaxAge = 1
    MaxTime = 1
    MaxCalls <- MCMaxCalls
    Calls1 = 2
    Calls2 = 1
CHECK_DEADLOCK FALSE
INVARIANTS TypeOK CallsCarryToken AnswerOfLast HistoryOfHolder
PROPERTIES LogoutHolds LoadingEnds
