CONSTANTS
    c1 = c1
    c2 = c2
    Client = {c1, c2}
    Base = {b1}
    MaxRequests <- FewRequests
    Kinds = {"operate", "newTransaction", "writeTransaction", "discardTransaction", "observe", "unobserve", "exclusiveLock", "unlock"}
    MaxNumber = 1
    MaxObservers = 2
    Prefer <- NoPreference
    Vanish = FALSE
    None = None
SPECIFICATION Spec
PROPERTIES LockExcludes TransactionsKept DataToMaker AllAnswered
CHECK_DEADLOCK FALSE
