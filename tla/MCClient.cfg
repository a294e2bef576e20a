CONSTANTS
    Conn = {k1, k2}
    Query = {q1, q2}
    FirstQuery = q1
    Stolen = FALSE
    MaxCalls = 3
    MaxDepth = 2
    MaxLosses = 2
    Inside = {"operation"}
    LossInside = {"operation"}
    SlowKinds = {"operation"}
    Offline = FALSE
    None = None
SPECIFICATION Spec
INVARIANTS OwnReply OneObserverEach ObserversAgree
PROPERTIES EveryCallReturns EventuallyCurrent
CHECK_DEADLOCK FALSE
