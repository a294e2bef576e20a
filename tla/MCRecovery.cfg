CONSTANTS
    Plan <- MCPlan
    MaxPuts = 4
    MaxCrashes = 2
    MaxFaults = 1
    WriteBufferSize = 2
    None = None
SPECIFICATION Spec
INVARIANTS Recoverable AckedSurvive NoSequenceReuse
PROPERTY EventuallyOpen
CHECK_DEADLOCK FALSE
