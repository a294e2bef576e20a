CONSTANTS
    Plan <- RenamingPlan
    MaxPuts = 4
    MaxCrashes = 2
    MaxFaults = 1
    WriteBufferSize = 2
    None = None
SPECIFICATION Spec
INVARIANT AckedSurvive
CHECK_DEADLOCK FALSE
