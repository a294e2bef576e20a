CONSTANTS
    Key <- MCKey
    Plan <- MCPlan
    MaxWrites = 6
    NumLevels = 4
    MaxMemCompactLevel = 2
    L0_CompactionTrigger = 2
    MaxFileSize = 2
    MaxGrandParentOverlap = 1
    ExpandedLimit = 5
    MaxBytes = 2
    LevelRatio = 2
    None = None
SPECIFICATION Spec
INVARIANTS ReadsRight ScansRight LevelsDisjoint
PROPERTY CompactionsEnd
CHECK_DEADLOCK FALSE
