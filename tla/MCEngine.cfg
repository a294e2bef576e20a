SPECIFICATION Spec
CONSTANTS
  w1 = w1
  w2 = w2
  c1 = c1
  r1 = r1
  None = None
  Writer = {w1, w2}
  Reader = {r1}
  Compactor = {c1}
  BatchOf <- MCBatchOf
  Plan <- MCPlan
  MaxFaults = 1
  WriteBufferSize = 0
  MaxBatchGroup = 3
  L0_CompactionTrigger = 1
  L0_SlowdownWritesTrigger = 1
  L0_StopWritesTrigger = 2
INVARIANTS
  NothingFreed
  ReadsCorrect
  NewestDurable
  SyncedSurvives
  NeverCrashes
PROPERTIES
  EveryCallReturns
