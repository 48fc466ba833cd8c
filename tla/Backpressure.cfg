SPECIFICATION FairSpec
CONSTANTS
  MaxInflight = 1
  MaxBatch = 3
  HealthMin = 1
  Granted = 5
  LossyHook = TRUE
  MaxRuns = 2
  MaxChanges = 2
INVARIANTS GapExact
PROPERTIES QueueStaysShort SeenRunEnds
CHECK_DEADLOCK FALSE
