SPECIFICATION FairSpec
CONSTANTS
  Items <- MCItems
  Words = 2
  WordOf <- MCWordOf
  Batches <- MCBatches
INVARIANTS Covered NothingLeftDown
PROPERTIES WatchdogActs
CHECK_DEADLOCK FALSE
