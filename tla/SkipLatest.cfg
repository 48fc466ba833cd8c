SPECIFICATION Spec
CONSTANTS
  Periods <- SomePeriods
  Margins = {0, 1}
  MinSleep = 1
  CatchUpLimit = 3
  MaxBatch = 3
  Budgets = {3, 100}
  Ends = {10, 100}
  MaxTime = 15
  MaxTurns = 2
PROPERTIES SkipsToLatest
CHECK_DEADLOCK FALSE
