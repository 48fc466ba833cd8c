SPECIFICATION Spec
CONSTANTS
  Words <- TwoWords
  Attempts = 2
  Batch <- SomeBatches
  MaxActions = 3
  MaxRuns = 2
  MaxPublishes = 6
INVARIANTS TotalsExact ResultFinal
PROPERTY AtomicReads
CHECK_DEADLOCK FALSE
