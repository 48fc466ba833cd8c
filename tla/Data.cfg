SPECIFICATION DataSpec
CONSTANTS
  Periods <- SomePeriods
  Margins = {0, 1}
  MinSleep = 1
  CatchUpLimit = 3
  MaxBatch = 3
  Budgets = {3, 100}
  Ends = {10, 100}
  MaxTime = 15
  MaxTurns = 2
  Holds = {0, 1, 3}
  Gaps = {0, 2}
  Repeats = {0, 1, 2, 3, 4}
  Intervals <- SomeIntervals
  MaxChanges = 1
  History = 3
  SlotTicks = 2
  PerSecond = 2
  Pauses = {0, 1, 2, 3, 7, 27, 30}
  Sizes = {1, 2}
  MaxCalls = 4
  SubBits = 3
  MaxMsb = 10
  Times = {0, 7, 8, 15, 16, 17, 100, 1024, 1151, 2047, 3000}
  Shares <- SomeShares
  MaxAdds = 4
  MaxDepth = 1
  MaxTokens = 6
  CodePoints = {10, 34, 47, 65, 127, 128, 2047, 2048, 55295, 57344, 65535, 65536, 1114111}
INVARIANTS OnGrid CompiledAsAsked FiguresRight PercentilesClose ReadsAsSpelled
PROPERTIES SkipsWithinAPeriod
CHECK_DEADLOCK FALSE
