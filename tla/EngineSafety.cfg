SPECIFICATION Spec
CONSTANTS
  Callers <- MCCallers
  Ops <- SafeOps
  Rebinding = FALSE
  Configs <- SafeConfigs
  Cfg <- SafeCfg
  NoCfg = "none"
  CatchUpMax = 2
  MaxPosts = 3
INVARIANTS NoLostCommand ArmedMatchesState StopIsPrompt ReleasedUnlessRunning BudgetExact
PROPERTIES NoSendOnceStopped ConfigWholeActions AbstractSpec
CHECK_DEADLOCK FALSE
