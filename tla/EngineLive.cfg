SPECIFICATION FairSpec
CONSTANTS
  Callers <- MCCallers
  Ops <- LiveOps
  Rebinding = TRUE
  Configs <- LiveConfigs
  Cfg <- LiveCfg
  NoCfg = "none"
  CatchUpMax = 2
  MaxPosts = 2
PROPERTIES QuitTerminates StopTakesEffect PauseEnds LimitedRunEnds
CHECK_DEADLOCK FALSE
