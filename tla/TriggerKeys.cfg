SPECIFICATION Spec
CONSTANTS
  Keys <- MCKeys
  Mods <- MCMods
  Buttons <- MCButtons
  Wheels <- MCWheels
  Left = "left"
  NoInput = "none"
  Configs <- MCConfigs
  Cfg <- MCCfg
  NoCfg = "nocfg"
INVARIANTS ReportsFollowKey StuckOnlyBySlip OneMouseSource
