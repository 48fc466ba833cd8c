SPECIFICATION AppSpec
CONSTANTS
  Profiles <- TwoProfiles
  MaxPads = 2
  MaxOps = 3
  MaxPresses = 1
  MaxEvents = 1
  MaxMail = 1
  Targets <- AllTargets
  None = "None"
  MaxCaptures = 3
  RotateLines = 2
  MaxLines = 5
  MaxSwitches = 3
  MaxRefusals = 1
INVARIANTS GateSettles LabGatedAlone LabExplained BoundAsAsked CaptureAgrees LogKeepsLines
CHECK_DEADLOCK FALSE
