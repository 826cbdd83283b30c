CONSTANTS
  Modes = {"local", "order"}
  Local = "local"
  QueueSize = 2
  MaxSwitches = 2
  MaxEdits = 1
  MaxBreaks = 1
SPECIFICATION PFairSpec
INVARIANTS PTypeOK
PROPERTIES ModeReported StopEnds
CHECK_DEADLOCK FALSE
