CONSTANTS
  Modes = {"local", "order"}
  Local = "local"
  QueueSize = 1
  MaxSwitches = 2
  MaxEdits = 0
  MaxBreaks = 0
SPECIFICATION PSpec
INVARIANTS ModesAgree
CHECK_DEADLOCK FALSE
