CONSTANTS
  c1 = c1
  c2 = c2
  Chats = {c1, c2}
  NoLog = NoLog
  MaxRounds = 1
  MaxCalls = 1
  DbMayFail = FALSE
  MaxCrashes = 0
SPECIFICATION CSpec
INVARIANTS OwnToolCalls
CHECK_DEADLOCK FALSE
