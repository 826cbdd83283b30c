CONSTANTS
  c1 = c1
  c2 = c2
  Chats = {c1}
  NoLog = NoLog
  MaxRounds = 2
  MaxCalls = 2
  DbMayFail = TRUE
  MaxCrashes = 1
SPECIFICATION CFairSpec
INVARIANTS CancelStopsTools  CountMatches
PROPERTIES ChatEnds
CHECK_DEADLOCK FALSE
