CONSTANTS
  PIds = {a}
  Runs = {r1, r2}
  RetryLimit = 1
  MaxMessages = 3
  MaxCuts = 1
  MaxKills = 1
  MaxRounds = 7
  ZeroRounds = 2
  Fixes = 2
  Splitters = {s1}
  Cloners = {c1, c2}
  MaxRequests = 2
  MaxDrops = 1
  MaxText = 1
  Callers = {u1, u2}
  Pairs = {"p", "q"}
  Models = {"m", "f"}
  Files <- ThreeFiles
  Cap = 4
  Reserve = 2
  MaxOut = 1
  MaxCalls = 3
  MaxPuts = 1
  MaxRelaunches = 1
  MaxMonth = 2
  StepCount = 3
  Graphs <- SmallGraphs
  Threads = {w1, w2}
  Inputs = {"x", "y"}
  Installs <- ThreeInstalls
  MaxServed = 2
  MaxRestarts = 1
SPECIFICATION WorkSpec
INVARIANTS
  
  TaskRunSound
  
  
  SkillSound
  
\* Every part stops when its bounds are used up.
CHECK_DEADLOCK FALSE
