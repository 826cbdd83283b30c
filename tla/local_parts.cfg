CONSTANTS
  MaxDirs = 2
  MaxSegments = 2
  MaxRetries = 2
  MaxTimeout = 3
  ListTimeout = 2
  Budget = 5
  Calls = {a1}
  MaxChanges = 2
  MaxLines = 3
  ToolCalls = {c1, c2, c3}
  Parallel = 2
  PoolSize = 2
  Hooks = 2
  Keys = {k1, k2}
  Secrets = {v1}
  Savers = {w1, w2}
  MaxSaves = 2
  MaxStarts = 1
  Sessions = {d, s1, s2}
  Default = d
  MaxLogged = 3
  MaxForks = 2
  MaxKth = 2
  MaxEdits = 1
  Talks = {h1, h2}
  MaxTalk = 5
  MaxHistory = 1
  MaxTokens = 2
  KeepRecent = 2
  SummaryLife = 2
  Pids = {p1, p2}
  MaxLaunches = 3
  MaxHalts = 2
  Grants = {t1, t2}
  MaxUpdates = 3
  MaxBoots = 1
  Windows <- SmallWindows
SPECIFICATION LocalSpec
INVARIANTS
  ProbeSound
  
  
  
  
\* Every part stops when its bounds are used up.
CHECK_DEADLOCK FALSE
