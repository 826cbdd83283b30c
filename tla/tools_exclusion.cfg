CONSTANTS
  Jobs = {j1, j2}
  j1 = j1
  j2 = j2
  Kinds = {"install", "uninstall"}
  Found = {"unverified"}
  MaxJobs = 3
  MaxOutside = 0
  MaxRestarts = 0
SPECIFICATION TSpec
INVARIANTS MarkIsLock
SYMMETRY JobSymmetry
CHECK_DEADLOCK FALSE
