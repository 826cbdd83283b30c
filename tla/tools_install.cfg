CONSTANTS
  Jobs = {j1, j2}
  j1 = j1
  j2 = j2
  Kinds = {"install", "uninstall", "probe", "enable", "disable", "reload", "view"}
  Found = {"unverified", "hidden"}
  MaxJobs = 2
  MaxOutside = 1
  MaxRestarts = 1
SPECIFICATION TFairSpec
INVARIANTS TTypeOK OneAtATime InstallingIsOwned
PROPERTIES InstallEnds
CHECK_DEADLOCK FALSE
