CONSTANTS
  a = a
  b = b
  x = x
  N = 2
  Ids = {a, b, x}
  MaxRetries = 1
  DbMayFail = TRUE
  MaxCrashes = 1
SPECIFICATION OFairSpec
INVARIANTS OTypeOK AllEnded DependenciesFirst AttemptsBounded CheckpointFaithful
PROPERTIES ImplementsDependencyRun PlanEnds
CHECK_DEADLOCK FALSE
