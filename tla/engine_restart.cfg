CONSTANTS
  t1 = t1
  api = api
  w1 = w1
  w2 = w2
  Tasks = {t1}
  Callers = {api}
  Workers = {w1, w2}
  RetryLimits = {1}
  ProgressReports = {}
  TransitionTargets = {"pending", "running", "failed"}
  SetupMayFail = TRUE
  MaxOps = 4
  MaxCrashes = 1
SPECIFICATION ESpec
INVARIANTS AuditSound
CHECK_DEADLOCK FALSE
