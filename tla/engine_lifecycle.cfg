CONSTANTS
  t1 = t1
  api = api
  w1 = w1
  w2 = w2
  Tasks = {t1}
  Callers = {api}
  Workers = {w1, w2}
  RetryLimits = {1}
  ProgressReports = {40}
  TransitionTargets = {}
  SetupMayFail = FALSE
  MaxOps = 5
  MaxCrashes = 0
SPECIFICATION EFairSpec
INVARIANTS TypeOK AuditSound RetryBound ResultMeansCompleted 
PROPERTIES TerminalIsFinal ImplementsLifecycle 
CHECK_DEADLOCK FALSE
