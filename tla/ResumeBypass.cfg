CONSTANTS
  a1 = a1
  a2 = a2
  t1 = t1
  t2 = t2
  transient = transient
  permanent = permanent
  Actions <- MCActions
  FailureReasons <- MCFailureReasons
  CountedFailures <- MCCountedFailures
  BlockedReasonTypes <- MCBlockedReasonTypes
  Times <- MCTimes
  None = None
  MaxRecords = 2
  Verdicts <- MCVerdicts
  MaxLateArrivals = 1
  MaxMigrations = 2
SYMMETRY Symmetry
SPECIFICATION Spec
PROPERTY UnresumableStaysBlocked
