CONSTANTS
  a1 = a1
  a2 = a2
  t1 = t1
  transient = transient
  permanent = permanent
  Actions <- MCActions
  FailureReasons <- MCFailureReasons
  CountedFailures <- MCCountedFailures
  BlockedReasonTypes <- MCBlockedReasonTypes
  Times <- MCTimes
  None = None
  MaxRecords = 3
  Verdicts <- MCVerdicts
  MaxLateArrivals = 0
  MaxMigrations = 0
  RetryableFailures <- MCRetryableFailures
  NeverRetried <- MCNeverRetried
  MaxRetry <- MCMaxRetry
  Order <- MCOrder
  MaxSupport = 1
  AlwaysRepairs = TRUE
SPECIFICATION SchedulingSpec
INVARIANTS SchedulingTypeOK RetriesWithinLimit
PROPERTIES DispatchCanProceed OnlyLegalAttempts WaitsOnlyForBlocked
CHECK_DEADLOCK FALSE
