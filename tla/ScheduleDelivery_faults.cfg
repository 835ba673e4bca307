SPECIFICATION Spec
CONSTANTS
  Schedules <- MixedSchedules
  Kind <- MixedKind
  Interval <- MixedInterval
  MaxRuns <- MixedRuns
  FirstDue <- MixedFirstDue
  Horizon = 3
  MaxTime = 2
  Limit = 1
  RetryMax = 1
  MaxFaults = 2
  MaxApiCommits = 0
INVARIANTS TypeOK OneExecutionPerOccurrence AttemptsKeepInterval RunCountIsHistory
PROPERTIES CompletedTargetNotRerun ImplementsLedger
CHECK_DEADLOCK FALSE
