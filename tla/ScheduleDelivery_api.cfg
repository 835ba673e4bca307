SPECIFICATION Spec
CONSTANTS
  Schedules <- MixedSchedules
  Kind <- MixedKind
  Interval <- OneTimeEach
  MaxRuns <- OneRunEach
  FirstDue <- OnlyFirstDue
  Horizon = 1
  MaxTime = 1
  Limit = 1
  RetryMax = 1
  MaxFaults = 1
  MaxApiCommits = 2
INVARIANTS  SuccessHasEffect
CHECK_DEADLOCK FALSE
