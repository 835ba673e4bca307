SPECIFICATION Spec
CONSTANTS
  t1 = t1
  t2 = t2
  Threads = {t1, t2}
  Schedules <- TwoSchedules
  Kind <- TickKind
  Interval <- TickInterval
  MaxRuns <- TickRuns
  FirstDue <- TickDue
  Horizon = 2
  MaxTime = 1
  MaxTicks = 2
  MaxControls = 2
  MaxFaults = 1
SYMMETRY ThreadSymmetry
INVARIANTS TypeOK  DurableSuccessHasEffect
CHECK_DEADLOCK FALSE
