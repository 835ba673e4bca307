--------------------------- MODULE MCSchedulerTick ---------------------------
EXTENDS SchedulerTick, TLC

TwoSchedules == {1, 2}
TickKind == [s \in {1, 2} |-> IF s = 1 THEN "create_task" ELSE "run_task"]
TickInterval == [s \in {1, 2} |-> IF s = 1 THEN 1 ELSE 0]
TickRuns == [s \in {1, 2} |-> IF s = 1 THEN 0 ELSE 1]
TickDue == [s \in {1, 2} |-> 0]

ThreadSymmetry == Permutations(Threads)
=============================================================================
