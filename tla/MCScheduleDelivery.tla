------------------------- MODULE MCScheduleDelivery -------------------------
EXTENDS ScheduleDelivery

\* A recurring create_task schedule and a one-time run_task schedule.
MixedSchedules == {1, 2}
MixedKind == [s \in {1, 2} |-> IF s = 1 THEN "create_task" ELSE "run_task"]
MixedInterval == [s \in {1, 2} |-> IF s = 1 THEN 1 ELSE 0]
MixedRuns == [s \in {1, 2} |-> IF s = 1 THEN 2 ELSE 1]
MixedFirstDue == [s \in {1, 2} |-> s - 1]

\* The same two kinds, both one-time; only the first exists at the start.
OneTimeEach == [s \in {1, 2} |-> 0]
OneRunEach == [s \in {1, 2} |-> 1]
OnlyFirstDue == [s \in {1} |-> 0]
=============================================================================
