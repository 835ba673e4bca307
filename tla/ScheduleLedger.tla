--------------------------- MODULE ScheduleLedger ---------------------------
(***************************************************************************)
(* What the durable scheduler promises about a schedule: attempts happen   *)
(* one at a time, each on the occurrence the schedule is at, never before  *)
(* it is due, and the attempt's row and the schedule's advance appear      *)
(* together.  No queue, no worker, no retry is visible.                    *)
(***************************************************************************)
EXTENDS ScheduledJobs, Sequences

VARIABLES jobs,     \* the scheduled_jobs rows
          execs     \* the scheduled_executions rows, oldest first

ledger == <<jobs, execs>>

Init ==
  /\ jobs \in [Schedules -> {NoJob} \cup {NewJob(n) : n \in Times}]
  /\ execs = << >>

Attempt(s, at, ok) ==
  /\ IsDue(jobs[s], at)
  /\ execs' = Append(execs, [of |-> Occurrence(s, jobs[s]), at |-> at, ok |-> ok])
  /\ jobs' = [jobs EXCEPT ![s] = AfterRun(s, jobs[s], at, ok)]

Next == \E s \in Schedules, at \in Times, ok \in BOOLEAN : Attempt(s, at, ok)

Spec == Init /\ [][Next]_ledger
=============================================================================
