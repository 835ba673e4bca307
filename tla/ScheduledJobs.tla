--------------------------- MODULE ScheduledJobs ---------------------------
(***************************************************************************)
(* The scheduled-job record and the rules every component of the scheduler *)
(* shares: when a job is due, in which order due jobs are taken, when a    *)
(* queued delivery still matches its job, and what one attempt does to the *)
(* record.  Time is a natural number; schedule ids are numbers because the *)
(* code orders jobs by (next_run_at, schedule_id).                         *)
(***************************************************************************)
EXTENDS Integers, FiniteSets

CONSTANTS Schedules,     \* schedule ids
          Kind,          \* ScheduleAction of each: "create_task" | "run_task"
          Interval,      \* interval_seconds; 0 stands for None (one-time)
          MaxRuns,       \* max_runs; 0 stands for None (no limit)
          Horizon        \* bound on every time a job can carry

ASSUME SchedulesAssumption == Schedules \subseteq Nat
ASSUME KindAssumption == Kind \in [Schedules -> {"create_task", "run_task"}]
ASSUME HorizonAssumption == Horizon \in Nat
ASSUME TimingAssumption ==
  /\ Interval \in [Schedules -> Nat]
  /\ MaxRuns \in [Schedules -> Nat]
\* create_scheduled_job: one-time schedules can only use max_runs = 1.
ASSUME OneTimeAssumption ==
  \A s \in Schedules : Interval[s] = 0 => MaxRuns[s] \in {0, 1}

Times == 0 .. Horizon

JobStatus == {"absent", "active", "paused", "completed", "failed", "cancelled"}

Jobs == [status : JobStatus, next : Times, runs : Nat, failures : Nat]

NewJob(n) == [status |-> "active", next |-> n, runs |-> 0, failures |-> 0]
NoJob == [status |-> "absent", next |-> 0, runs |-> 0, failures |-> 0]

\* One occurrence of a schedule: the pair a delivery and an execution token name.
Occurrences == [sched : Schedules, due : Times]

Occurrence(s, j) == [sched |-> s, due |-> j.next]

IsDue(j, t) == j.status = "active" /\ j.next <= t

\* Mutated: a delivery is executed whenever its schedule is due.
DeliveryDueOnly(j, o, t) == j.status = "active" /\ j.next <= t

\* The queued delivery of o still names the job's current occurrence, and it is due.
DeliveryMatches(j, o, t) ==
  /\ j.status = "active"
  /\ j.next = o.due
  /\ j.next <= t

Before(o, p) ==
  \/ o.due < p.due
  \/ o.due = p.due /\ o.sched < p.sched

\* list_due_scheduled_jobs: the first `limit' due occurrences in (next, id) order.
DueBatch(jobs, t, limit) ==
  LET due == {Occurrence(s, jobs[s]) : s \in {r \in Schedules : IsDue(jobs[r], t)}}
  IN  {o \in due : Cardinality({p \in due : Before(p, o)}) < limit}

\* Mutated: off by one.
LimitPassed(s, runs) == MaxRuns[s] # 0 /\ runs > MaxRuns[s]

LimitReached(s, runs) == MaxRuns[s] # 0 /\ runs >= MaxRuns[s]

Recurs(s, runs) == Interval[s] # 0 /\ ~LimitReached(s, runs)

\* Mutated: the next run is counted from the missed occurrence, not from now.
AfterRunFromDue(s, j, at, ok) ==
  [status   |-> IF Recurs(s, j.runs + 1) THEN "active"
                ELSE IF ok THEN "completed" ELSE "failed",
   next     |-> IF Recurs(s, j.runs + 1) THEN j.next + Interval[s] ELSE j.next,
   runs     |-> j.runs + 1,
   failures |-> IF ok THEN j.failures ELSE j.failures + 1]

\* Mutated: a schedule that has ended loses its next_run_at.
AfterRunCleared(s, j, at, ok) ==
  [status   |-> IF Recurs(s, j.runs + 1) THEN "active"
                ELSE IF ok THEN "completed" ELSE "failed",
   next     |-> IF Recurs(s, j.runs + 1) THEN at + Interval[s] ELSE -1,
   runs     |-> j.runs + 1,
   failures |-> IF ok THEN j.failures ELSE j.failures + 1]

\* The record after one attempt started at time `at'.
AfterRun(s, j, at, ok) ==
  [status   |-> IF Recurs(s, j.runs + 1) THEN "active"
                ELSE IF ok THEN "completed" ELSE "failed",
   next     |-> IF Recurs(s, j.runs + 1) THEN at + Interval[s] ELSE j.next,
   runs     |-> j.runs + 1,
   failures |-> IF ok THEN j.failures ELSE j.failures + 1]

\* The legal operator transitions: pause, resume, cancel.
Paused(j)    == [j EXCEPT !.status = "paused"]
Resumed(j)   == [j EXCEPT !.status = "active"]
Cancelled(j) == [j EXCEPT !.status = "cancelled"]
CanPause(j)  == j.status = "active"
CanResume(j) == j.status = "paused"
CanCancel(j) == j.status \in {"active", "paused"}
=============================================================================
