--------------------------- MODULE SchedulerTick ---------------------------
(***************************************************************************)
(* Local mode of the scheduler: request threads of one API process share   *)
(* the in-memory jobs without a lock, tick_scheduler executes what is due, *)
(* and every change is followed by a sync to SQLite that commits row by    *)
(* row: tasks first, then scheduled_jobs, then scheduled_executions.  The  *)
(* collections a sync writes are listed when it starts; a job row is       *)
(* written as it is in memory when its turn comes.                         *)
(***************************************************************************)
EXTENDS ScheduledJobs

CONSTANTS Threads, FirstDue, MaxTime,
          MaxTicks,    \* bound on ticks begun
          MaxControls, \* bound on pause, resume and cancel requests
          MaxFaults    \* bound on crashes and failed syncs

ASSUME FirstDueAssumption == FirstDue \in [Schedules -> Times]
ASSUME MaxTimeAssumption ==
  MaxTime \in Nat /\ \A s \in Schedules : MaxTime + Interval[s] <= Horizon
ASSUME BoundsAssumption == MaxTicks \in Nat /\ MaxControls \in Nat /\ MaxFaults \in Nat
ASSUME ThreadsAssumption == IsFiniteSet(Threads)

VARIABLES
  now,
  mem,       \* the service's memory
  db,        \* the SQLite rows
  th,        \* what each request thread is doing
  ticks, controls, faults

vars == <<now, mem, db, th, ticks, controls, faults>>

\* Rows with random ids are counted: tasks made or workflows run for a schedule,
\* its execution rows and the successful ones among them.
Counts == [Schedules -> Nat]
States == [jobs : [Schedules -> Jobs], effects : Counts, execs : Counts, done : Counts]

Idle == [pc |-> "idle"]
Earliest(S) == CHOOSE s \in S : \A r \in S \ {s} :
                 Before(Occurrence(s, mem.jobs[s]), Occurrence(r, mem.jobs[r]))

\* A sync starts: the collections are listed, `next' is what follows it.
BeginSync(m, next) == [pc |-> "tasks", held |-> m, next |-> next]

Init ==
  /\ now = 0
  /\ mem = [jobs |-> [s \in Schedules |-> NewJob(FirstDue[s])],
            effects |-> [s \in Schedules |-> 0],
            execs |-> [s \in Schedules |-> 0],
            done |-> [s \in Schedules |-> 0]]
  /\ db = mem
  /\ th = [t \in Threads |-> Idle]
  /\ ticks = 0 /\ controls = 0 /\ faults = 0

Clock ==
  /\ now < MaxTime
  /\ now' = now + 1
  /\ UNCHANGED <<mem, db, th, ticks, controls, faults>>

-----------------------------------------------------------------------------
\* tick_scheduler lists what is due; the statuses are not looked at again.
TickBegins(t) ==
  LET due == {o.sched : o \in DueBatch(mem.jobs, now, Cardinality(Schedules))} IN
  /\ th[t].pc = "idle"
  /\ ticks < MaxTicks
  /\ ticks' = ticks + 1
  /\ due # {}
  /\ th' = [th EXCEPT ![t] = [pc |-> "act", todo |-> due, at |-> now]]
  /\ UNCHANGED <<now, mem, db, controls, faults>>

\* The action of the next job: a task with a random id, or a run of the
\* workflow, and its sync; a blocked workflow makes the attempt fail.
TickActs(t, ok) ==
  LET s == Earliest(th[t].todo)
      m == [mem EXCEPT !.effects[s] = @ + 1]
  IN
  /\ th[t].pc = "act"
  /\ Kind[s] = "create_task" => ok
  /\ mem' = m
  /\ th' = [th EXCEPT ![t] =
              BeginSync(m, [pc |-> "advance", job |-> s, ok |-> ok,
                            todo |-> @.todo \ {s}, at |-> @.at])]
  /\ UNCHANGED <<now, db, ticks, controls, faults>>

\* The job record advances and the execution is recorded in memory.
TickAdvances(t) ==
  LET w == th[t]
      s == w.job
      m == [mem EXCEPT !.jobs[s] = AfterRun(s, @, w.at, w.ok),
                       !.execs[s] = @ + 1,
                       !.done[s] = IF w.ok THEN @ + 1 ELSE @]
  IN
  /\ w.pc = "advance"
  /\ mem' = m
  /\ th' = [th EXCEPT ![t] = IF w.todo = {} THEN BeginSync(m, Idle)
                             ELSE [pc |-> "act", todo |-> w.todo, at |-> w.at]]
  /\ UNCHANGED <<now, db, ticks, controls, faults>>

\* pause, resume and cancel change the record, then sync.
Controls(t, s, can, new) ==
  /\ th[t].pc = "idle"
  /\ controls < MaxControls
  /\ controls' = controls + 1
  /\ can
  /\ mem' = [mem EXCEPT !.jobs[s] = new]
  /\ th' = [th EXCEPT ![t] = BeginSync(mem', Idle)]
  /\ UNCHANGED <<now, db, ticks, faults>>

PauseJob(t, s)  == Controls(t, s, CanPause(mem.jobs[s]), Paused(mem.jobs[s]))
ResumeJob(t, s) == Controls(t, s, CanResume(mem.jobs[s]), Resumed(mem.jobs[s]))
CancelJob(t, s) == Controls(t, s, CanCancel(mem.jobs[s]), Cancelled(mem.jobs[s]))

-----------------------------------------------------------------------------
(* sync_state, table by table, each table committed before the next. *)

Bigger(m, n) == IF m < n THEN n ELSE m
\* Rows of a listed collection are inserted; the others stay.
InsertRows(table, listed) == [s \in Schedules |-> Bigger(table[s], listed[s])]

\* Mutated: the tasks are left out of the sync.
SaveNoTasks(t) ==
  /\ th[t].pc = "tasks"
  /\ th' = [th EXCEPT ![t].pc = "jobs"]
  /\ UNCHANGED <<now, mem, db, ticks, controls, faults>>

SaveTasks(t) ==
  /\ th[t].pc = "tasks"
  /\ db' = [db EXCEPT !.effects = InsertRows(@, th[t].held.effects)]
  /\ th' = [th EXCEPT ![t].pc = "jobs"]
  /\ UNCHANGED <<now, mem, ticks, controls, faults>>

\* Mutated: the sync writes copies made when it started.
SaveJobsAsListed(t) ==
  /\ th[t].pc = "jobs"
  /\ db' = [db EXCEPT !.jobs = th[t].held.jobs]
  /\ th' = [th EXCEPT ![t].pc = "execs"]
  /\ UNCHANGED <<now, mem, ticks, controls, faults>>

SaveJobs(t) ==
  /\ th[t].pc = "jobs"
  /\ db' = [db EXCEPT !.jobs = mem.jobs]
  /\ th' = [th EXCEPT ![t].pc = "execs"]
  /\ UNCHANGED <<now, mem, ticks, controls, faults>>

SaveExecutions(t) ==
  /\ th[t].pc = "execs"
  /\ db' = [db EXCEPT !.execs = InsertRows(@, th[t].held.execs),
                      !.done = InsertRows(@, th[t].held.done)]
  /\ th' = [th EXCEPT ![t] = @.next]
  /\ UNCHANGED <<now, mem, ticks, controls, faults>>

\* A save raises.  Inside the action it makes the attempt a failed one; in the
\* last sync of a request it ends the request.  Memory keeps the change.
SyncFails(t) ==
  /\ th[t].pc \in {"tasks", "jobs", "execs"}
  /\ faults < MaxFaults
  /\ faults' = faults + 1
  /\ th' = [th EXCEPT ![t] = IF @.next.pc = "advance" THEN [@.next EXCEPT !.ok = FALSE]
                             ELSE Idle]
  /\ UNCHANGED <<now, mem, db, ticks, controls>>

\* The process dies; the next one loads the rows.
Restart ==
  /\ faults < MaxFaults
  /\ faults' = faults + 1
  /\ mem' = db
  /\ th' = [t \in Threads |-> Idle]
  /\ UNCHANGED <<now, db, ticks, controls>>

-----------------------------------------------------------------------------
ThreadStep(t) ==
  \/ \E ok \in BOOLEAN : TickActs(t, ok)
  \/ TickAdvances(t)
  \/ SaveTasks(t)
  \/ SaveJobs(t)
  \/ SaveExecutions(t)

Requests(t) ==
  \/ TickBegins(t)
  \/ \E s \in Schedules : PauseJob(t, s) \/ ResumeJob(t, s) \/ CancelJob(t, s)

Next ==
  \/ Clock
  \/ Restart
  \/ \E t \in Threads : ThreadStep(t) \/ Requests(t) \/ SyncFails(t)

Spec == Init /\ [][Next]_vars
-----------------------------------------------------------------------------
ThreadPcs == {"idle", "act", "advance", "tasks", "jobs", "execs"}

\* Memory and rows keep their shape.
TypeOK ==
  /\ now \in 0 .. MaxTime
  /\ mem \in States
  /\ db \in States
  /\ \A t \in Threads : th[t].pc \in ThreadPcs

\* The durable history never runs ahead of the durable run_count, whatever a
\* crash cut off and however the syncs of two requests interleave; so a restart
\* never knows an execution its schedule has not counted.
HistoryNeverAhead ==
  \A s \in Schedules :
    /\ db.execs[s] <= db.jobs[s].runs
    /\ mem.execs[s] <= mem.jobs[s].runs

\* A successful execution that survives a crash is one whose task survives too.
DurableSuccessHasEffect ==
  \A s \in Schedules : db.done[s] <= db.effects[s] /\ mem.done[s] <= mem.effects[s]
=============================================================================
