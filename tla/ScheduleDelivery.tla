-------------------------- MODULE ScheduleDelivery --------------------------
(***************************************************************************)
(* Production mode of the scheduler: the dispatcher loop, the Redis        *)
(* delivery keys, the RQ queue and its retries, the worker that executes a *)
(* delivery against PostgreSQL, and the API process, which keeps the whole *)
(* state in memory from its start and writes all of it back on every       *)
(* change.  Processes crash between any two of their external calls.       *)
(***************************************************************************)
EXTENDS ScheduledJobs, Sequences

CONSTANTS FirstDue,       \* next_run_at of the schedules that exist at the start
          MaxTime,        \* bound on the clock
          Limit,          \* dispatch_once(limit)
          RetryMax,       \* Retry(max=...)
          MaxFaults,      \* bound on crashes and failed calls
          MaxApiCommits   \* bound on commits by the API process

ASSUME FirstDueAssumption ==
  \E S \in SUBSET Schedules : FirstDue \in [S -> Times]
ASSUME MaxTimeAssumption ==
  /\ MaxTime \in Nat
  /\ \A s \in Schedules : MaxTime + Interval[s] <= Horizon
ASSUME BoundsAssumption ==
  /\ Limit \in Nat \ {0}
  /\ RetryMax \in Nat
  /\ MaxFaults \in Nat
  /\ MaxApiCommits \in Nat

VARIABLES
  now,         \* wall clock
  jobs,        \* PostgreSQL scheduled_jobs
  target,      \* PostgreSQL status of the task a run_task schedule names
  tasks,       \* PostgreSQL tasks made by create_task schedules
  wfRuns,      \* PostgreSQL workflow_runs, counted by the occurrence that began them
  execs,       \* PostgreSQL scheduled_executions, append-only
  keys,        \* Redis delivery keys that have not expired
  rq,          \* RQ job of each occurrence
  disp,        \* the dispatcher process
  work,        \* the worker process
  api,         \* the API process: its in-memory jobs and target tasks
  faults,      \* crashes and failed calls so far
  apiCommits   \* commits by the API process so far

pg == <<jobs, target, tasks, wfRuns, execs>>
redis == <<keys, rq>>
vars == <<now, pg, redis, disp, work, api, faults, apiCommits>>

TargetStatus == {"open", "completed", "waiting", "blocked"}

RqJobs == [st : {"absent", "queued", "started", "finished", "failed"}, left : Nat]
NoRqJob == [st |-> "absent", left |-> 0]

IdleDispatcher == [pc |-> "idle", pending |-> {}]
IdleWorker == [pc |-> "idle"]
Returning(o) == [pc |-> "ack", of |-> o]

\* Mutated: a random id per call.
TaskIdRandom(o) == [o EXCEPT !.due = Cardinality(tasks)]

\* create_task called with the id derived from the execution token.
TaskId(o) == o
ScheduledTask(o) == [id |-> TaskId(o), of |-> o]

\* sync_state upserts every row the writer holds; rows it never loaded stay.
Upsert(table, held) ==
  [s \in Schedules |-> IF held[s].status = "absent" THEN table[s] ELSE held[s]]

-----------------------------------------------------------------------------
Init ==
  /\ now = 0
  /\ jobs = [s \in Schedules |->
               IF s \in DOMAIN FirstDue THEN NewJob(FirstDue[s]) ELSE NoJob]
  /\ target = [s \in Schedules |-> "open"]
  /\ tasks = {}
  /\ wfRuns = [o \in Occurrences |-> 0]
  /\ execs = << >>
  /\ keys = {}
  /\ rq = [o \in Occurrences |-> NoRqJob]
  /\ disp = IdleDispatcher
  /\ work = IdleWorker
  /\ api = [jobs |-> jobs, target |-> target]
  /\ faults = 0
  /\ apiCommits = 0

Tick ==
  /\ now < MaxTime
  /\ now' = now + 1
  /\ UNCHANGED <<pg, redis, disp, work, api, faults, apiCommits>>

-----------------------------------------------------------------------------
(* The dispatcher: dispatch_once, in a loop. *)

DispatcherFrame == UNCHANGED <<now, pg, work, api, apiCommits>>

\* Build a fresh service from PostgreSQL and list what is due.
DispatchScan ==
  /\ disp.pc = "idle"
  /\ DueBatch(jobs, now, Limit) # {}
  /\ disp' = [pc |-> "scan", pending |-> DueBatch(jobs, now, Limit)]
  /\ UNCHANGED <<redis, faults>>
  /\ DispatcherFrame

Earliest(S) == CHOOSE o \in S : \A p \in S \ {o} : Before(o, p)
Head1 == Earliest(disp.pending)
Others == disp.pending \ {Head1}
AfterHead == IF Others = {} THEN IdleDispatcher ELSE [pc |-> "scan", pending |-> Others]

\* SET delivery_key NX EX 86400.
DispatchAcquire ==
  /\ disp.pc = "scan"
  /\ IF Head1 \in keys
       THEN disp' = AfterHead /\ keys' = keys
       ELSE disp' = [disp EXCEPT !.pc = "acquired"] /\ keys' = keys \cup {Head1}
  /\ UNCHANGED <<rq, faults>>
  /\ DispatcherFrame

\* fetch_job finds a prior job, whatever its state: the key stays.
DispatchFindsPrior ==
  /\ disp.pc = "acquired"
  /\ rq[Head1].st # "absent"
  /\ disp' = AfterHead
  /\ UNCHANGED <<redis, faults>>
  /\ DispatcherFrame

DispatchEnqueue ==
  /\ disp.pc = "acquired"
  /\ rq[Head1].st = "absent"
  /\ rq' = [rq EXCEPT ![Head1] = [st |-> "queued", left |-> RetryMax]]
  /\ disp' = AfterHead
  /\ UNCHANGED <<keys, faults>>
  /\ DispatcherFrame

\* enqueue_call raises, before or after Redis took the job; the key is
\* deleted and the exception ends this dispatch.
DispatchEnqueueFails(landed) ==
  /\ disp.pc = "acquired"
  /\ rq[Head1].st = "absent"
  /\ faults < MaxFaults
  /\ rq' = IF landed
             THEN [rq EXCEPT ![Head1] = [st |-> "queued", left |-> RetryMax]]
             ELSE rq
  /\ keys' = keys \ {Head1}
  /\ disp' = IdleDispatcher
  /\ faults' = faults + 1
  /\ DispatcherFrame

\* The process dies, or a Redis call outside the try block raises.
DispatcherCrash ==
  /\ disp.pc # "idle"
  /\ faults < MaxFaults
  /\ disp' = IdleDispatcher
  /\ faults' = faults + 1
  /\ UNCHANGED redis
  /\ DispatcherFrame

-----------------------------------------------------------------------------
(* Redis and RQ. *)

\* Mutated: SET NX without EX.
KeyStays(o) == o \in keys /\ FALSE /\ UNCHANGED vars

KeyExpires(o) ==
  /\ o \in keys
  /\ keys' = keys \ {o}
  /\ UNCHANGED <<now, pg, rq, disp, work, api, faults, apiCommits>>

\* result_ttl and failure_ttl: RQ forgets a job that ended.
RqForgets(o) ==
  /\ rq[o].st \in {"finished", "failed"}
  /\ rq' = [rq EXCEPT ![o] = NoRqJob]
  /\ UNCHANGED <<now, pg, keys, disp, work, api, faults, apiCommits>>

-----------------------------------------------------------------------------
(* The worker: execute_schedule_job on a service loaded for this delivery. *)

WorkerFrame == UNCHANGED <<now, keys, disp, api, apiCommits>>

\* Load PostgreSQL and decide whether the delivery still matches its schedule.
WorkerTake(o) ==
  /\ work.pc = "idle"
  /\ rq[o].st = "queued"
  /\ rq' = [rq EXCEPT ![o].st = "started"]
  /\ work' = IF DeliveryMatches(jobs[o.sched], o, now)
                THEN [pc |-> "run", of |-> o, at |-> now, jobs |-> jobs, target |-> target,
                      tasks |-> tasks, ok |-> TRUE, unsaved |-> FALSE]
                ELSE Returning(o)
  /\ UNCHANGED <<pg, faults>>
  /\ WorkerFrame

\* Rows the worker's service holds are written over whatever is there.
WorkerWritesBack(held) ==
  /\ jobs' = Upsert(jobs, held.jobs)
  /\ target' = held.target

\* The deterministic task is already there: create_task returns it.
WorkerFindsTask ==
  /\ work.pc = "run"
  /\ Kind[work.of.sched] = "create_task"
  /\ \E t \in work.tasks : t.id = TaskId(work.of)
  /\ work' = [work EXCEPT !.pc = "record"]
  /\ UNCHANGED <<pg, rq, faults>>
  /\ WorkerFrame

\* create_task inserts the task and syncs: a first commit, before the job advances.
WorkerCreatesTask ==
  /\ work.pc = "run"
  /\ Kind[work.of.sched] = "create_task"
  /\ ~ \E t \in work.tasks : t.id = TaskId(work.of)
  /\ tasks' = tasks \cup {ScheduledTask(work.of)}
  /\ WorkerWritesBack(work)
  /\ work' = [work EXCEPT !.pc = "record"]
  /\ UNCHANGED <<wfRuns, execs, rq, faults>>
  /\ WorkerFrame

\* Mutated: the condition of the skip is inverted.
WorkerSkipsOpen ==
  /\ work.pc = "run"
  /\ Kind[work.of.sched] = "run_task"
  /\ work.target[work.of.sched] # "completed"
  /\ work' = [work EXCEPT !.pc = "record"]
  /\ UNCHANGED <<pg, rq, faults>>
  /\ WorkerFrame

\* run_task is skipped for a task that is already completed.
WorkerSkipsTarget ==
  /\ work.pc = "run"
  /\ Kind[work.of.sched] = "run_task"
  /\ work.target[work.of.sched] = "completed"
  /\ work' = [work EXCEPT !.pc = "record"]
  /\ UNCHANGED <<pg, rq, faults>>
  /\ WorkerFrame

\* Mutated: a completed target is run again.
WorkerRunsAny(outcome) ==
  /\ work.pc = "run"
  /\ Kind[work.of.sched] = "run_task"
  /\ LET after == [work EXCEPT !.pc = "record", !.ok = outcome # "blocked",
                               !.target[work.of.sched] = outcome]
     IN  /\ work' = after
         /\ WorkerWritesBack(after)
  /\ wfRuns' = [wfRuns EXCEPT ![work.of] = @ + 1]
  /\ UNCHANGED <<tasks, execs, rq, faults>>
  /\ WorkerFrame

WorkerRunsTarget(outcome) ==
  /\ work.pc = "run"
  /\ Kind[work.of.sched] = "run_task"
  /\ work.target[work.of.sched] # "completed"
  /\ LET after == [work EXCEPT !.pc = "record", !.ok = outcome # "blocked",
                               !.target[work.of.sched] = outcome]
     IN  /\ work' = after
         /\ WorkerWritesBack(after)
  /\ wfRuns' = [wfRuns EXCEPT ![work.of] = @ + 1]
  /\ UNCHANGED <<tasks, execs, rq, faults>>
  /\ WorkerFrame

\* The sync inside the action raises: the attempt counts as failed, but the
\* rows stay in memory and go out with the final commit.
WorkerEffectUnsaved(outcome) ==
  LET s == work.of.sched IN
  /\ work.pc = "run"
  /\ faults < MaxFaults
  /\ IF Kind[s] = "create_task"
       THEN ~ \E t \in work.tasks : t.id = TaskId(work.of)
       ELSE work.target[s] # "completed"
  /\ work' = [work EXCEPT !.pc = "record", !.ok = FALSE, !.unsaved = TRUE,
                          !.target[s] = IF Kind[s] = "run_task" THEN outcome ELSE @]
  /\ faults' = faults + 1
  /\ UNCHANGED <<pg, rq>>
  /\ WorkerFrame

\* Mutated: the clock is read again for the next run.
WorkerRecordsLater ==
  LET o == work.of
      s == o.sched
      after == [work EXCEPT !.jobs[s] = AfterRun(s, @, now, work.ok)]
  IN
  /\ work.pc = "record"
  /\ work' = Returning(o)
  /\ WorkerWritesBack(after)
  /\ execs' = Append(execs, [of |-> o, at |-> work.at, ok |-> work.ok])
  /\ tasks' = IF work.unsaved /\ Kind[s] = "create_task"
                THEN tasks \cup {ScheduledTask(o)} ELSE tasks
  /\ wfRuns' = IF work.unsaved /\ Kind[s] = "run_task"
                 THEN [wfRuns EXCEPT ![o] = @ + 1] ELSE wfRuns
  /\ UNCHANGED <<rq, faults>>
  /\ WorkerFrame

\* The job advances, the execution row is added and everything is synced.
WorkerRecords ==
  LET o == work.of
      s == o.sched
      after == [work EXCEPT !.jobs[s] = AfterRun(s, @, work.at, work.ok)]
  IN
  /\ work.pc = "record"
  /\ work' = Returning(o)
  /\ WorkerWritesBack(after)
  /\ execs' = Append(execs, [of |-> o, at |-> work.at, ok |-> work.ok])
  /\ tasks' = IF work.unsaved /\ Kind[s] = "create_task"
                THEN tasks \cup {ScheduledTask(o)} ELSE tasks
  /\ wfRuns' = IF work.unsaved /\ Kind[s] = "run_task"
                 THEN [wfRuns EXCEPT ![o] = @ + 1] ELSE wfRuns
  /\ UNCHANGED <<rq, faults>>
  /\ WorkerFrame

\* RQ marks the job finished once the function has returned.
WorkerAcks ==
  /\ work.pc = "ack"
  /\ rq' = [rq EXCEPT ![work.of] = [st |-> "finished", left |-> 0]]
  /\ work' = IdleWorker
  /\ UNCHANGED <<pg, faults>>
  /\ WorkerFrame

\* The worker dies or PostgreSQL refuses the final sync: RQ delivers the job
\* again until its retries are used up.
WorkerFails ==
  /\ work.pc # "idle"
  /\ faults < MaxFaults
  /\ rq' = [rq EXCEPT ![work.of] =
              IF @.left > 0 THEN [st |-> "queued", left |-> @.left - 1]
                            ELSE [st |-> "failed", left |-> 0]]
  /\ work' = IdleWorker
  /\ faults' = faults + 1
  /\ UNCHANGED pg
  /\ WorkerFrame

-----------------------------------------------------------------------------
(* The API process: every change is made in memory and followed by a sync  *)
(* of everything it holds.                                                 *)

ApiCommit(held) ==
  /\ apiCommits < MaxApiCommits
  /\ apiCommits' = apiCommits + 1
  /\ api' = held
  /\ jobs' = Upsert(jobs, held.jobs)
  /\ target' = held.target
  /\ UNCHANGED <<now, tasks, wfRuns, execs, redis, disp, work, faults>>

ApiCreates(s, n) ==
  /\ api.jobs[s].status = "absent"
  /\ ApiCommit([api EXCEPT !.jobs[s] = NewJob(n)])

ApiPauses(s) ==
  /\ CanPause(api.jobs[s])
  /\ ApiCommit([api EXCEPT !.jobs[s] = Paused(@)])

ApiResumes(s) ==
  /\ CanResume(api.jobs[s])
  /\ ApiCommit([api EXCEPT !.jobs[s] = Resumed(@)])

ApiCancels(s) ==
  /\ CanCancel(api.jobs[s])
  /\ ApiCommit([api EXCEPT !.jobs[s] = Cancelled(@)])

\* Any other request that ends in a sync.
ApiSyncs == ApiCommit(api)

\* A restart reloads the state; it matters only if the API writes again.
ApiRestarts ==
  /\ apiCommits < MaxApiCommits
  /\ api' = [jobs |-> jobs, target |-> target]
  /\ UNCHANGED <<now, pg, redis, disp, work, faults, apiCommits>>

-----------------------------------------------------------------------------
Dispatches ==
  \/ DispatchScan
  \/ DispatchAcquire
  \/ DispatchFindsPrior
  \/ DispatchEnqueue

Works ==
  \/ \E o \in Occurrences : WorkerTake(o)
  \/ WorkerFindsTask
  \/ WorkerCreatesTask
  \/ WorkerSkipsTarget
  \/ \E outcome \in TargetStatus \ {"open"} : WorkerRunsTarget(outcome)
  \/ WorkerRecords
  \/ WorkerAcks

RedisForgets ==
  \/ \E o \in Occurrences : KeyExpires(o)
  \/ \E o \in Occurrences : RqForgets(o)

Faults ==
  \/ \E landed \in BOOLEAN : DispatchEnqueueFails(landed)
  \/ DispatcherCrash
  \/ \E outcome \in TargetStatus \ {"open"} : WorkerEffectUnsaved(outcome)
  \/ WorkerFails

ApiWrites ==
  \/ \E s \in Schedules, n \in 0 .. MaxTime : ApiCreates(s, n)
  \/ \E s \in Schedules : ApiPauses(s) \/ ApiResumes(s) \/ ApiCancels(s)
  \/ ApiSyncs
  \/ ApiRestarts

Next == Tick \/ Dispatches \/ Works \/ RedisForgets \/ Faults \/ ApiWrites

Spec == Init /\ [][Next]_vars

\* The dispatcher loops for ever, the worker serves its queue, and Redis and
\* RQ honour every TTL; nothing makes the clock, a fault or a request happen.
Fairness ==
  /\ WF_vars(Dispatches)
  /\ WF_vars(Works)
  /\ \A o \in Occurrences : WF_vars(KeyExpires(o)) /\ WF_vars(RqForgets(o))

FairSpec == Spec /\ Fairness

-----------------------------------------------------------------------------
WorkerStates ==
  {IdleWorker} \cup {Returning(o) : o \in Occurrences} \cup
  [pc : {"run", "record"}, of : Occurrences, at : Times,
   jobs : [Schedules -> Jobs], target : [Schedules -> TargetStatus],
   tasks : SUBSET [id : Occurrences, of : Occurrences],
   ok : BOOLEAN, unsaved : BOOLEAN]

\* Every variable keeps its shape.
TypeOK ==
  /\ now \in 0 .. MaxTime
  /\ jobs \in [Schedules -> Jobs]
  /\ target \in [Schedules -> TargetStatus]
  /\ tasks \subseteq [id : Occurrences, of : Occurrences]
  /\ wfRuns \in [Occurrences -> Nat]
  /\ execs \in Seq([of : Occurrences, at : Times, ok : BOOLEAN])
  /\ keys \subseteq Occurrences
  /\ rq \in [Occurrences -> RqJobs]
  /\ disp \in [pc : {"idle", "scan", "acquired"}, pending : SUBSET Occurrences]
  /\ work \in WorkerStates
  /\ api \in [jobs : [Schedules -> Jobs], target : [Schedules -> TargetStatus]]
  /\ faults \in Nat
  /\ apiCommits \in Nat

\* While the API process commits nothing, dispatcher and worker crashes, lost
\* keys, replays and late deliveries never record two executions of one
\* occurrence (execute_queued_schedule's match on status and next_run_at).
OneExecutionPerOccurrence ==
  apiCommits = 0 =>
    \A i, j \in DOMAIN execs : execs[i].of = execs[j].of => i = j

ExecutionsOf(s) == {i \in DOMAIN execs : execs[i].of.sched = s}

\* While the API commits nothing, run_count is the number of execution rows
\* and neither exceeds max_runs.
RunCountIsHistory ==
  apiCommits = 0 =>
    \A s \in Schedules :
      /\ jobs[s].runs = Cardinality(ExecutionsOf(s))
      /\ MaxRuns[s] # 0 => jobs[s].runs <= MaxRuns[s]

\* Retries, expired keys and stale writes by the API never make two tasks for
\* one occurrence: the id derived from the token is found again.
OneTaskPerOccurrence == \A t, u \in tasks : t.of = u.of => t = u

\* A successful execution row never precedes its effect: the task it made is
\* stored, or the workflow of its target has run.
SuccessHasEffect ==
  \A i \in DOMAIN execs :
    LET o == execs[i].of IN
    execs[i].ok =>
      IF Kind[o.sched] = "create_task"
        THEN \E t \in tasks : t.of = o
        ELSE \E p \in Occurrences : p.sched = o.sched /\ wfRuns[p] > 0

\* While the API commits nothing, two recorded attempts of a schedule are at
\* least its interval apart, however late deliveries arrive and however often
\* they are replayed (execute_queued_schedule counts the next run from now).
AttemptsKeepInterval ==
  apiCommits = 0 =>
    \A i, j \in DOMAIN execs :
      i < j /\ execs[i].of.sched = execs[j].of.sched =>
        execs[i].at + Interval[execs[i].of.sched] <= execs[j].at

\* Without API commits, a task some delivery completed is not run again by a
\* later delivery or retry.
CompletedTargetNotRerun ==
  [][\A s \in Schedules :
       target[s] = "completed" /\ apiCommits' = 0 =>
         \A o \in Occurrences : o.sched = s => wfRuns'[o] = wfRuns[o]]_vars

Due(o) == IsDue(jobs[o.sched], now) /\ Occurrence(o.sched, jobs[o.sched]) = o

\* Every due occurrence is executed in the end (or its schedule stops being
\* active), however the delivery key or the queue job was lost.
DueIsServed == \A o \in Occurrences : Due(o) ~> ~Due(o)

Ledger == INSTANCE ScheduleLedger WITH jobs <- jobs, execs <- execs

\* With a quiet API the delivery machinery is invisible: jobs and execution
\* rows change exactly as the ledger says.
ImplementsLedger == Ledger!Spec
=============================================================================
