---------------------- MODULE ScheduleDelivery_proofs ----------------------
(***************************************************************************)
(* Proofs about ScheduleDelivery, for every set of schedules, every        *)
(* interval, limit and bound: its invariants, that it implements the       *)
(* ledger of attempts when the API process commits nothing, and what the   *)
(* rows of the ledger say of the effects.                                  *)
(***************************************************************************)
EXTENDS ScheduleDelivery, FiniteSetTheorems, WellFoundedInduction, TLAPS

-----------------------------------------------------------------------------
(* The dispatcher always has a first occurrence to take. *)

\* A non-empty set of natural numbers has a least element.
LEMMA LeastNatural ==
  ASSUME NEW S \in SUBSET Nat, S # {}
  PROVE  \E n \in S : \A m \in S : n <= m
<1>1. PICK n \in S : \A m \in S : <<m, n>> \notin OpToRel(<, Nat)
  BY NatLessThanWellFounded, WFMin
<1>2. \A m \in S : ~(m < n)
  BY <1>1 DEF OpToRel
<1> QED
  BY <1>2

\* A non-empty set of occurrences has one that is before all the others: the
\* sort key (next_run_at, schedule_id) of list_due_scheduled_jobs is total.
LEMMA EarliestExists ==
  ASSUME NEW S \in SUBSET Occurrences, S # {}
  PROVE  Earliest(S) \in S
<1>1. \A o \in S : o \in [sched : Schedules, due : 0 .. Horizon]
  BY DEF Occurrences, Times
<1>2. \A o \in S : o.due \in Nat
  BY <1>1, HorizonAssumption
<1>3. \A o \in S : o.sched \in Nat
  BY <1>1, SchedulesAssumption
<1>4. PICK d \in {o.due : o \in S} : \A e \in {o.due : o \in S} : d <= e
  <2>1. {o.due : o \in S} \in SUBSET Nat /\ {o.due : o \in S} # {}
    BY <1>2
  <2> QED
    BY <2>1, LeastNatural
<1> DEFINE T == {o \in S : o.due = d}
<1>5. PICK i \in {o.sched : o \in T} : \A k \in {o.sched : o \in T} : i <= k
  <2>1. {o.sched : o \in T} \in SUBSET Nat /\ {o.sched : o \in T} # {}
    BY <1>3, <1>4
  <2> HIDE DEF T
  <2> QED
    BY <2>1, LeastNatural
<1>6. PICK o \in S : o.due = d /\ o.sched = i
  BY <1>5
<1>7. \A p \in S \ {o} : Before(o, p)
  <2> SUFFICES ASSUME NEW p \in S, p # o
               PROVE  Before(o, p)
    OBVIOUS
  <2>1. d <= p.due
    BY <1>4
  <2>2. CASE p.due # d
    BY <1>2, <1>3, <1>6, <2>1, <2>2 DEF Before
  <2>3. CASE p.due = d
    <3>1. i <= p.sched
      BY <1>5, <2>3
    <3>2. p.sched # i
      BY <1>6, <2>3 DEF Occurrences
    <3> QED
      BY <1>2, <1>3, <1>6, <2>3, <3>1, <3>2 DEF Before
  <2> QED
    BY <2>2, <2>3
<1> QED
  BY <1>7 DEF Earliest

-----------------------------------------------------------------------------
(* Types of the record operators. *)

LEMMA NewJobType ==
  ASSUME NEW n \in Times
  PROVE  NewJob(n) \in Jobs
BY DEF NewJob, Jobs, JobStatus

LEMMA NoJobType == NoJob \in Jobs
BY HorizonAssumption DEF NoJob, Jobs, JobStatus, Times

LEMMA OccurrenceType ==
  ASSUME NEW s \in Schedules, NEW j \in Jobs
  PROVE  Occurrence(s, j) \in Occurrences
BY DEF Occurrence, Occurrences, Jobs

\* The next occurrence of a schedule attempted within the clock stays in the
\* horizon (execute_queued_schedule and tick_scheduler set now + interval).
LEMMA AfterRunType ==
  ASSUME NEW s \in Schedules, NEW j \in Jobs, NEW at \in 0 .. MaxTime, NEW ok \in BOOLEAN
  PROVE  AfterRun(s, j, at, ok) \in Jobs
<1>1. at + Interval[s] \in Times
  BY MaxTimeAssumption, TimingAssumption, HorizonAssumption DEF Times
<1>2. j.next \in Times /\ j.runs + 1 \in Nat
  BY DEF Jobs
<1>3. (IF ok THEN j.failures ELSE j.failures + 1) \in Nat
  BY DEF Jobs
<1>4. (IF Recurs(s, j.runs + 1) THEN at + Interval[s] ELSE j.next) \in Times
  BY <1>1, <1>2
<1>5. (IF Recurs(s, j.runs + 1) THEN "active"
       ELSE IF ok THEN "completed" ELSE "failed") \in JobStatus
  BY DEF JobStatus
<1> QED
  BY <1>2, <1>3, <1>4, <1>5 DEF AfterRun, Jobs

LEMMA UpsertType ==
  ASSUME NEW table \in [Schedules -> Jobs], NEW held \in [Schedules -> Jobs]
  PROVE  Upsert(table, held) \in [Schedules -> Jobs]
BY DEF Upsert

LEMMA DueBatchType ==
  ASSUME NEW table \in [Schedules -> Jobs], NEW t, NEW limit
  PROVE  DueBatch(table, t, limit) \in SUBSET Occurrences
BY OccurrenceType DEF DueBatch

-----------------------------------------------------------------------------
(* Type correctness.  The types alone are not inductive: that the next time *)
(* of a schedule stays in the horizon needs the attempt's time to be one    *)
(* the clock has shown, and that the dispatcher's key is an occurrence      *)
(* needs its batch to be non-empty.                                         *)

Executing == work.pc \in {"run", "record"}

ExecutingStates ==
  [pc : {"run", "record"}, of : Occurrences, at : Times,
   jobs : [Schedules -> Jobs], target : [Schedules -> TargetStatus],
   tasks : SUBSET [id : Occurrences, of : Occurrences],
   ok : BOOLEAN, unsaved : BOOLEAN]

Rows == [of : Occurrences, at : Times, ok : BOOLEAN]

BatchNotEmpty == disp.pc # "idle" => disp.pending # {}
DeliveryWasDue == Executing => work.of.due <= work.at /\ work.at <= now

TypeInv == TypeOK /\ BatchNotEmpty /\ DeliveryWasDue

LEMMA ExecutingType ==
  ASSUME TypeOK, Executing
  PROVE  work \in ExecutingStates
BY DEF TypeOK, Executing, WorkerStates, ExecutingStates, IdleWorker, Returning

LEMMA WorkOfType ==
  ASSUME TypeOK, work.pc # "idle"
  PROVE  work.of \in Occurrences
BY DEF TypeOK, WorkerStates, IdleWorker, Returning

LEMMA HeadType ==
  ASSUME TypeOK, BatchNotEmpty, disp.pc # "idle"
  PROVE  /\ Head1 \in disp.pending
         /\ Head1 \in Occurrences
         /\ AfterHead \in [pc : {"idle", "scan", "acquired"}, pending : SUBSET Occurrences]
         /\ AfterHead.pc # "idle" => AfterHead.pending # {}
<1>1. disp.pending \in SUBSET Occurrences /\ disp.pending # {}
  BY DEF TypeOK, BatchNotEmpty
<1>2. Head1 \in disp.pending
  BY <1>1, EarliestExists DEF Head1
<1>3. Others \in SUBSET Occurrences
  BY <1>1 DEF Others
<1>4. CASE Others = {}
  BY <1>1, <1>2, <1>4 DEF AfterHead, IdleDispatcher
<1>5. CASE Others # {}
  BY <1>1, <1>2, <1>3, <1>5 DEF AfterHead
<1> QED
  BY <1>4, <1>5

LEMMA TypeInit == Init => TypeInv
<1> SUFFICES ASSUME Init PROVE TypeInv
  OBVIOUS
<1>1. jobs \in [Schedules -> Jobs]
  <2>1. \A s \in DOMAIN FirstDue : FirstDue[s] \in Times
    BY FirstDueAssumption
  <2> QED
    BY <2>1, NewJobType, NoJobType DEF Init
<1>2. target \in [Schedules -> TargetStatus]
  BY DEF Init, TargetStatus
<1>3. rq \in [Occurrences -> RqJobs]
  BY DEF Init, RqJobs, NoRqJob
<1>4. now \in 0 .. MaxTime /\ tasks = {} /\ keys = {} /\ execs = << >>
  BY MaxTimeAssumption DEF Init
<1>5. wfRuns \in [Occurrences -> Nat] /\ faults \in Nat /\ apiCommits \in Nat
  BY DEF Init
<1>6. disp = IdleDispatcher /\ work = IdleWorker /\ api = [jobs |-> jobs, target |-> target]
  BY DEF Init
<1>7. TypeOK
  BY <1>1, <1>2, <1>3, <1>4, <1>5, <1>6 DEF TypeOK, IdleDispatcher, WorkerStates
<1> QED
  BY <1>6, <1>7 DEF TypeInv, BatchNotEmpty, DeliveryWasDue, Executing, IdleDispatcher, IdleWorker

LEMMA ClockTypeStep == TypeInv /\ Tick => TypeInv'
<1> SUFFICES ASSUME TypeInv, Tick PROVE TypeInv'
  OBVIOUS
<1>1. TypeOK'
  BY MaxTimeAssumption DEF TypeInv, TypeOK, Tick, pg, redis
<1>2. BatchNotEmpty'
  BY DEF TypeInv, BatchNotEmpty, Tick
<1>3. DeliveryWasDue'
  <2> SUFFICES ASSUME Executing PROVE work.of.due <= work.at /\ work.at <= now + 1
    BY DEF Tick, DeliveryWasDue, Executing
  <2>1. work.at \in Nat
    BY ExecutingType, HorizonAssumption DEF TypeInv, ExecutingStates, Times
  <2> QED
    BY <2>1, MaxTimeAssumption DEF TypeInv, TypeOK, DeliveryWasDue
<1> QED
  BY <1>1, <1>2, <1>3 DEF TypeInv

DispatcherSteps ==
  \/ Dispatches
  \/ \E landed \in BOOLEAN : DispatchEnqueueFails(landed)
  \/ DispatcherCrash

LEMMA DispatcherTypeStep == TypeInv /\ DispatcherSteps => TypeInv'
<1> SUFFICES ASSUME TypeInv, DispatcherSteps PROVE TypeInv'
  OBVIOUS
<1> USE DEF TypeInv
<1> DEFINE Dispatchers == [pc : {"idle", "scan", "acquired"}, pending : SUBSET Occurrences]
           EnqueuedType == [rq EXCEPT ![Head1] = [st |-> "queued", left |-> RetryMax]]
                              \in [Occurrences -> RqJobs]
<1>1. /\ UNCHANGED <<now, pg, work, api, apiCommits>>
      /\ disp' \in Dispatchers
      /\ disp'.pc # "idle" => disp'.pending # {}
      /\ keys' \in SUBSET Occurrences
      /\ rq' \in [Occurrences -> RqJobs]
      /\ faults' \in Nat
  <2> USE DEF DispatcherFrame
  <2>1. IdleDispatcher \in Dispatchers /\ IdleDispatcher.pc = "idle"
    BY DEF IdleDispatcher
  <2>2. disp \in Dispatchers /\ keys \in SUBSET Occurrences
    BY DEF TypeOK
  <2>3. EnqueuedType
    BY BoundsAssumption DEF TypeOK, RqJobs
  <2>4. CASE DispatchScan
    <3>1. DueBatch(jobs, now, Limit) \in SUBSET Occurrences
      BY DueBatchType DEF TypeOK
    <3> QED
      BY <2>4, <3>1 DEF DispatchScan, TypeOK, redis
  <2>5. CASE DispatchAcquire
    <3>1. disp.pc = "scan"
      BY <2>5 DEF DispatchAcquire
    <3>2. Head1 \in Occurrences /\ AfterHead \in Dispatchers
          /\ (AfterHead.pc # "idle" => AfterHead.pending # {})
      BY <3>1, HeadType
    <3>3. [disp EXCEPT !.pc = "acquired"] \in Dispatchers
          /\ [disp EXCEPT !.pc = "acquired"].pending # {}
      BY <2>2, <3>1 DEF BatchNotEmpty
    <3> QED
      BY <2>5, <2>2, <3>2, <3>3 DEF DispatchAcquire, TypeOK
  <2>6. CASE DispatchFindsPrior
    BY <2>6, HeadType DEF DispatchFindsPrior, TypeOK, redis
  <2>7. CASE DispatchEnqueue
    BY <2>7, <2>3, HeadType DEF DispatchEnqueue, TypeOK
  <2>8. ASSUME NEW landed \in BOOLEAN, DispatchEnqueueFails(landed)
        PROVE  <1>1!:
    BY <2>8, <2>1, <2>3 DEF DispatchEnqueueFails, TypeOK
  <2>9. CASE DispatcherCrash
    BY <2>9, <2>1 DEF DispatcherCrash, TypeOK, redis
  <2> QED
    BY <2>4, <2>5, <2>6, <2>7, <2>8, <2>9 DEF DispatcherSteps, Dispatches
<1> QED
  BY <1>1 DEF TypeOK, BatchNotEmpty, DeliveryWasDue, Executing, pg

LEMMA RedisTypeStep == TypeInv /\ RedisForgets => TypeInv'
<1> SUFFICES ASSUME TypeInv, RedisForgets PROVE TypeInv'
  OBVIOUS
<1>1. /\ UNCHANGED <<now, pg, disp, work, api, faults, apiCommits>>
      /\ keys' \in SUBSET Occurrences
      /\ rq' \in [Occurrences -> RqJobs]
  <2>1. ASSUME NEW o \in Occurrences, KeyExpires(o)
        PROVE  <1>1!:
    BY <2>1 DEF TypeInv, TypeOK, KeyExpires
  <2>2. ASSUME NEW o \in Occurrences, RqForgets(o)
        PROVE  <1>1!:
    <3>1. NoRqJob \in RqJobs
      BY DEF NoRqJob, RqJobs
    <3> QED
      BY <2>2, <3>1 DEF TypeInv, TypeOK, RqForgets
  <2> QED
    BY <2>1, <2>2 DEF RedisForgets
<1> QED
  BY <1>1 DEF TypeInv, TypeOK, BatchNotEmpty, DeliveryWasDue, Executing, pg

WorkerSteps ==
  \/ Works
  \/ \E outcome \in TargetStatus \ {"open"} : WorkerEffectUnsaved(outcome)
  \/ WorkerFails

\* Every worker step leaves the worker idle, returning, or executing.
LEMMA WorkerStateTypes ==
  /\ IdleWorker \in WorkerStates
  /\ \A o \in Occurrences : Returning(o) \in WorkerStates
  /\ ExecutingStates \subseteq WorkerStates
BY DEF WorkerStates, ExecutingStates

LEMMA TakeTypeStep ==
  ASSUME TypeInv, NEW o \in Occurrences, WorkerTake(o)
  PROVE  TypeInv'
<1> USE DEF TypeInv
<1>1. /\ UNCHANGED <<now, pg, keys, disp, api, faults, apiCommits>>
      /\ rq' \in [Occurrences -> RqJobs]
  BY DEF WorkerTake, WorkerFrame, TypeOK, RqJobs
<1>2. work' \in WorkerStates /\ DeliveryWasDue'
  <2>1. CASE DeliveryMatches(jobs[o.sched], o, now)
    <3>1. /\ o.sched \in Schedules /\ o.due \in Times
          /\ jobs[o.sched].next = o.due /\ jobs[o.sched].next <= now
      BY <2>1 DEF DeliveryMatches, Occurrences
    <3>2. now \in Times
      <4>1. Interval[o.sched] \in Nat /\ MaxTime + Interval[o.sched] <= Horizon
        BY <3>1, TimingAssumption, MaxTimeAssumption
      <4> QED
        BY <4>1, MaxTimeAssumption, HorizonAssumption DEF TypeOK, Times
    <3>3. work' = [pc |-> "run", of |-> o, at |-> now, jobs |-> jobs, target |-> target,
                   tasks |-> tasks, ok |-> TRUE, unsaved |-> FALSE]
      BY <2>1 DEF WorkerTake
    <3>4. work' \in ExecutingStates
      BY <3>2, <3>3 DEF ExecutingStates, TypeOK
    <3>5. work'.of = o /\ work'.at = now
      BY <3>3
    <3>6. DeliveryWasDue'
      BY <1>1, <3>1, <3>2, <3>5, HorizonAssumption DEF DeliveryWasDue, Times
    <3> QED
      BY <3>4, <3>6, WorkerStateTypes
  <2>2. CASE ~DeliveryMatches(jobs[o.sched], o, now)
    <3>1. work' = Returning(o)
      BY <2>2 DEF WorkerTake
    <3> QED
      BY <3>1, WorkerStateTypes DEF Returning, DeliveryWasDue, Executing
  <2> QED
    BY <2>1, <2>2
<1> QED
  BY <1>1, <1>2 DEF TypeOK, BatchNotEmpty, pg

\* The steps of an execution keep what the worker took up, and what they write
\* has the type of the rows.
LEMMA EffectTypeStep ==
  ASSUME TypeInv,
         \/ WorkerFindsTask
         \/ WorkerCreatesTask
         \/ WorkerSkipsTarget
         \/ \E outcome \in TargetStatus \ {"open"} :
              WorkerRunsTarget(outcome) \/ WorkerEffectUnsaved(outcome)
  PROVE  TypeInv'
<1> USE DEF TypeInv
<1>1. Executing /\ work \in ExecutingStates
  BY ExecutingType
     DEF Executing, WorkerFindsTask, WorkerCreatesTask, WorkerSkipsTarget, WorkerRunsTarget,
         WorkerEffectUnsaved
<1>2. work.of \in Occurrences /\ work.of.sched \in Schedules
  BY <1>1 DEF ExecutingStates, Occurrences
<1>3. ScheduledTask(work.of) \in [id : Occurrences, of : Occurrences]
  BY <1>2 DEF ScheduledTask, TaskId
<1>4. Upsert(jobs, work.jobs) \in [Schedules -> Jobs]
  BY <1>1, UpsertType DEF TypeOK, ExecutingStates
<1> DEFINE Kept == work'.of = work.of /\ work'.at = work.at
           Frame == UNCHANGED <<now, execs, rq, keys, disp, api, apiCommits>>
           Stored == /\ jobs' \in [Schedules -> Jobs]
                     /\ target' \in [Schedules -> TargetStatus]
                     /\ tasks' \subseteq [id : Occurrences, of : Occurrences]
                     /\ wfRuns' \in [Occurrences -> Nat]
                     /\ faults' \in Nat
<1>5. Frame /\ Stored /\ work' \in ExecutingStates /\ Kept
  <2> USE DEF WorkerFrame
  <2>1. [work EXCEPT !.pc = "record"] \in ExecutingStates
    BY <1>1 DEF ExecutingStates
  <2>2. CASE WorkerFindsTask
    BY <2>2, <2>1, <1>1 DEF WorkerFindsTask, TypeOK, pg, ExecutingStates
  <2>3. CASE WorkerCreatesTask
    <3>1. work' = [work EXCEPT !.pc = "record"] /\ Frame /\ UNCHANGED <<wfRuns, faults>>
      BY <2>3 DEF WorkerCreatesTask
    <3>2. jobs' \in [Schedules -> Jobs]
      BY <2>3, <1>4 DEF WorkerCreatesTask, WorkerWritesBack
    <3>3. target' \in [Schedules -> TargetStatus]
      BY <2>3, <1>1 DEF WorkerCreatesTask, WorkerWritesBack, ExecutingStates
    <3>4. tasks' \subseteq [id : Occurrences, of : Occurrences]
      BY <2>3, <1>3 DEF WorkerCreatesTask, TypeOK
    <3>5. Kept
      BY <3>1, <1>1 DEF ExecutingStates
    <3> QED
      BY <3>1, <3>2, <3>3, <3>4, <3>5, <2>1 DEF TypeOK
  <2>4. CASE WorkerSkipsTarget
    BY <2>4, <2>1, <1>1 DEF WorkerSkipsTarget, TypeOK, pg, ExecutingStates
  <2>5. ASSUME NEW outcome \in TargetStatus \ {"open"}, WorkerRunsTarget(outcome)
        PROVE  <1>5!:
    <3>1. work' = [work EXCEPT !.pc = "record", !.ok = outcome # "blocked",
                               !.target[work.of.sched] = outcome]
          /\ Frame /\ UNCHANGED <<tasks, faults>>
      BY <2>5 DEF WorkerRunsTarget
    <3>2. work' \in ExecutingStates /\ Kept
      BY <3>1, <1>1 DEF ExecutingStates
    <3>3. jobs' = Upsert(jobs, work.jobs) /\ target' = work'.target
      BY <2>5, <1>1, <3>1 DEF WorkerRunsTarget, WorkerWritesBack, ExecutingStates
    <3>4. wfRuns' \in [Occurrences -> Nat]
      <4>1. wfRuns' = [wfRuns EXCEPT ![work.of] = @ + 1]
        BY <2>5 DEF WorkerRunsTarget
      <4>2. wfRuns \in [Occurrences -> Nat]
        BY DEF TypeOK
      <4> QED
        BY <4>1, <4>2, <1>2
    <3> QED
      BY <3>1, <3>2, <3>3, <3>4, <1>4 DEF TypeOK, ExecutingStates
  <2>6. ASSUME NEW outcome \in TargetStatus \ {"open"}, WorkerEffectUnsaved(outcome)
        PROVE  <1>5!:
    <3>1. Frame /\ UNCHANGED pg /\ faults' = faults + 1
      BY <2>6 DEF WorkerEffectUnsaved, pg
    <3>2. PICK v \in TargetStatus :
            work' = [work EXCEPT !.pc = "record", !.ok = FALSE, !.unsaved = TRUE,
                                 !.target[work.of.sched] = v]
      BY <2>6, <1>1, <1>2 DEF WorkerEffectUnsaved, ExecutingStates
    <3>3. work' \in ExecutingStates /\ Kept
      BY <3>2, <1>1 DEF ExecutingStates
    <3> QED
      BY <3>1, <3>3 DEF TypeOK, pg
  <2> QED
    BY <2>2, <2>3, <2>4, <2>5, <2>6
<1>6. DeliveryWasDue'
  BY <1>1, <1>5 DEF DeliveryWasDue
<1> QED
  BY <1>5, <1>6, WorkerStateTypes DEF TypeOK, BatchNotEmpty

\* What WorkerRecords writes over the schedule it executed.
Advanced == AfterRun(work.of.sched, work.jobs[work.of.sched], work.at, work.ok)
Held == [work.jobs EXCEPT ![work.of.sched] = Advanced]
Row == [of |-> work.of, at |-> work.at, ok |-> work.ok]

LEMMA RecordWrites ==
  ASSUME TypeInv, WorkerRecords
  PROVE  /\ Executing /\ work \in ExecutingStates
         /\ work.of \in Occurrences /\ work.of.sched \in Schedules
         /\ Held \in [Schedules -> Jobs]
         /\ jobs' = Upsert(jobs, Held)
         /\ target' = work.target
         /\ execs' = Append(execs, Row)
         /\ Row \in [of : Occurrences, at : Times, ok : BOOLEAN]
         /\ work' = Returning(work.of)
         /\ UNCHANGED <<now, rq, faults, keys, disp, api, apiCommits>>
<1>1. Executing /\ work \in ExecutingStates
  BY ExecutingType DEF TypeInv, Executing, WorkerRecords
<1>2. work.of \in Occurrences /\ work.of.sched \in Schedules
  BY <1>1 DEF ExecutingStates, Occurrences
<1>3. work.at \in 0 .. MaxTime
  <2>1. work.at \in Nat /\ work.at <= now /\ now \in 0 .. MaxTime
    BY <1>1, HorizonAssumption DEF TypeInv, TypeOK, DeliveryWasDue, ExecutingStates, Times
  <2> QED
    BY <2>1, MaxTimeAssumption
<1>4. work.jobs \in [Schedules -> Jobs] /\ work.ok \in BOOLEAN
  BY <1>1 DEF ExecutingStates
<1>5. Advanced \in Jobs
  BY <1>2, <1>3, <1>4, AfterRunType DEF Advanced
<1>6. Held \in [Schedules -> Jobs]
  BY <1>2, <1>4, <1>5 DEF Held
<1>7. [work EXCEPT !.jobs[work.of.sched] = Advanced].jobs = Held
  BY <1>1 DEF Held, ExecutingStates
<1>8. [work EXCEPT !.jobs[work.of.sched] = Advanced].target = work.target
  BY <1>1 DEF ExecutingStates
<1>9. jobs' = Upsert(jobs, Held) /\ target' = work.target
  BY <1>7, <1>8 DEF WorkerRecords, WorkerWritesBack, Advanced
<1>10. Row \in [of : Occurrences, at : Times, ok : BOOLEAN]
  BY <1>1 DEF Row, ExecutingStates
<1> QED
  BY <1>1, <1>2, <1>6, <1>9, <1>10 DEF WorkerRecords, WorkerFrame, Row

LEMMA RecordTypeStep ==
  ASSUME TypeInv, WorkerRecords
  PROVE  TypeInv'
<1>1. jobs' \in [Schedules -> Jobs] /\ target' \in [Schedules -> TargetStatus]
  <2>1. jobs \in [Schedules -> Jobs] /\ Held \in [Schedules -> Jobs]
    BY RecordWrites DEF TypeInv, TypeOK
  <2>2. Upsert(jobs, Held) \in [Schedules -> Jobs]
    BY <2>1, UpsertType
  <2>3. work.target \in [Schedules -> TargetStatus]
    BY RecordWrites DEF ExecutingStates
  <2> QED
    BY <2>2, <2>3, RecordWrites
<1>2. execs' \in Seq([of : Occurrences, at : Times, ok : BOOLEAN])
  <2>1. execs \in Seq(Rows) /\ Row \in Rows /\ execs' = Append(execs, Row)
    BY RecordWrites DEF TypeInv, TypeOK, Rows
  <2>2. execs' \in Seq(Rows)
    BY <2>1
  <2> QED
    BY <2>2 DEF Rows
<1>3. ScheduledTask(work.of) \in [id : Occurrences, of : Occurrences]
  BY RecordWrites DEF ScheduledTask, TaskId
<1>4. tasks' \subseteq [id : Occurrences, of : Occurrences]
  BY <1>3 DEF TypeInv, TypeOK, WorkerRecords
<1>5. wfRuns' \in [Occurrences -> Nat]
  <2>1. wfRuns' = wfRuns \/ wfRuns' = [wfRuns EXCEPT ![work.of] = @ + 1]
    BY DEF WorkerRecords
  <2>2. wfRuns \in [Occurrences -> Nat]
    BY DEF TypeInv, TypeOK
  <2> QED
    BY <2>1, <2>2, RecordWrites
<1>6. work' \in WorkerStates /\ ~Executing'
  BY RecordWrites, WorkerStateTypes DEF Returning, Executing
<1> QED
  BY <1>1, <1>2, <1>4, <1>5, <1>6, RecordWrites
     DEF TypeInv, TypeOK, BatchNotEmpty, DeliveryWasDue

LEMMA ReturnTypeStep ==
  ASSUME TypeInv, WorkerAcks \/ WorkerFails
  PROVE  TypeInv'
<1>1. work.of \in Occurrences
  BY WorkOfType DEF TypeInv, WorkerAcks, WorkerFails
<1>2. rq[work.of].left \in Nat
  BY <1>1 DEF TypeInv, TypeOK, RqJobs
<1>3. PICK j \in RqJobs : rq' = [rq EXCEPT ![work.of] = j]
  <2>1. CASE WorkerAcks
    BY <2>1 DEF WorkerAcks, RqJobs
  <2>2. CASE WorkerFails
    <3> DEFINE left == rq[work.of].left
               j == IF left > 0 THEN [st |-> "queued", left |-> left - 1]
                                ELSE [st |-> "failed", left |-> 0]
    <3>1. rq' = [rq EXCEPT ![work.of] = j]
      BY <2>2 DEF WorkerFails
    <3>2. j \in RqJobs
      BY <1>2 DEF RqJobs
    <3> HIDE DEF j
    <3> QED
      BY <3>1, <3>2
  <2> QED
    BY <2>1, <2>2
<1>4. rq' \in [Occurrences -> RqJobs]
  BY <1>3 DEF TypeInv, TypeOK
<1>5. /\ work' = IdleWorker
      /\ UNCHANGED <<now, pg, keys, disp, api, apiCommits>>
      /\ faults' \in Nat
  BY DEF WorkerAcks, WorkerFails, WorkerFrame, TypeInv, TypeOK
<1>6. work' \in WorkerStates /\ ~Executing'
  BY <1>5, WorkerStateTypes DEF IdleWorker, Executing
<1> QED
  BY <1>4, <1>5, <1>6 DEF TypeInv, TypeOK, BatchNotEmpty, DeliveryWasDue, pg

LEMMA WorkerTypeStep == TypeInv /\ WorkerSteps => TypeInv'
BY TakeTypeStep, EffectTypeStep, RecordTypeStep, ReturnTypeStep DEF WorkerSteps, Works

LEMMA ApiTypeStep == TypeInv /\ ApiWrites => TypeInv'
<1> SUFFICES ASSUME TypeInv, ApiWrites PROVE TypeInv'
  OBVIOUS
<1> DEFINE ApiStates == [jobs : [Schedules -> Jobs], target : [Schedules -> TargetStatus]]
<1>1. api \in ApiStates
  BY DEF TypeInv, TypeOK
<1>2. \A held \in ApiStates : ApiCommit(held) => TypeInv'
  <2> SUFFICES ASSUME NEW held \in ApiStates, ApiCommit(held) PROVE TypeInv'
    OBVIOUS
  <2>1. Upsert(jobs, held.jobs) \in [Schedules -> Jobs]
    BY UpsertType DEF TypeInv, TypeOK
  <2>2. /\ jobs' \in [Schedules -> Jobs] /\ target' \in [Schedules -> TargetStatus]
        /\ api' \in ApiStates /\ apiCommits' \in Nat
        /\ UNCHANGED <<now, tasks, wfRuns, execs, keys, rq, disp, work, faults>>
    BY <2>1 DEF ApiCommit, TypeInv, TypeOK, redis
  <2> QED
    BY <2>2 DEF TypeInv, TypeOK, BatchNotEmpty, DeliveryWasDue, Executing
<1>3. \A s \in Schedules, j \in Jobs : [api EXCEPT !.jobs[s] = j] \in ApiStates
  BY <1>1
<1>4. \A s \in Schedules :
        /\ Paused(api.jobs[s]) \in Jobs
        /\ Resumed(api.jobs[s]) \in Jobs
        /\ Cancelled(api.jobs[s]) \in Jobs
  BY <1>1 DEF Paused, Resumed, Cancelled, Jobs, JobStatus
<1>5. ASSUME NEW s \in Schedules, NEW n \in 0 .. MaxTime, ApiCreates(s, n)
      PROVE  TypeInv'
  <2>1. Interval[s] \in Nat /\ MaxTime + Interval[s] <= Horizon
    BY TimingAssumption, MaxTimeAssumption
  <2>2. n \in Times
    BY <2>1, MaxTimeAssumption, HorizonAssumption DEF Times
  <2> QED
    BY <1>2, <1>3, <1>5, <2>2, NewJobType DEF ApiCreates
<1>6. ASSUME NEW s \in Schedules, ApiPauses(s) \/ ApiResumes(s) \/ ApiCancels(s)
      PROVE  TypeInv'
  BY <1>2, <1>3, <1>4, <1>6 DEF ApiPauses, ApiResumes, ApiCancels
<1>7. CASE ApiSyncs
  BY <1>1, <1>2, <1>7 DEF ApiSyncs
<1>8. CASE ApiRestarts
  <2>1. api' \in ApiStates /\ UNCHANGED <<now, pg, redis, disp, work, faults, apiCommits>>
    BY <1>8 DEF ApiRestarts, TypeInv, TypeOK
  <2> QED
    BY <2>1 DEF TypeInv, TypeOK, BatchNotEmpty, DeliveryWasDue, Executing, pg, redis
<1> QED
  BY <1>5, <1>6, <1>7, <1>8 DEF ApiWrites

LEMMA TypeStep == TypeInv /\ [Next]_vars => TypeInv'
<1>1. TypeInv /\ UNCHANGED vars => TypeInv'
  BY DEF TypeInv, TypeOK, BatchNotEmpty, DeliveryWasDue, Executing, vars, pg, redis
<1>2. Next => Tick \/ DispatcherSteps \/ RedisForgets \/ WorkerSteps \/ ApiWrites
  BY DEF Next, Faults, DispatcherSteps, WorkerSteps
<1> QED
  BY <1>1, <1>2, ClockTypeStep, DispatcherTypeStep, RedisTypeStep, WorkerTypeStep, ApiTypeStep

\* Every variable of the delivery machinery keeps its type, for every set of
\* schedules, every interval and every bound.
THEOREM TypeCorrectness == Spec => []TypeOK
<1>1. Spec => []TypeInv
  BY TypeInit, TypeStep, PTL DEF Spec
<1>2. TypeInv => TypeOK
  BY DEF TypeInv
<1> QED
  BY <1>1, <1>2, PTL

-----------------------------------------------------------------------------
(* The history grows by one row at a time. *)

\* Execution rows are added by the worker's last commit and by nothing else.
LEMMA OnlyRecordsAppend ==
  ASSUME [Next]_vars, ~WorkerRecords
  PROVE  execs' = execs
BY DEF Next, vars, pg, redis, Tick, Dispatches, DispatchScan, DispatchAcquire,
       DispatchFindsPrior, DispatchEnqueue, DispatcherFrame, Works, WorkerTake,
       WorkerFindsTask, WorkerCreatesTask, WorkerSkipsTarget, WorkerRunsTarget,
       WorkerAcks, RedisForgets, KeyExpires, RqForgets, Faults, DispatchEnqueueFails,
       DispatcherCrash, WorkerEffectUnsaved, WorkerFails, ApiWrites, ApiCreates,
       ApiPauses, ApiResumes, ApiCancels, ApiSyncs, ApiRestarts, ApiCommit

LEMMA AppendedRow ==
  ASSUME TypeInv, WorkerRecords, NEW i \in DOMAIN execs'
  PROVE  execs'[i] = Row \/ (i \in DOMAIN execs /\ execs'[i] = execs[i])
<1>1. execs \in Seq(Rows) /\ Row \in Rows /\ execs' = Append(execs, Row)
  BY RecordWrites DEF TypeInv, TypeOK, Rows
<1> QED
  BY <1>1

LEMMA AppendedRows ==
  ASSUME TypeInv, WorkerRecords
  PROVE  /\ Len(execs) \in Nat
         /\ DOMAIN execs = 1 .. Len(execs) /\ DOMAIN execs' = 1 .. Len(execs) + 1
         /\ \A i \in DOMAIN execs : execs'[i] = execs[i] /\ execs[i] \in Rows
         /\ execs'[Len(execs) + 1] = Row
<1>1. execs \in Seq(Rows) /\ Row \in Rows /\ execs' = Append(execs, Row)
  BY RecordWrites DEF TypeInv, TypeOK, Rows
<1> QED
  BY <1>1

-----------------------------------------------------------------------------
(* A quiet API.  While the API process commits nothing, the worker is the   *)
(* only writer of schedules and targets, so the snapshot it executes on is  *)
(* what PostgreSQL holds, and the delivery it took keeps matching until it  *)
(* is recorded.                                                             *)

WorkerIsCurrent ==
  apiCommits = 0 /\ Executing =>
    /\ work.jobs = jobs
    /\ work.unsaved => work.pc = "record"
    /\ ~work.unsaved => work.target = target
    /\ work.unsaved /\ Kind[work.of.sched] = "run_task" =>
         target[work.of.sched] # "completed"
    /\ DeliveryMatches(jobs[work.of.sched], work.of, work.at)

Quiet == TypeInv /\ WorkerIsCurrent

LEMMA UpsertOwn ==
  ASSUME NEW table \in [Schedules -> Jobs]
  PROVE  Upsert(table, table) = table
BY DEF Upsert

LEMMA CommitsOnlyGrow ==
  ASSUME TypeInv, [Next]_vars, apiCommits' = 0
  PROVE  /\ apiCommits = 0
         /\ ~ \E held : ApiCommit(held)
<1>1. apiCommits \in Nat
  BY DEF TypeInv, TypeOK
<1>2. \A held : ~ApiCommit(held)
  BY <1>1 DEF ApiCommit
<1>3. apiCommits' = apiCommits
  BY <1>2
     DEF Next, vars, pg, redis, Tick, Dispatches, DispatchScan, DispatchAcquire,
         DispatchFindsPrior, DispatchEnqueue, DispatcherFrame, Works, WorkerFrame, WorkerTake,
         WorkerFindsTask, WorkerCreatesTask, WorkerSkipsTarget, WorkerRunsTarget, WorkerRecords,
         WorkerAcks, RedisForgets, KeyExpires, RqForgets, Faults, DispatchEnqueueFails,
         DispatcherCrash, WorkerEffectUnsaved, WorkerFails, ApiWrites, ApiCreates,
         ApiPauses, ApiResumes, ApiCancels, ApiSyncs, ApiRestarts
<1> QED
  BY <1>2, <1>3

\* What the last commit writes is exactly the advance of one schedule.
LEMMA QuietRecord ==
  ASSUME Quiet, apiCommits = 0, WorkerRecords
  PROVE  /\ DeliveryMatches(jobs[work.of.sched], work.of, work.at)
         /\ jobs' = [jobs EXCEPT ![work.of.sched] =
                       AfterRun(work.of.sched, jobs[work.of.sched], work.at, work.ok)]
<1> DEFINE s == work.of.sched
<1>1. work.jobs = jobs /\ DeliveryMatches(jobs[s], work.of, work.at)
  BY RecordWrites DEF Quiet, WorkerIsCurrent
<1>2. s \in Schedules /\ jobs \in [Schedules -> Jobs] /\ Held \in [Schedules -> Jobs]
      /\ jobs' = Upsert(jobs, Held)
  BY RecordWrites DEF Quiet, TypeInv, TypeOK
<1>3. Held = [jobs EXCEPT ![s] = AfterRun(s, jobs[s], work.at, work.ok)]
  BY <1>1 DEF Held, Advanced
<1>4. Held[s].status # "absent"
  BY <1>2, <1>3 DEF AfterRun
<1>5. Upsert(jobs, Held) = Held
  <2> HIDE DEF s
  <2>1. ASSUME NEW r \in Schedules
        PROVE  (IF Held[r].status = "absent" THEN jobs[r] ELSE Held[r]) = Held[r]
    BY <1>2, <1>3, <1>4
  <2> QED
    BY <1>2, <2>1 DEF Upsert
<1> QED
  BY <1>1, <1>2, <1>3, <1>5

\* Every other step leaves the schedules as they are: create_task and run_task
\* sync the same rows the worker read.
LEMMA QuietOthers ==
  ASSUME Quiet, [Next]_vars, apiCommits' = 0, ~WorkerRecords
  PROVE  jobs' = jobs
<1>1. apiCommits = 0 /\ ~ \E held : ApiCommit(held)
  BY CommitsOnlyGrow DEF Quiet
<1>2. Executing => Upsert(jobs, work.jobs) = jobs
  BY <1>1, UpsertOwn DEF Quiet, WorkerIsCurrent, TypeInv, TypeOK
<1>3. CASE WorkerCreatesTask
  BY <1>2, <1>3 DEF WorkerCreatesTask, WorkerWritesBack, Executing
<1>4. ASSUME NEW outcome \in TargetStatus \ {"open"}, WorkerRunsTarget(outcome)
      PROVE  jobs' = jobs
  <2>1. Executing /\ work \in ExecutingStates
    BY <1>4, ExecutingType DEF Quiet, TypeInv, WorkerRunsTarget, Executing
  <2>2. [work EXCEPT !.pc = "record", !.ok = outcome # "blocked",
                     !.target[work.of.sched] = outcome].jobs = work.jobs
    BY <2>1 DEF ExecutingStates
  <2>3. jobs' = Upsert(jobs, work.jobs)
    BY <1>4, <2>2 DEF WorkerRunsTarget, WorkerWritesBack
  <2> QED
    BY <1>2, <2>1, <2>3
<1>5. CASE /\ ~WorkerCreatesTask
           /\ ~ \E outcome \in TargetStatus \ {"open"} : WorkerRunsTarget(outcome)
  BY <1>1, <1>5
     DEF Next, vars, pg, redis, Tick, Dispatches, DispatchScan, DispatchAcquire,
         DispatchFindsPrior, DispatchEnqueue, DispatcherFrame, Works, WorkerTake,
         WorkerFindsTask, WorkerSkipsTarget, WorkerAcks, RedisForgets, KeyExpires, RqForgets,
         Faults, DispatchEnqueueFails, DispatcherCrash, WorkerEffectUnsaved, WorkerFails,
         ApiWrites, ApiCreates, ApiPauses, ApiResumes, ApiCancels, ApiSyncs, ApiRestarts
<1> QED
  BY <1>3, <1>4, <1>5

LEMMA CurrentInit == Init => WorkerIsCurrent
BY DEF Init, WorkerIsCurrent, Executing, IdleWorker

LEMMA TakeCurrent ==
  ASSUME Quiet, NEW o \in Occurrences, WorkerTake(o)
  PROVE  WorkerIsCurrent'
<1>1. UNCHANGED <<jobs, target, apiCommits>>
  BY DEF WorkerTake, WorkerFrame, pg
<1>2. CASE DeliveryMatches(jobs[o.sched], o, now)
  <2>1. work' = [pc |-> "run", of |-> o, at |-> now, jobs |-> jobs, target |-> target,
                 tasks |-> tasks, ok |-> TRUE, unsaved |-> FALSE]
    BY <1>2 DEF WorkerTake
  <2>2. /\ work'.of = o /\ work'.at = now /\ work'.jobs = jobs /\ work'.target = target
        /\ work'.unsaved = FALSE
    BY <2>1
  <2> QED
    BY <1>1, <1>2, <2>2 DEF WorkerIsCurrent, DeliveryMatches
<1>3. CASE ~DeliveryMatches(jobs[o.sched], o, now)
  BY <1>3 DEF WorkerTake, Returning, WorkerIsCurrent, Executing
<1> QED
  BY <1>2, <1>3

LEMMA EffectCurrent ==
  ASSUME Quiet, apiCommits = 0,
         \/ WorkerFindsTask
         \/ WorkerCreatesTask
         \/ WorkerSkipsTarget
         \/ \E outcome \in TargetStatus \ {"open"} :
              WorkerRunsTarget(outcome) \/ WorkerEffectUnsaved(outcome),
         jobs' = jobs
  PROVE  WorkerIsCurrent'
<1>1. /\ Executing /\ work.pc = "run" /\ work \in ExecutingStates
      /\ work.jobs = jobs /\ ~work.unsaved /\ work.target = target
      /\ DeliveryMatches(jobs[work.of.sched], work.of, work.at)
  <2>1. work.pc = "run"
    BY DEF WorkerFindsTask, WorkerCreatesTask, WorkerSkipsTarget, WorkerRunsTarget,
           WorkerEffectUnsaved
  <2> QED
    BY <2>1, ExecutingType DEF Executing, Quiet, TypeInv, WorkerIsCurrent
<1>2. CASE work' = [work EXCEPT !.pc = "record"] /\ target' = work.target
  <2>1. /\ work'.of = work.of /\ work'.at = work.at /\ work'.jobs = work.jobs
        /\ work'.target = work.target /\ work'.unsaved = work.unsaved
    BY <1>1, <1>2 DEF ExecutingStates
  <2> QED
    BY <1>1, <1>2, <2>1 DEF WorkerIsCurrent, DeliveryMatches
<1>3. ASSUME NEW outcome \in TargetStatus \ {"open"}, WorkerRunsTarget(outcome)
      PROVE  WorkerIsCurrent'
  <2>1. work' = [work EXCEPT !.pc = "record", !.ok = outcome # "blocked",
                             !.target[work.of.sched] = outcome]
    BY <1>3 DEF WorkerRunsTarget
  <2>2. /\ work'.of = work.of /\ work'.at = work.at /\ work'.jobs = work.jobs
        /\ work'.unsaved = work.unsaved
    BY <1>1, <2>1 DEF ExecutingStates
  <2>3. target' = work'.target
    BY <1>3, <2>1 DEF WorkerRunsTarget, WorkerWritesBack
  <2> QED
    BY <1>1, <2>2, <2>3 DEF WorkerIsCurrent, DeliveryMatches
<1>4. ASSUME NEW outcome \in TargetStatus \ {"open"}, WorkerEffectUnsaved(outcome)
      PROVE  WorkerIsCurrent'
  <2>1. target' = target
    BY <1>4 DEF WorkerEffectUnsaved, pg
  <2>2. PICK v : work' = [work EXCEPT !.pc = "record", !.ok = FALSE, !.unsaved = TRUE,
                                      !.target[work.of.sched] = v]
    BY <1>4 DEF WorkerEffectUnsaved
  <2>3. /\ work'.pc = "record" /\ work'.of = work.of /\ work'.at = work.at
        /\ work'.jobs = work.jobs /\ work'.unsaved
    BY <1>1, <2>2 DEF ExecutingStates
  <2>4. Kind[work.of.sched] = "run_task" => target[work.of.sched] # "completed"
    BY <1>1, <1>4 DEF WorkerEffectUnsaved
  <2> QED
    BY <1>1, <2>1, <2>3, <2>4 DEF WorkerIsCurrent, DeliveryMatches
<1> QED
  BY <1>1, <1>2, <1>3, <1>4
     DEF WorkerFindsTask, WorkerCreatesTask, WorkerSkipsTarget, WorkerWritesBack, pg

LEMMA QuietStep == Quiet /\ [Next]_vars => Quiet'
<1> SUFFICES ASSUME Quiet, [Next]_vars, apiCommits' = 0
             PROVE  WorkerIsCurrent'
  <2>1. Quiet /\ [Next]_vars => TypeInv'
    BY TypeStep DEF Quiet
  <2>2. apiCommits' # 0 => WorkerIsCurrent'
    BY DEF WorkerIsCurrent
  <2> QED
    BY <2>1, <2>2 DEF Quiet
<1>1. apiCommits = 0 /\ ~ \E held : ApiCommit(held)
  BY CommitsOnlyGrow DEF Quiet
<1>2. CASE WorkerRecords
  BY <1>2, RecordWrites DEF Quiet, WorkerIsCurrent, Executing, Returning
<1>3. CASE WorkerAcks \/ WorkerFails
  BY <1>3 DEF WorkerAcks, WorkerFails, WorkerIsCurrent, Executing, IdleWorker
<1>4. CASE \E o \in Occurrences : WorkerTake(o)
  BY <1>4, TakeCurrent
<1>5. CASE \/ WorkerFindsTask
           \/ WorkerCreatesTask
           \/ WorkerSkipsTarget
           \/ \E outcome \in TargetStatus \ {"open"} :
                WorkerRunsTarget(outcome) \/ WorkerEffectUnsaved(outcome)
  <2>1. work.pc = "run"
    BY <1>5 DEF WorkerFindsTask, WorkerCreatesTask, WorkerSkipsTarget, WorkerRunsTarget,
                WorkerEffectUnsaved
  <2>2. jobs' = jobs
    BY <2>1, QuietOthers DEF WorkerRecords
  <2> QED
    BY <1>1, <1>5, <2>2, EffectCurrent
<1>6. CASE UNCHANGED <<jobs, target, work, apiCommits>>
  BY <1>6 DEF Quiet, WorkerIsCurrent, Executing
<1>7. \/ WorkerSteps
      \/ UNCHANGED <<jobs, target, work, apiCommits>>
  BY <1>1
     DEF Next, vars, pg, redis, Tick, Dispatches, DispatchScan, DispatchAcquire,
         DispatchFindsPrior, DispatchEnqueue, DispatcherFrame, WorkerSteps, RedisForgets,
         KeyExpires, RqForgets, Faults, DispatchEnqueueFails, DispatcherCrash, ApiWrites,
         ApiCreates, ApiPauses, ApiResumes, ApiCancels, ApiSyncs, ApiRestarts
<1> QED
  BY <1>2, <1>3, <1>4, <1>5, <1>6, <1>7 DEF WorkerSteps, Works

LEMMA QuietAlways == Spec => []Quiet
<1>1. Init => Quiet
  BY TypeInit, CurrentInit DEF Quiet
<1> QED
  BY <1>1, QuietStep, PTL DEF Spec

-----------------------------------------------------------------------------
(* One execution per occurrence: recorded occurrences lie behind the one an *)
(* active schedule is at, recorded attempts an interval before it, and a    *)
(* schedule that has ended stays ended.                                     *)

\* `next' is later than what the recorded attempt was on and started at.
IsPast(row, next) ==
  /\ row.of.due < next
  /\ row.at + Interval[row.of.sched] <= next

RecordedIsPast ==
  apiCommits = 0 =>
    \A i \in DOMAIN execs :
      jobs[execs[i].of.sched].status = "active" =>
        IsPast(execs[i], jobs[execs[i].of.sched].next)

LEMMA RowTypes ==
  /\ \A row \in Rows : row.of \in Occurrences
  /\ \A row \in Rows : row.of.sched \in Schedules
  /\ \A row \in Rows : row.of.due \in Nat
  /\ \A row \in Rows : row.at \in Nat
  /\ \A row \in Rows : Interval[row.of.sched] \in Nat
<1>1. \A row \in Rows : row.of \in Occurrences /\ row.at \in Times
  BY DEF Rows
<1>2. \A o \in Occurrences : o.sched \in Schedules /\ o.due \in Times
  BY DEF Occurrences
<1>3. \A t \in Times : t \in Nat
  BY HorizonAssumption DEF Times
<1> QED
  BY <1>1, <1>2, <1>3, TimingAssumption

LEMMA JobTypes == \A j \in Jobs : j.next \in Nat
BY HorizonAssumption DEF Jobs, Times

\* An attempt moves its schedule past the occurrence it was on, by at least
\* the interval from the time it started.
LEMMA AttemptMovesOn ==
  ASSUME NEW s \in Schedules, NEW j \in Jobs, NEW at \in Nat, NEW ok,
         AfterRun(s, j, at, ok).status = "active", j.next <= at
  PROVE  /\ j.next < AfterRun(s, j, at, ok).next
         /\ AfterRun(s, j, at, ok).next = at + Interval[s]
<1>1. Recurs(s, j.runs + 1)
  BY DEF AfterRun
<1>2. Interval[s] \in Nat /\ Interval[s] # 0
  BY <1>1, TimingAssumption DEF Recurs
<1>3. AfterRun(s, j, at, ok).next = at + Interval[s]
  BY <1>1 DEF AfterRun
<1>4. j.next \in Nat
  BY JobTypes
<1> QED
  BY <1>2, <1>3, <1>4

OnceInv == Quiet /\ RecordedIsPast /\ OneExecutionPerOccurrence /\ AttemptsKeepInterval

\* The attempt being recorded is on an occurrence no row names, and an interval
\* after every row of its schedule.
LEMMA AttemptIsNew ==
  ASSUME OnceInv, apiCommits = 0, WorkerRecords, NEW i \in DOMAIN execs
  PROVE  /\ execs[i].of # work.of
         /\ execs[i].of.sched = work.of.sched =>
              execs[i].at + Interval[work.of.sched] <= work.at
<1> DEFINE s == work.of.sched
<1>1. /\ jobs[s].status = "active" /\ jobs[s].next = work.of.due /\ jobs[s].next <= work.at
  BY QuietRecord DEF OnceInv, DeliveryMatches
<1>2. execs[i] \in Rows
  BY AppendedRows DEF OnceInv, Quiet
<1>3. execs[i].of.sched = s => IsPast(execs[i], jobs[s].next)
  BY <1>1 DEF OnceInv, RecordedIsPast
<1>4. execs[i].of # work.of
  <2> SUFFICES ASSUME execs[i].of = work.of PROVE FALSE
    OBVIOUS
  <2>1. execs[i].of.due < work.of.due
    BY <1>1, <1>3 DEF IsPast
  <2>2. work.of.due \in Nat
    BY <1>2, RowTypes
  <2> QED
    BY <2>1, <2>2
<1>5. ASSUME execs[i].of.sched = s
      PROVE  execs[i].at + Interval[s] <= work.at
  <2>1. execs[i].at + Interval[s] <= jobs[s].next
    BY <1>3, <1>5 DEF IsPast
  <2>2. execs[i].at + Interval[s] \in Nat
    BY <1>2, <1>5, RowTypes
  <2>3. s \in Schedules /\ work.at \in Nat
    BY RecordWrites, HorizonAssumption DEF OnceInv, Quiet, ExecutingStates, Times
  <2>4. jobs[s].next \in Nat
    BY <2>3, JobTypes DEF OnceInv, Quiet, TypeInv, TypeOK
  <2> QED
    BY <1>1, <2>1, <2>2, <2>3, <2>4
<1> QED
  BY <1>4, <1>5

LEMMA PastStep ==
  ASSUME OnceInv, apiCommits = 0, WorkerRecords, [Next]_vars
  PROVE  RecordedIsPast'
<1>1. PICK s \in Schedules : s = work.of.sched
  BY RecordWrites DEF OnceInv, Quiet
<1>2. /\ jobs[s].status = "active" /\ jobs[s].next = work.of.due /\ jobs[s].next <= work.at
      /\ jobs' = [jobs EXCEPT ![s] = AfterRun(s, jobs[s], work.at, work.ok)]
  BY <1>1, QuietRecord DEF OnceInv, DeliveryMatches
<1>3. jobs \in [Schedules -> Jobs] /\ jobs' \in [Schedules -> Jobs] /\ work.at \in Nat
  <2>1. jobs \in [Schedules -> Jobs] /\ jobs' \in [Schedules -> Jobs]
    BY QuietStep DEF OnceInv, Quiet, TypeInv, TypeOK
  <2>2. work.at \in Nat
    BY RecordWrites, HorizonAssumption DEF OnceInv, Quiet, ExecutingStates, Times
  <2> QED
    BY <2>1, <2>2
<1>4. jobs[s].next \in Nat /\ jobs'[s].next \in Nat
  BY <1>3, JobTypes
<1>5. jobs'[s].status = "active" =>
        /\ jobs[s].next < jobs'[s].next
        /\ jobs'[s].next = work.at + Interval[s]
  <2>1. jobs'[s] = AfterRun(s, jobs[s], work.at, work.ok) /\ jobs[s] \in Jobs
    BY <1>2, <1>3
  <2> QED
    BY <1>2, <1>3, <2>1, AttemptMovesOn
<1>6. ASSUME NEW i \in DOMAIN execs, jobs'[execs[i].of.sched].status = "active"
      PROVE  IsPast(execs[i], jobs'[execs[i].of.sched].next)
  <2>1. execs[i] \in Rows
    BY AppendedRows DEF OnceInv, Quiet
  <2>2. CASE execs[i].of.sched = s
    <3>1. IsPast(execs[i], jobs[s].next)
      BY <1>2, <2>2 DEF OnceInv, RecordedIsPast
    <3>2. execs[i].of.due \in Nat
      BY <2>1, RowTypes
    <3>3. execs[i].at + Interval[execs[i].of.sched] \in Nat
      BY <2>1, RowTypes
    <3> QED
      BY <1>4, <1>5, <1>6, <2>2, <3>1, <3>2, <3>3 DEF IsPast
  <2>3. CASE execs[i].of.sched # s
    <3>1. execs[i].of.sched \in Schedules
      BY <2>1, RowTypes
    <3>2. jobs'[execs[i].of.sched] = jobs[execs[i].of.sched]
      BY <1>2, <1>3, <2>3, <3>1
    <3> QED
      BY <1>6, <3>2 DEF OnceInv, RecordedIsPast
  <2> QED
    BY <2>2, <2>3
<1>7. jobs'[s].status = "active" => IsPast(Row, jobs'[s].next)
  <2>1. Row.of.due = jobs[s].next /\ Row.at = work.at /\ Row.of.sched = s
    BY <1>1, <1>2 DEF Row
  <2>2. Interval[s] \in Nat
    BY TimingAssumption
  <2> QED
    BY <1>3, <1>4, <1>5, <2>1, <2>2 DEF IsPast
<1>8. Row.of.sched = s
  BY <1>1 DEF Row
<1> QED
  BY <1>6, <1>7, <1>8, AppendedRow DEF OnceInv, Quiet, RecordedIsPast

LEMMA OnceStep == OnceInv /\ [Next]_vars => OnceInv'
<1> SUFFICES ASSUME OnceInv, [Next]_vars, apiCommits' = 0
             PROVE  RecordedIsPast' /\ OneExecutionPerOccurrence' /\ AttemptsKeepInterval'
  <2>1. OnceInv /\ [Next]_vars => Quiet'
    BY QuietStep DEF OnceInv
  <2>2. apiCommits' # 0 =>
          RecordedIsPast' /\ OneExecutionPerOccurrence' /\ AttemptsKeepInterval'
    BY DEF RecordedIsPast, OneExecutionPerOccurrence, AttemptsKeepInterval
  <2> QED
    BY <2>1, <2>2 DEF OnceInv
<1>1. apiCommits = 0
  BY CommitsOnlyGrow DEF OnceInv, Quiet
<1>2. CASE ~WorkerRecords
  <2>1. jobs' = jobs /\ execs' = execs
    BY <1>2, QuietOthers, OnlyRecordsAppend DEF OnceInv
  <2> QED
    BY <1>1, <2>1
       DEF OnceInv, RecordedIsPast, OneExecutionPerOccurrence, AttemptsKeepInterval
<1>3. CASE WorkerRecords
  <2>1. /\ Len(execs) \in Nat
        /\ DOMAIN execs = 1 .. Len(execs) /\ DOMAIN execs' = 1 .. Len(execs) + 1
        /\ \A i \in DOMAIN execs : execs'[i] = execs[i]
        /\ execs'[Len(execs) + 1].of = work.of
        /\ execs'[Len(execs) + 1].at = work.at
    BY <1>3, AppendedRows DEF OnceInv, Quiet, Row
  <2>2. \A i \in DOMAIN execs : execs[i].of # work.of
    BY <1>1, <1>3, AttemptIsNew
  <2>3. \A i \in DOMAIN execs :
          execs[i].of.sched = work.of.sched =>
            execs[i].at + Interval[work.of.sched] <= work.at
    BY <1>1, <1>3, AttemptIsNew
  <2>4. OneExecutionPerOccurrence'
    <3>1. \A i, j \in DOMAIN execs : execs[i].of = execs[j].of => i = j
      BY <1>1 DEF OnceInv, OneExecutionPerOccurrence
    <3> QED
      BY <2>1, <2>2, <3>1 DEF OneExecutionPerOccurrence
  <2>5. AttemptsKeepInterval'
    <3> SUFFICES ASSUME NEW i \in DOMAIN execs', NEW j \in DOMAIN execs',
                        i < j, execs'[i].of.sched = execs'[j].of.sched
                 PROVE  execs'[i].at + Interval[execs'[i].of.sched] <= execs'[j].at
      BY DEF AttemptsKeepInterval
    <3>1. i \in DOMAIN execs /\ execs'[i] = execs[i]
      BY <2>1
    <3>2. CASE j \in DOMAIN execs
      <4>1. execs'[j] = execs[j]
        BY <2>1, <3>2
      <4> QED
        BY <1>1, <3>1, <3>2, <4>1 DEF OnceInv, AttemptsKeepInterval
    <3>3. CASE j = Len(execs) + 1
      <4>1. execs[i].of.sched = work.of.sched /\ execs'[j].at = work.at
        BY <2>1, <3>1, <3>3
      <4> QED
        BY <2>3, <3>1, <4>1
    <3> QED
      BY <2>1, <3>2, <3>3
  <2> QED
    BY <1>1, <1>3, <2>4, <2>5, PastStep
<1> QED
  BY <1>2, <1>3

LEMMA OnceAlways == Spec => []OnceInv
<1>1. Init => OnceInv
  <2>1. Init => Quiet
    BY TypeInit, CurrentInit DEF Quiet
  <2> QED
    BY <2>1 DEF Init, OnceInv, RecordedIsPast, OneExecutionPerOccurrence, AttemptsKeepInterval
<1> QED
  BY <1>1, OnceStep, PTL DEF Spec

\* Crashes of the dispatcher and the worker, expired keys, forgotten queue jobs
\* and replays never record an occurrence twice while the API is quiet.
THEOREM ExecutedOnce == Spec => []OneExecutionPerOccurrence
<1>1. OnceInv => OneExecutionPerOccurrence
  BY DEF OnceInv
<1> QED
  BY <1>1, OnceAlways, PTL

\* While the API is quiet, attempts of a schedule are an interval apart, however
\* late or often its deliveries arrive.
THEOREM IntervalIsKept == Spec => []AttemptsKeepInterval
<1>1. OnceInv => AttemptsKeepInterval
  BY DEF OnceInv
<1> QED
  BY <1>1, OnceAlways, PTL

-----------------------------------------------------------------------------
(* Refinement: WorkerRecords is the ledger's Attempt, all else a stutter. *)

LEMMA LedgerInit == Init => Ledger!Init
<1> SUFFICES ASSUME Init PROVE Ledger!Init
  OBVIOUS
<1>1. \A s \in DOMAIN FirstDue : FirstDue[s] \in Times
  BY FirstDueAssumption
<1>2. jobs \in [Schedules -> {NoJob} \cup {NewJob(n) : n \in Times}]
  BY <1>1 DEF Init
<1>3. NoJob = Ledger!NoJob /\ \A n : NewJob(n) = Ledger!NewJob(n)
  BY DEF NoJob, Ledger!NoJob, NewJob, Ledger!NewJob
<1> QED
  BY <1>2, <1>3 DEF Init, Ledger!Init, Times, Ledger!Times

LEMMA LedgerStep ==
  ASSUME Quiet, [Next]_vars, apiCommits' = 0
  PROVE  [Ledger!Next]_<<jobs, execs>>
<1>1. apiCommits = 0
  BY CommitsOnlyGrow DEF Quiet
<1>2. CASE ~WorkerRecords
  BY <1>2, QuietOthers, OnlyRecordsAppend
<1>3. CASE WorkerRecords
  <2> DEFINE s == work.of.sched
             o == work.of
  <2>1. /\ DeliveryMatches(jobs[s], o, work.at)
        /\ jobs' = [jobs EXCEPT ![s] = AfterRun(s, jobs[s], work.at, work.ok)]
    BY <1>1, <1>3, QuietRecord
  <2>2. /\ s \in Schedules /\ o \in Occurrences /\ work.at \in Times /\ work.ok \in BOOLEAN
        /\ execs' = Append(execs, Row)
    BY <1>3, RecordWrites DEF Quiet, ExecutingStates
  <2>3. jobs[s].next = o.due /\ IsDue(jobs[s], work.at)
    BY <2>1 DEF DeliveryMatches, IsDue
  <2>4. o = [sched |-> s, due |-> o.due]
    BY <2>2 DEF Occurrences
  <2>5. o = Occurrence(s, jobs[s])
    BY <2>3, <2>4 DEF Occurrence
  <2> HIDE DEF s, o
  <2>6. Ledger!Attempt(s, work.at, work.ok)
    BY <2>1, <2>2, <2>3, <2>5
       DEF Ledger!Attempt, Ledger!IsDue, IsDue, Ledger!Occurrence, Occurrence,
           Ledger!AfterRun, AfterRun, Ledger!Recurs, Recurs, Ledger!LimitReached,
           LimitReached, Row, o
  <2> QED
    BY <2>2, <2>6 DEF Ledger!Next, Ledger!Times, Times
<1> QED
  BY <1>2, <1>3

ApiIsQuiet == apiCommits = 0

\* A process that never commits never counts a commit.
LEMMA NoCommits ==
  ASSUME MaxApiCommits = 0
  PROVE  Spec => []ApiIsQuiet
<1>1. Init => ApiIsQuiet
  BY DEF Init, ApiIsQuiet
<1>2. ApiIsQuiet /\ [Next]_vars => ApiIsQuiet'
  <2> SUFFICES ASSUME apiCommits = 0, [Next]_vars PROVE apiCommits' = 0
    BY DEF ApiIsQuiet
  <2>1. \A held : ~ApiCommit(held)
    BY DEF ApiCommit
  <2> QED
    BY <2>1
       DEF Next, vars, pg, redis, Tick, Dispatches, DispatchScan, DispatchAcquire,
           DispatchFindsPrior, DispatchEnqueue, DispatcherFrame, Works, WorkerFrame, WorkerTake,
           WorkerFindsTask, WorkerCreatesTask, WorkerSkipsTarget, WorkerRunsTarget,
           WorkerRecords, WorkerAcks, RedisForgets, KeyExpires, RqForgets, Faults,
           DispatchEnqueueFails, DispatcherCrash, WorkerEffectUnsaved, WorkerFails, ApiWrites,
           ApiCreates, ApiPauses, ApiResumes, ApiCancels, ApiSyncs, ApiRestarts
<1> QED
  BY <1>1, <1>2, PTL DEF Spec

\* With a quiet API, whatever the dispatcher, Redis, RQ and the worker go
\* through, schedules and execution rows change as ScheduleLedger says.
THEOREM DeliveryImplementsLedger ==
  ASSUME MaxApiCommits = 0
  PROVE  Spec => ImplementsLedger
<1>1. Spec => []ApiIsQuiet
  BY NoCommits
<1>2. Quiet /\ [Next]_vars /\ ApiIsQuiet' => [Ledger!Next]_<<jobs, execs>>
  BY LedgerStep DEF ApiIsQuiet
<1>3. Spec => Ledger!Init
  BY LedgerInit DEF Spec
<1>4. Spec => [][Ledger!Next]_<<jobs, execs>>
  BY <1>1, <1>2, QuietAlways, PTL DEF Spec
<1> QED
  BY <1>3, <1>4, PTL DEF ImplementsLedger, Ledger!Spec, Ledger!ledger

-----------------------------------------------------------------------------
(* run_count is the length of the history. *)

RunsBelowLimit ==
  apiCommits = 0 =>
    \A s \in Schedules :
      jobs[s].status = "active" /\ MaxRuns[s] # 0 => jobs[s].runs < MaxRuns[s]

CountInv == Quiet /\ RunsBelowLimit /\ RunCountIsHistory

LEMMA ExecutionsFinite ==
  ASSUME TypeInv, NEW s
  PROVE  IsFiniteSet(ExecutionsOf(s)) /\ Len(execs) + 1 \notin ExecutionsOf(s)
<1>1. DOMAIN execs = 1 .. Len(execs) /\ Len(execs) \in Nat
  BY DEF TypeInv, TypeOK
<1>2. ExecutionsOf(s) \subseteq 1 .. Len(execs)
  BY <1>1 DEF ExecutionsOf
<1>3. IsFiniteSet(1 .. Len(execs))
  BY <1>1, FS_Interval
<1> QED
  BY <1>1, <1>2, <1>3, FS_Subset

\* One attempt adds one row to its schedule's history and none to the others'.
LEMMA ExecutionsGrow ==
  ASSUME TypeInv, WorkerRecords, NEW s
  PROVE  ExecutionsOf(s)' = IF s = work.of.sched THEN ExecutionsOf(s) \cup {Len(execs) + 1}
                                                 ELSE ExecutionsOf(s)
<1>1. Row.of.sched = work.of.sched
  BY DEF Row
<1> QED
  BY <1>1, AppendedRows DEF ExecutionsOf

LEMMA CountStep == CountInv /\ [Next]_vars => CountInv'
<1> SUFFICES ASSUME CountInv, [Next]_vars, apiCommits' = 0
             PROVE  RunsBelowLimit' /\ RunCountIsHistory'
  <2>1. CountInv /\ [Next]_vars => Quiet'
    BY QuietStep DEF CountInv
  <2>2. apiCommits' # 0 => RunsBelowLimit' /\ RunCountIsHistory'
    BY DEF RunsBelowLimit, RunCountIsHistory
  <2> QED
    BY <2>1, <2>2 DEF CountInv
<1>1. apiCommits = 0 /\ TypeInv
  BY CommitsOnlyGrow DEF CountInv, Quiet
<1>2. CASE ~WorkerRecords
  <2>1. jobs' = jobs /\ execs' = execs
    BY <1>2, QuietOthers, OnlyRecordsAppend DEF CountInv
  <2> QED
    BY <1>1, <2>1 DEF CountInv, RunsBelowLimit, RunCountIsHistory, ExecutionsOf
<1>3. CASE WorkerRecords
  <2>1. PICK s \in Schedules : s = work.of.sched
    BY <1>1, <1>3, RecordWrites
  <2> DEFINE j == jobs[s]
  <2>2. /\ j.status = "active"
        /\ jobs' = [jobs EXCEPT ![s] = AfterRun(s, j, work.at, work.ok)]
    BY <1>1, <1>3, <2>1, QuietRecord DEF CountInv, DeliveryMatches
  <2>3. jobs \in [Schedules -> Jobs]
    BY <1>1 DEF TypeInv, TypeOK
  <2>4. j.runs \in Nat /\ MaxRuns[s] \in Nat
    BY <2>3, TimingAssumption DEF Jobs
  <2>5. /\ j.runs = Cardinality(ExecutionsOf(s))
        /\ MaxRuns[s] # 0 => j.runs < MaxRuns[s]
    BY <1>1, <2>2 DEF CountInv, RunsBelowLimit, RunCountIsHistory
  <2>6. jobs'[s].runs = j.runs + 1
    BY <2>2, <2>3 DEF AfterRun
  <2>7. jobs'[s].status = "active" /\ MaxRuns[s] # 0 => jobs'[s].runs < MaxRuns[s]
    <3>1. jobs'[s].status = "active" => Recurs(s, j.runs + 1)
      BY <2>2, <2>3 DEF AfterRun
    <3> QED
      BY <2>4, <2>6, <3>1 DEF Recurs, LimitReached
  <2>8. jobs'[s].runs = Cardinality(ExecutionsOf(s)')
    <3>1. IsFiniteSet(ExecutionsOf(s)) /\ Len(execs) + 1 \notin ExecutionsOf(s)
      BY <1>1, ExecutionsFinite
    <3>2. ExecutionsOf(s)' = ExecutionsOf(s) \cup {Len(execs) + 1}
      BY <1>1, <1>3, <2>1, ExecutionsGrow
    <3>3. Cardinality(ExecutionsOf(s) \cup {Len(execs) + 1}) = Cardinality(ExecutionsOf(s)) + 1
      BY <3>1, FS_AddElement
    <3> QED
      BY <2>5, <2>6, <3>2, <3>3
  <2>9. ASSUME NEW r \in Schedules, r # s
        PROVE  jobs'[r] = jobs[r] /\ ExecutionsOf(r)' = ExecutionsOf(r)
    <3>1. jobs'[r] = jobs[r]
      BY <2>2, <2>3, <2>9
    <3>2. ExecutionsOf(r)' = ExecutionsOf(r)
      BY <1>1, <1>3, <2>1, <2>9, ExecutionsGrow
    <3> QED
      BY <3>1, <3>2
  <2>10. RunsBelowLimit'
    BY <1>1, <2>7, <2>9 DEF CountInv, RunsBelowLimit
  <2>11. ASSUME NEW r \in Schedules
         PROVE  /\ jobs'[r].runs = Cardinality(ExecutionsOf(r)')
                /\ MaxRuns[r] # 0 => jobs'[r].runs <= MaxRuns[r]
    <3>1. CASE r = s
      BY <2>4, <2>5, <2>6, <2>8, <3>1
    <3>2. CASE r # s
      BY <1>1, <2>9, <3>2 DEF CountInv, RunCountIsHistory
    <3> QED
      BY <3>1, <3>2
  <2>12. RunCountIsHistory'
    BY <2>11 DEF RunCountIsHistory
  <2> QED
    BY <2>10, <2>12
<1> QED
  BY <1>2, <1>3

\* With a quiet API run_count is the number of recorded attempts, and attempts
\* never exceed max_runs, whatever is lost, retried or replayed.
THEOREM RunCountIsTheHistory == Spec => []RunCountIsHistory
<1>1. Init => CountInv
  <2> SUFFICES ASSUME Init PROVE RunsBelowLimit /\ RunCountIsHistory
    BY TypeInit, CurrentInit DEF CountInv, Quiet
  <2>1. ASSUME NEW s \in Schedules PROVE jobs[s].runs = 0 /\ MaxRuns[s] \in Nat
    BY TimingAssumption DEF Init, NewJob, NoJob
  <2>2. \A s \in Schedules : Cardinality(ExecutionsOf(s)) = 0
    <3>1. \A s \in Schedules : ExecutionsOf(s) = {}
      BY DEF Init, ExecutionsOf
    <3> QED
      BY <3>1, FS_EmptySet
  <2>3. RunsBelowLimit
    BY <2>1 DEF RunsBelowLimit
  <2>4. RunCountIsHistory
    BY <2>1, <2>2 DEF RunCountIsHistory
  <2> QED
    BY <2>3, <2>4
<1>2. CountInv => RunCountIsHistory
  BY DEF CountInv
<1> QED
  BY <1>1, <1>2, CountStep, PTL DEF Spec

-----------------------------------------------------------------------------
(* Effects of the deliveries. *)

\* Workflows begin in the two worker steps that commit one.
LEMMA OnlyWorkerRuns ==
  ASSUME [Next]_vars, ~WorkerRecords,
         ~ \E outcome \in TargetStatus \ {"open"} : WorkerRunsTarget(outcome)
  PROVE  wfRuns' = wfRuns
BY DEF Next, vars, pg, redis, Tick, Dispatches, DispatchScan, DispatchAcquire,
       DispatchFindsPrior, DispatchEnqueue, DispatcherFrame, Works, WorkerTake,
       WorkerFindsTask, WorkerCreatesTask, WorkerSkipsTarget,
       WorkerAcks, RedisForgets, KeyExpires, RqForgets, Faults, DispatchEnqueueFails,
       DispatcherCrash, WorkerEffectUnsaved, WorkerFails, ApiWrites, ApiCreates,
       ApiPauses, ApiResumes, ApiCancels, ApiSyncs, ApiRestarts, ApiCommit

LEMMA RerunStep ==
  ASSUME Quiet, [Next]_vars, apiCommits' = 0,
         NEW o \in Occurrences, target[o.sched] = "completed"
  PROVE  wfRuns'[o] = wfRuns[o]
<1>1. apiCommits = 0 /\ wfRuns \in [Occurrences -> Nat]
  BY CommitsOnlyGrow DEF Quiet, TypeInv, TypeOK
<1>2. ASSUME NEW outcome \in TargetStatus \ {"open"}, WorkerRunsTarget(outcome)
      PROVE  wfRuns'[o] = wfRuns[o]
  <2>1. Executing /\ work.pc = "run" /\ work.target[work.of.sched] # "completed"
    BY <1>2 DEF WorkerRunsTarget, Executing
  <2>2. work.target = target
    <3>1. work \in ExecutingStates
      BY <2>1, ExecutingType DEF Quiet, TypeInv
    <3> QED
      BY <1>1, <2>1, <3>1 DEF Quiet, WorkerIsCurrent, ExecutingStates
  <2>3. work.of # o
    BY <2>1, <2>2
  <2>4. wfRuns' = [wfRuns EXCEPT ![work.of] = @ + 1]
    BY <1>2 DEF WorkerRunsTarget
  <2> QED
    BY <1>1, <2>3, <2>4
<1>3. CASE WorkerRecords
  <2>1. CASE work.unsaved /\ Kind[work.of.sched] = "run_task"
    <3>1. target[work.of.sched] # "completed"
      BY <1>1, <1>3, <2>1, RecordWrites DEF Quiet, WorkerIsCurrent
    <3>2. work.of # o
      BY <3>1
    <3>3. wfRuns' = [wfRuns EXCEPT ![work.of] = @ + 1]
      BY <1>3, <2>1 DEF WorkerRecords
    <3> QED
      BY <1>1, <3>2, <3>3
  <2>2. CASE ~(work.unsaved /\ Kind[work.of.sched] = "run_task")
    BY <1>3, <2>2 DEF WorkerRecords
  <2> QED
    BY <2>1, <2>2
<1> QED
  BY <1>2, <1>3, OnlyWorkerRuns

\* With a quiet API no retry and no later delivery runs a completed target again.
THEOREM CompletedStaysDone == Spec => CompletedTargetNotRerun
<1>1. Quiet /\ [Next]_vars =>
        [\A s \in Schedules :
           target[s] = "completed" /\ apiCommits' = 0 =>
             \A o \in Occurrences : o.sched = s => wfRuns'[o] = wfRuns[o]]_vars
  BY RerunStep
<1> QED
  BY <1>1, QuietAlways, PTL DEF Spec, CompletedTargetNotRerun

-----------------------------------------------------------------------------
(* Success and its effect, with or without API commits.                     *)

HasRun(s) == \E p \in Occurrences : p.sched = s /\ wfRuns[p] > 0
HasTask(o) == \E t \in tasks : t.of = o

\* A run_task effect whose sync failed is in the worker's memory only.
EffectPending(s) == work.unsaved /\ work.of.sched = s /\ Kind[s] = "run_task"

CompletedHasRun ==
  \A s \in Schedules :
    /\ target[s] = "completed" => HasRun(s)
    /\ api.target[s] = "completed" => HasRun(s)
    /\ Executing /\ ~EffectPending(s) /\ work.target[s] = "completed" => HasRun(s)

Effected(o) == IF Kind[o.sched] = "create_task" THEN HasTask(o) ELSE HasRun(o.sched)

TasksNamed == \A t \in tasks : t.id = t.of

SnapshotStored == Executing => work.tasks \subseteq tasks

SuccessBacked ==
  Executing =>
    /\ work.pc = "run" => ~work.unsaved
    /\ work.unsaved => ~work.ok
    /\ work.pc = "record" /\ work.ok => Effected(work.of)

EffectInv ==
  TypeInv /\ CompletedHasRun /\ TasksNamed /\ SnapshotStored /\ SuccessBacked
          /\ SuccessHasEffect

\* Stored effects are never taken back.
LEMMA EffectsGrow ==
  ASSUME TypeInv, [Next]_vars
  PROVE  /\ tasks \subseteq tasks'
         /\ \A s : HasRun(s) => HasRun(s)'
         /\ \A o : Effected(o) => Effected(o)'
<1>1. tasks \subseteq tasks'
  BY DEF Next, vars, pg, redis, Tick, Dispatches, DispatchScan, DispatchAcquire,
       DispatchFindsPrior, DispatchEnqueue, DispatcherFrame, Works, WorkerTake,
       WorkerFindsTask, WorkerCreatesTask, WorkerSkipsTarget, WorkerRunsTarget, WorkerRecords,
       WorkerAcks, RedisForgets, KeyExpires, RqForgets, Faults, DispatchEnqueueFails,
       DispatcherCrash, WorkerEffectUnsaved, WorkerFails, ApiWrites, ApiCreates,
       ApiPauses, ApiResumes, ApiCancels, ApiSyncs, ApiRestarts, ApiCommit
<1>2. ASSUME NEW p \in Occurrences, wfRuns[p] > 0 PROVE wfRuns'[p] > 0
  <2>1. \/ wfRuns' = wfRuns
        \/ wfRuns' = [wfRuns EXCEPT ![work.of] = @ + 1]
    BY OnlyWorkerRuns DEF WorkerRecords, WorkerRunsTarget
  <2>2. wfRuns \in [Occurrences -> Nat]
    BY DEF TypeInv, TypeOK
  <2>3. CASE wfRuns' = [wfRuns EXCEPT ![work.of] = @ + 1]
    <3>1. CASE work.of = p
      BY <1>2, <2>2, <2>3, <3>1
    <3>2. CASE work.of # p
      BY <1>2, <2>2, <2>3, <3>2
    <3> QED
      BY <3>1, <3>2
  <2> QED
    BY <1>2, <2>1, <2>3
<1> QED
  BY <1>1, <1>2 DEF HasRun, HasTask, Effected

LEMMA TakeEffect ==
  ASSUME EffectInv, NEW o \in Occurrences, WorkerTake(o)
  PROVE  CompletedHasRun' /\ TasksNamed' /\ SnapshotStored' /\ SuccessBacked'
<1>1. UNCHANGED <<target, tasks, wfRuns, api>>
  BY DEF WorkerTake, WorkerFrame, pg
<1>2. TasksNamed'
  BY <1>1 DEF EffectInv, TasksNamed
<1>3. CASE DeliveryMatches(jobs[o.sched], o, now)
  <2>1. work' = [pc |-> "run", of |-> o, at |-> now, jobs |-> jobs, target |-> target,
                 tasks |-> tasks, ok |-> TRUE, unsaved |-> FALSE]
    BY <1>3 DEF WorkerTake
  <2>2. /\ work'.pc = "run" /\ work'.target = target /\ work'.tasks = tasks
        /\ work'.unsaved = FALSE
    BY <2>1
  <2>3. CompletedHasRun'
    BY <1>1, <2>2 DEF EffectInv, CompletedHasRun, HasRun
  <2>4. SnapshotStored' /\ SuccessBacked'
    BY <1>1, <2>2 DEF SnapshotStored, SuccessBacked
  <2> QED
    BY <1>2, <2>3, <2>4
<1>4. CASE ~DeliveryMatches(jobs[o.sched], o, now)
  <2>1. ~Executing'
    BY <1>4 DEF WorkerTake, Returning, Executing
  <2>2. CompletedHasRun'
    BY <1>1, <2>1 DEF EffectInv, CompletedHasRun, HasRun
  <2> QED
    BY <1>2, <2>1, <2>2 DEF SnapshotStored, SuccessBacked
<1> QED
  BY <1>3, <1>4

\* The steps that only move the worker to "record".
LEMMA RecordingEffect ==
  ASSUME EffectInv, WorkerFindsTask \/ WorkerCreatesTask \/ WorkerSkipsTarget, [Next]_vars
  PROVE  CompletedHasRun' /\ TasksNamed' /\ SnapshotStored' /\ SuccessBacked'
<1>1. /\ work.pc = "run" /\ Executing /\ work \in ExecutingStates
      /\ work' = [work EXCEPT !.pc = "record"]
      /\ target' \in {target, work.target}
      /\ UNCHANGED <<wfRuns, api>>
      /\ tasks \subseteq tasks' /\ tasks' \subseteq tasks \cup {ScheduledTask(work.of)}
  <2>1. work.pc = "run"
    BY DEF WorkerFindsTask, WorkerCreatesTask, WorkerSkipsTarget
  <2>2. Executing /\ work \in ExecutingStates
    BY <2>1, ExecutingType DEF Executing, EffectInv, TypeInv
  <2> QED
    BY <2>1, <2>2
       DEF WorkerFindsTask, WorkerCreatesTask, WorkerSkipsTarget, WorkerFrame,
           WorkerWritesBack, pg
<1>2. /\ work'.pc = "record" /\ work'.of = work.of /\ work'.target = work.target
      /\ work'.tasks = work.tasks /\ work'.ok = work.ok /\ work'.unsaved = work.unsaved
  BY <1>1 DEF ExecutingStates
<1>3. ~work.unsaved
  BY <1>1 DEF EffectInv, SuccessBacked
<1>4. \A s \in Schedules : work.target[s] = "completed" => HasRun(s)
  BY <1>1, <1>3 DEF EffectInv, CompletedHasRun, EffectPending
<1>5. CompletedHasRun'
  BY <1>1, <1>2, <1>4 DEF EffectInv, CompletedHasRun, HasRun
<1>6. TasksNamed'
  BY <1>1 DEF EffectInv, TasksNamed, ScheduledTask, TaskId
<1>7. SnapshotStored'
  BY <1>1, <1>2 DEF EffectInv, SnapshotStored
<1>8. IF Kind[work.of.sched] = "create_task" THEN HasTask(work.of)'
                                             ELSE HasRun(work.of.sched)
  <2>1. CASE WorkerFindsTask
    <3>1. PICK t \in work.tasks : t.id = work.of
      BY <2>1 DEF WorkerFindsTask, TaskId
    <3>2. t \in tasks /\ t.of = work.of
      BY <1>1, <3>1 DEF EffectInv, SnapshotStored, TasksNamed
    <3> QED
      BY <1>1, <1>2, <2>1, <3>2 DEF WorkerFindsTask, HasTask
  <2>2. CASE WorkerCreatesTask
    <3>1. ScheduledTask(work.of) \in tasks' /\ ScheduledTask(work.of).of = work.of
      BY <2>2 DEF WorkerCreatesTask, ScheduledTask
    <3> QED
      BY <1>2, <2>2, <3>1 DEF WorkerCreatesTask, HasTask
  <2>3. CASE WorkerSkipsTarget
    <3>1. work.of.sched \in Schedules
      BY <1>1 DEF ExecutingStates, Occurrences
    <3> QED
      BY <1>4, <2>3, <3>1 DEF WorkerSkipsTarget
  <2> QED
    BY <2>1, <2>2, <2>3
<1>9. SuccessBacked'
  BY <1>1, <1>2, <1>3, <1>8 DEF SuccessBacked, Effected, HasTask, HasRun
<1> QED
  BY <1>5, <1>6, <1>7, <1>9

LEMMA RunsEffect ==
  ASSUME EffectInv, NEW outcome \in TargetStatus \ {"open"}, WorkerRunsTarget(outcome),
         [Next]_vars
  PROVE  CompletedHasRun' /\ TasksNamed' /\ SnapshotStored' /\ SuccessBacked'
<1>1. /\ work.pc = "run" /\ Executing /\ work \in ExecutingStates
  BY ExecutingType DEF WorkerRunsTarget, Executing, EffectInv, TypeInv
<1>2. work' = [work EXCEPT !.pc = "record", !.ok = outcome # "blocked",
                           !.target[work.of.sched] = outcome]
      /\ UNCHANGED <<tasks, api>>
      /\ wfRuns' = [wfRuns EXCEPT ![work.of] = @ + 1]
  BY DEF WorkerRunsTarget, WorkerFrame
<1>3. /\ work'.pc = "record" /\ work'.of = work.of /\ work'.unsaved = work.unsaved
      /\ work'.target = [work.target EXCEPT ![work.of.sched] = outcome]
      /\ work'.tasks = work.tasks
  BY <1>1, <1>2 DEF ExecutingStates
<1>4. target' = work'.target
  BY <1>2 DEF WorkerRunsTarget, WorkerWritesBack
<1>5. work.of \in Occurrences /\ work.of.sched \in Schedules
  BY <1>1 DEF ExecutingStates, Occurrences
<1>6. HasRun(work.of.sched)'
  <2>1. wfRuns \in [Occurrences -> Nat]
    BY DEF EffectInv, TypeInv, TypeOK
  <2>2. wfRuns'[work.of] > 0
    BY <1>2, <1>5, <2>1
  <2> QED
    BY <1>3, <1>5, <2>2 DEF HasRun
<1>7. ~work.unsaved
  BY <1>1 DEF EffectInv, SuccessBacked
<1>8. ASSUME NEW s \in Schedules, work'.target[s] = "completed"
      PROVE  HasRun(s)'
  <2>1. CASE s = work.of.sched
    BY <1>3, <1>6, <2>1 DEF HasRun
  <2>2. CASE s # work.of.sched
    <3>1. work.target[s] = "completed"
      BY <1>1, <1>3, <1>8, <2>2 DEF ExecutingStates
    <3>2. HasRun(s)
      BY <1>1, <1>7, <3>1 DEF EffectInv, CompletedHasRun, EffectPending
    <3> QED
      BY <3>2, EffectsGrow DEF EffectInv
  <2> QED
    BY <2>1, <2>2
<1>9. CompletedHasRun'
  <2>1. \A s \in Schedules : api.target[s] = "completed" => HasRun(s)'
    BY EffectsGrow DEF EffectInv, CompletedHasRun
  <2> QED
    BY <1>2, <1>4, <1>8, <2>1 DEF CompletedHasRun
<1>10. TasksNamed' /\ SnapshotStored'
  BY <1>1, <1>2, <1>3 DEF EffectInv, TasksNamed, SnapshotStored
<1>11. SuccessBacked'
  <2>1. Kind[work.of.sched] # "create_task"
    BY DEF WorkerRunsTarget
  <2> QED
    BY <1>3, <1>6, <1>7, <2>1 DEF SuccessBacked, Effected
<1> QED
  BY <1>9, <1>10, <1>11

LEMMA UnsavedEffect ==
  ASSUME EffectInv, NEW outcome \in TargetStatus \ {"open"}, WorkerEffectUnsaved(outcome)
  PROVE  CompletedHasRun' /\ TasksNamed' /\ SnapshotStored' /\ SuccessBacked'
<1>1. /\ work.pc = "run" /\ Executing /\ work \in ExecutingStates
      /\ UNCHANGED <<target, tasks, wfRuns, api>>
  BY ExecutingType DEF WorkerEffectUnsaved, WorkerFrame, Executing, EffectInv, TypeInv, pg
<1>2. work.of.sched \in Schedules
  BY <1>1 DEF ExecutingStates, Occurrences
<1>3. PICK v : /\ work' = [work EXCEPT !.pc = "record", !.ok = FALSE, !.unsaved = TRUE,
                                       !.target[work.of.sched] = v]
               /\ Kind[work.of.sched] # "run_task" => v = work.target[work.of.sched]
  BY <1>1, <1>2 DEF WorkerEffectUnsaved, ExecutingStates
<1>4. /\ work'.pc = "record" /\ work'.of = work.of /\ work'.unsaved /\ ~work'.ok
      /\ work'.target = [work.target EXCEPT ![work.of.sched] = v]
      /\ work'.tasks = work.tasks
  BY <1>1, <1>3 DEF ExecutingStates
<1>5. ~work.unsaved
  BY <1>1 DEF EffectInv, SuccessBacked
<1>6. ASSUME NEW s \in Schedules, work'.target[s] = "completed",
             ~(work.of.sched = s /\ Kind[s] = "run_task")
      PROVE  HasRun(s)
  <2>1. work.target[s] = "completed"
    BY <1>1, <1>3, <1>4, <1>6 DEF ExecutingStates
  <2> QED
    BY <1>1, <1>5, <2>1 DEF EffectInv, CompletedHasRun, EffectPending
<1>7. CompletedHasRun'
  BY <1>1, <1>4, <1>6 DEF EffectInv, CompletedHasRun, HasRun, EffectPending
<1> QED
  BY <1>1, <1>4, <1>7 DEF EffectInv, TasksNamed, SnapshotStored, SuccessBacked

LEMMA RecordsEffect ==
  ASSUME EffectInv, WorkerRecords, [Next]_vars
  PROVE  /\ CompletedHasRun' /\ TasksNamed' /\ SnapshotStored' /\ SuccessBacked'
         /\ SuccessHasEffect'
<1>1. /\ Executing /\ work \in ExecutingStates
      /\ work.of \in Occurrences /\ work.of.sched \in Schedules
      /\ target' = work.target /\ api' = api /\ ~Executing'
  BY RecordWrites DEF EffectInv, Returning, Executing
<1>2. ASSUME NEW s \in Schedules, work.target[s] = "completed"
      PROVE  HasRun(s)'
  <2>1. CASE EffectPending(s)
    <3>1. wfRuns' = [wfRuns EXCEPT ![work.of] = @ + 1]
      BY <2>1 DEF WorkerRecords, EffectPending
    <3>2. wfRuns \in [Occurrences -> Nat]
      BY DEF EffectInv, TypeInv, TypeOK
    <3>3. wfRuns'[work.of] > 0
      BY <1>1, <3>1, <3>2
    <3> QED
      BY <1>1, <2>1, <3>3 DEF HasRun, EffectPending
  <2>2. CASE ~EffectPending(s)
    <3>1. HasRun(s)
      BY <1>1, <1>2, <2>2 DEF EffectInv, CompletedHasRun
    <3> QED
      BY <3>1, EffectsGrow DEF EffectInv
  <2> QED
    BY <2>1, <2>2
<1>3. CompletedHasRun'
  <2>1. \A s \in Schedules : api.target[s] = "completed" => HasRun(s)'
    BY EffectsGrow DEF EffectInv, CompletedHasRun
  <2> QED
    BY <1>1, <1>2, <2>1 DEF CompletedHasRun
<1>4. TasksNamed'
  BY DEF EffectInv, TasksNamed, WorkerRecords, ScheduledTask, TaskId
<1>5. SnapshotStored' /\ SuccessBacked'
  BY <1>1 DEF SnapshotStored, SuccessBacked
<1>6. work.ok => Effected(work.of)
  BY <1>1 DEF EffectInv, SuccessBacked, WorkerRecords
<1>7. ASSUME NEW i \in DOMAIN execs', execs'[i].ok, NEW o, o = execs'[i].of
      PROVE  Effected(o)'
  <2>1. CASE execs'[i] = Row
    BY <1>6, <1>7, <2>1, EffectsGrow DEF EffectInv, Row
  <2>2. CASE i \in DOMAIN execs /\ execs'[i] = execs[i]
    <3>1. Effected(o)
      BY <1>7, <2>2 DEF EffectInv, SuccessHasEffect, Effected, HasTask, HasRun
    <3> QED
      BY <3>1, EffectsGrow DEF EffectInv
  <2> QED
    BY <1>7, <2>1, <2>2, AppendedRow DEF EffectInv
<1>8. SuccessHasEffect'
  BY <1>7 DEF SuccessHasEffect, Effected, HasTask, HasRun
<1> QED
  BY <1>3, <1>4, <1>5, <1>8

\* A commit by the API writes targets it once read, whose runs are stored.
LEMMA ApiEffect ==
  ASSUME EffectInv, ApiWrites
  PROVE  CompletedHasRun' /\ TasksNamed' /\ SnapshotStored' /\ SuccessBacked'
<1>1. /\ UNCHANGED <<tasks, wfRuns, work>>
      /\ target' \in {target, api.target} /\ api'.target \in {target, api.target}
  <2>1. api \in [jobs : [Schedules -> Jobs], target : [Schedules -> TargetStatus]]
    BY DEF EffectInv, TypeInv, TypeOK
  <2>2. \A s, j : [api EXCEPT !.jobs[s] = j].target = api.target
    BY <2>1
  <2>3. ASSUME NEW held, held.target = api.target, ApiCommit(held)
        PROVE  <1>1!:
    BY <2>3 DEF ApiCommit
  <2>4. CASE ApiRestarts
    BY <2>4 DEF ApiRestarts, pg
  <2> QED
    BY <2>2, <2>3, <2>4 DEF ApiWrites, ApiCreates, ApiPauses, ApiResumes, ApiCancels, ApiSyncs
<1>2. CompletedHasRun'
  BY <1>1 DEF EffectInv, CompletedHasRun, HasRun, Executing, EffectPending
<1>3. TasksNamed' /\ SnapshotStored'
  BY <1>1 DEF EffectInv, TasksNamed, SnapshotStored, Executing
<1>4. SuccessBacked'
  BY <1>1 DEF EffectInv, SuccessBacked, Executing, Effected, HasTask, HasRun
<1> QED
  BY <1>2, <1>3, <1>4

LEMMA EffectStep == EffectInv /\ [Next]_vars => EffectInv'
<1> SUFFICES ASSUME EffectInv, [Next]_vars
             PROVE  /\ CompletedHasRun' /\ TasksNamed' /\ SnapshotStored' /\ SuccessBacked'
                    /\ SuccessHasEffect'
  BY TypeStep DEF EffectInv
<1> DEFINE Backed == CompletedHasRun' /\ TasksNamed' /\ SnapshotStored' /\ SuccessBacked'
<1>1. CASE WorkerRecords
  BY <1>1, RecordsEffect
<1>2. CASE ~WorkerRecords
  <2>1. SuccessHasEffect'
    <3>1. execs' = execs
      BY <1>2, OnlyRecordsAppend
    <3>2. ASSUME NEW i \in DOMAIN execs, execs[i].ok, NEW o, o = execs[i].of
          PROVE  Effected(o)'
      <4>1. Effected(o)
        BY <3>2 DEF EffectInv, SuccessHasEffect, Effected, HasTask, HasRun
      <4> QED
        BY <4>1, EffectsGrow DEF EffectInv
    <3> QED
      BY <3>1, <3>2 DEF SuccessHasEffect, Effected, HasTask, HasRun
  <2>2. Backed
    <3>1. CASE \E o \in Occurrences : WorkerTake(o)
      BY <3>1, TakeEffect
    <3>2. CASE WorkerFindsTask \/ WorkerCreatesTask \/ WorkerSkipsTarget
      BY <3>2, RecordingEffect
    <3>3. CASE \E outcome \in TargetStatus \ {"open"} : WorkerRunsTarget(outcome)
      BY <3>3, RunsEffect
    <3>4. CASE \E outcome \in TargetStatus \ {"open"} : WorkerEffectUnsaved(outcome)
      BY <3>4, UnsavedEffect
    <3>5. CASE ApiWrites
      BY <3>5, ApiEffect
    <3>6. CASE WorkerAcks \/ WorkerFails
      <4>1. ~Executing' /\ UNCHANGED <<target, tasks, wfRuns, api>>
        BY <3>6 DEF WorkerAcks, WorkerFails, WorkerFrame, Executing, IdleWorker, pg
      <4> QED
        BY <4>1 DEF EffectInv, CompletedHasRun, TasksNamed, SnapshotStored, SuccessBacked, HasRun
    <3>7. CASE UNCHANGED <<target, tasks, wfRuns, work, api>>
      BY <3>7 DEF EffectInv, CompletedHasRun, TasksNamed, SnapshotStored, SuccessBacked,
                  Effected, HasRun, HasTask, Executing, EffectPending
    <3>8. WorkerSteps \/ ApiWrites \/ UNCHANGED <<target, tasks, wfRuns, work, api>>
      BY DEF Next, vars, pg, redis, Tick, Dispatches, DispatchScan, DispatchAcquire,
             DispatchFindsPrior, DispatchEnqueue, DispatcherFrame, WorkerSteps, RedisForgets,
             KeyExpires, RqForgets, Faults, DispatchEnqueueFails, DispatcherCrash
    <3> QED
      BY <1>2, <3>1, <3>2, <3>3, <3>4, <3>5, <3>6, <3>7, <3>8 DEF WorkerSteps, Works
  <2> QED
    BY <2>1, <2>2
<1> QED
  BY <1>1, <1>2

LEMMA EffectAlways == Spec => []EffectInv
<1>1. Init => EffectInv
  <2> SUFFICES ASSUME Init
               PROVE  CompletedHasRun /\ TasksNamed /\ SnapshotStored /\ SuccessBacked
                      /\ SuccessHasEffect
    BY TypeInit DEF EffectInv
  <2>1. ~Executing /\ tasks = {} /\ execs = << >>
    BY DEF Init, Executing, IdleWorker
  <2>2. \A s \in Schedules : target[s] # "completed" /\ api.target[s] # "completed"
    BY DEF Init
  <2> QED
    BY <2>1, <2>2 DEF CompletedHasRun, TasksNamed, SnapshotStored, SuccessBacked,
                      SuccessHasEffect
<1> QED
  BY <1>1, EffectStep, PTL DEF Spec

\* A recorded success has its task or its workflow run in PostgreSQL, also when
\* syncs fail, workers die and the API writes stale rows.
THEOREM SuccessIsBacked == Spec => []SuccessHasEffect
<1>1. EffectInv => SuccessHasEffect
  BY DEF EffectInv
<1> QED
  BY <1>1, EffectAlways, PTL

\* However often an occurrence is attempted, by a retry, a redelivery or a
\* worker that found a stale snapshot, at most one task is stored for it: its id
\* is derived from the occurrence.
THEOREM OneTaskStored == Spec => []OneTaskPerOccurrence
<1>1. EffectInv => OneTaskPerOccurrence
  BY DEF EffectInv, TypeInv, TypeOK, TasksNamed, OneTaskPerOccurrence
<1> QED
  BY <1>1, EffectAlways, PTL
=============================================================================
