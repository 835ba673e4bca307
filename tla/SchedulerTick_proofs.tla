------------------------- MODULE SchedulerTick_proofs -------------------------
(***************************************************************************)
(* Proofs about SchedulerTick, for every set of schedules, every finite    *)
(* set of request threads, any clock and any number of ticks, operator     *)
(* requests, failed saves and restarts.                                    *)
(***************************************************************************)
EXTENDS SchedulerTick, FiniteSetTheorems, WellFoundedInduction, TLAPS

-----------------------------------------------------------------------------
(* Shapes                                                                  *)

Syncs == {"tasks", "jobs", "execs"}

Acting == [pc : {"act"}, todo : (SUBSET Schedules) \ {{}}, at : 0 .. MaxTime]
Advancing == [pc : {"advance"}, job : Schedules, ok : BOOLEAN,
              todo : SUBSET Schedules, at : 0 .. MaxTime]
Syncing == [pc : Syncs, held : States, next : {Idle} \cup Advancing]
ThreadStates == {Idle} \cup Acting \cup Advancing \cup Syncing

TypeInv ==
  /\ now \in 0 .. MaxTime
  /\ mem \in States /\ db \in States
  /\ th \in [Threads -> ThreadStates]
  /\ faults \in Nat

\* What a thread is doing follows from where it is.
LEMMA Phases ==
  ASSUME NEW x \in ThreadStates
  PROVE  /\ x.pc \in ThreadPcs
         /\ x.pc = "idle" => x = Idle
         /\ x.pc = "act" => x \in Acting
         /\ x.pc = "advance" => x \in Advancing
         /\ x.pc \in Syncs => x \in Syncing
BY DEF ThreadStates, ThreadPcs, Idle, Acting, Advancing, Syncing, Syncs

LEMMA TypesGiveTypeOK == TypeInv => TypeOK
BY Phases DEF TypeInv, TypeOK

\* A non-empty set of natural numbers has a least element.
LEMMA LeastNatural ==
  ASSUME NEW S \in SUBSET Nat, S # {}
  PROVE  \E n \in S : \A m \in S : n <= m
<1>1. PICK n \in S : \A m \in S : <<m, n>> \notin OpToRel(<, Nat)
  BY NatLessThanWellFounded, WFMin
<1>2. \A m \in S : ~(m < n)
  BY <1>1 DEF OpToRel
<1> QED
  BY <1>2

\* Of the jobs of a tick one comes first: next_run_at and the id order them all.
LEMMA EarliestListed ==
  ASSUME mem \in States, NEW S \in SUBSET Schedules, S # {}
  PROVE  Earliest(S) \in S
<1> DEFINE due(s) == mem.jobs[s].next
           T(d) == {s \in S : due(s) = d}
<1>1. \A s \in S : due(s) \in Nat /\ s \in Nat
  BY SchedulesAssumption, HorizonAssumption DEF States, Jobs, Times
<1>2. PICK d \in {due(s) : s \in S} : \A e \in {due(s) : s \in S} : d <= e
  <2>1. {due(s) : s \in S} \in SUBSET Nat /\ {due(s) : s \in S} # {}
    BY <1>1
  <2> QED
    BY <2>1, LeastNatural
<1>3. PICK i \in T(d) : \A k \in T(d) : i <= k
  <2>1. T(d) \in SUBSET Nat /\ T(d) # {}
    BY <1>1, <1>2
  <2> HIDE DEF T
  <2> QED
    BY <2>1, LeastNatural
<1>4. i \in S /\ due(i) = d /\ \A k \in S : due(k) = d => i <= k
  BY <1>3
<1>5. \A k \in S : d <= due(k)
  BY <1>2
<1>6. ASSUME NEW k \in S \ {i}
      PROVE  Before(Occurrence(i, mem.jobs[i]), Occurrence(k, mem.jobs[k]))
  <2>1. due(i) < due(k) \/ (due(i) = due(k) /\ i < k)
    BY <1>1, <1>4, <1>5, <1>6
  <2> QED
    BY <2>1 DEF Before, Occurrence
<1> QED
  BY <1>4, <1>6 DEF Earliest

-----------------------------------------------------------------------------
(* What each step does                                                     *)

\* One thread goes to x and the others stay.
Goes(t, x) ==
  /\ x \in ThreadStates
  /\ th' = [th EXCEPT ![t] = x]

LEMMA GoesTo ==
  ASSUME TypeInv, NEW t \in Threads, NEW x, Goes(t, x)
  PROVE  /\ th' \in [Threads -> ThreadStates] /\ th'[t] = x
         /\ \A u \in Threads \ {t} : th'[u] = th[u]
BY DEF Goes, TypeInv

LEMMA AfterRunFacts ==
  ASSUME NEW s \in Schedules, NEW j \in Jobs, NEW at \in 0 .. MaxTime, NEW ok \in BOOLEAN
  PROVE  AfterRun(s, j, at, ok) \in Jobs /\ AfterRun(s, j, at, ok).runs = j.runs + 1
<1>1. at + Interval[s] \in Times
  BY MaxTimeAssumption, TimingAssumption, HorizonAssumption DEF Times
<1> QED
  BY <1>1 DEF AfterRun, Jobs, JobStatus

LEMMA TickBeginsFacts ==
  ASSUME TypeInv, NEW t \in Threads, TickBegins(t)
  PROVE  /\ \E x \in Acting : Goes(t, x)
         /\ th[t] = Idle /\ UNCHANGED <<now, mem, db, faults>>
<1> DEFINE due == {o.sched : o \in DueBatch(mem.jobs, now, Cardinality(Schedules))}
           x == [pc |-> "act", todo |-> due, at |-> now]
<1>1. due \subseteq Schedules
  <2>1. \A o \in DueBatch(mem.jobs, now, Cardinality(Schedules)) :
          \E s \in Schedules : o = Occurrence(s, mem.jobs[s])
    BY DEF DueBatch
  <2>2. \A s \in Schedules : Occurrence(s, mem.jobs[s]).sched = s
    BY DEF Occurrence
  <2> QED
    BY <2>1, <2>2
<1>2. th' = [th EXCEPT ![t] = x] /\ due # {}
  BY DEF TickBegins
<1> HIDE DEF due
<1>3. x \in Acting
  BY <1>1, <1>2 DEF Acting, TypeInv
<1> QED
  BY <1>2, <1>3, Phases DEF Goes, ThreadStates, TickBegins, TypeInv

LEMMA TickActsFacts ==
  ASSUME TypeInv, NEW t \in Threads, NEW ok \in BOOLEAN, TickActs(t, ok)
  PROVE  \E s \in Schedules :
           /\ mem' = [mem EXCEPT !.effects[s] = @ + 1] /\ mem' \in States
           /\ \E x \in Advancing :
                /\ x.job = s
                /\ Goes(t, [pc |-> "tasks", held |-> mem', next |-> x])
           /\ th[t] \in Acting /\ UNCHANGED <<now, db, faults>>
<1> DEFINE s == Earliest(th[t].todo)
           x == [pc |-> "advance", job |-> s, ok |-> ok, todo |-> th[t].todo \ {s},
                 at |-> th[t].at]
<1>1. th[t] \in Acting
  BY Phases DEF TypeInv, TickActs
<1>2. s \in Schedules /\ s \in th[t].todo
  BY <1>1, EarliestListed DEF Acting, TypeInv
<1>3. mem' = [mem EXCEPT !.effects[s] = @ + 1]
  BY DEF TickActs
<1>4. th' = [th EXCEPT ![t] = [pc |-> "tasks", held |-> mem', next |-> x]]
  BY DEF TickActs, BeginSync
<1> HIDE DEF s
<1>5. mem' \in States
  BY <1>2, <1>3 DEF TypeInv, States, Counts
<1>6. x \in Advancing /\ x.job = s
  BY <1>1, <1>2 DEF Acting, Advancing
<1>7. [pc |-> "tasks", held |-> mem', next |-> x] \in ThreadStates
  BY <1>5, <1>6 DEF ThreadStates, Syncing, Syncs
<1> QED
  BY <1>1, <1>2, <1>3, <1>4, <1>5, <1>6, <1>7 DEF Goes, TickActs

LEMMA TickAdvancesFacts ==
  ASSUME TypeInv, NEW t \in Threads, TickAdvances(t)
  PROVE  /\ th[t] \in Advancing
         /\ mem' \in States
         /\ mem'.jobs = [mem.jobs EXCEPT ![th[t].job] =
                           AfterRun(th[t].job, mem.jobs[th[t].job], th[t].at, th[t].ok)]
         /\ mem'.execs = [mem.execs EXCEPT ![th[t].job] = @ + 1]
         /\ mem'.done = [mem.done EXCEPT ![th[t].job] = IF th[t].ok THEN @ + 1 ELSE @]
         /\ mem'.effects = mem.effects
         /\ \/ Goes(t, [pc |-> "tasks", held |-> mem', next |-> Idle])
            \/ \E x \in Acting : Goes(t, x)
         /\ UNCHANGED <<now, db, faults>>
<1> DEFINE s == th[t].job
           job == AfterRun(s, mem.jobs[s], th[t].at, th[t].ok)
           jobs == [mem.jobs EXCEPT ![s] = job]
           execs == [mem.execs EXCEPT ![s] = @ + 1]
           done == [mem.done EXCEPT ![s] = IF th[t].ok THEN @ + 1 ELSE @]
<1>1. th[t] \in Advancing
  BY Phases DEF TypeInv, TickAdvances
<1>2. s \in Schedules /\ mem.jobs[s] \in Jobs /\ th[t].at \in 0 .. MaxTime /\ th[t].ok \in BOOLEAN
  BY <1>1 DEF Advancing, TypeInv, States
<1>3. job \in Jobs
  BY <1>2, AfterRunFacts
<1>4. mem' = [mem EXCEPT !.jobs = jobs, !.execs = execs, !.done = done]
  BY DEF TickAdvances
<1>5. /\ mem' \in States
      /\ mem'.jobs = jobs /\ mem'.execs = execs /\ mem'.done = done
      /\ mem'.effects = mem.effects
  <2>1. jobs \in [Schedules -> Jobs]
    BY <1>2, <1>3 DEF TypeInv, States
  <2>2. execs \in Counts
    BY <1>2 DEF TypeInv, States, Counts
  <2>3. done \in Counts
    BY <1>2 DEF TypeInv, States, Counts
  <2> HIDE DEF jobs, execs, done, job
  <2> QED
    BY <1>4, <2>1, <2>2, <2>3 DEF TypeInv, States
<1>6. th' = [th EXCEPT ![t] = IF th[t].todo = {} THEN [pc |-> "tasks", held |-> mem', next |-> Idle]
                              ELSE [pc |-> "act", todo |-> th[t].todo, at |-> th[t].at]]
  BY DEF TickAdvances, BeginSync
<1>7. [pc |-> "tasks", held |-> mem', next |-> Idle] \in ThreadStates
  BY <1>5 DEF ThreadStates, Syncing, Syncs
<1>8. th[t].todo # {} => [pc |-> "act", todo |-> th[t].todo, at |-> th[t].at] \in Acting
  BY <1>1 DEF Advancing, Acting
<1>9. \/ Goes(t, [pc |-> "tasks", held |-> mem', next |-> Idle])
      \/ \E x \in Acting : Goes(t, x)
  BY <1>6, <1>7, <1>8 DEF Goes, ThreadStates
<1> QED
  BY <1>1, <1>5, <1>9 DEF TickAdvances


Control(t, s) == PauseJob(t, s) \/ ResumeJob(t, s) \/ CancelJob(t, s)

LEMMA ControlFacts ==
  ASSUME TypeInv, NEW t \in Threads, NEW s \in Schedules, Control(t, s)
  PROVE  /\ mem' \in States
         /\ \A r \in Schedules : mem'.jobs[r].runs = mem.jobs[r].runs
         /\ mem'.effects = mem.effects /\ mem'.execs = mem.execs /\ mem'.done = mem.done
         /\ Goes(t, [pc |-> "tasks", held |-> mem', next |-> Idle])
         /\ th[t] = Idle /\ UNCHANGED <<now, db, faults>>
<1> DEFINE Changed(job) == job \in Jobs /\ job.runs = mem.jobs[s].runs
<1>1. mem.jobs[s] \in Jobs
  BY DEF TypeInv, States
<1>2. Changed(Paused(mem.jobs[s])) /\ Changed(Resumed(mem.jobs[s])) /\ Changed(Cancelled(mem.jobs[s]))
  BY <1>1 DEF Paused, Resumed, Cancelled, Jobs, JobStatus
<1>3. PICK job : Changed(job) /\ \E can : Controls(t, s, can, job)
  BY <1>2 DEF Control, PauseJob, ResumeJob, CancelJob
<1>4. /\ mem' = [mem EXCEPT !.jobs[s] = job] /\ th[t].pc = "idle"
      /\ th' = [th EXCEPT ![t] = [pc |-> "tasks", held |-> mem', next |-> Idle]]
      /\ UNCHANGED <<now, db, faults>>
  BY <1>3 DEF Controls, BeginSync
<1>5. /\ mem' \in States /\ mem'.jobs = [mem.jobs EXCEPT ![s] = job]
      /\ mem'.effects = mem.effects /\ mem'.execs = mem.execs /\ mem'.done = mem.done
  BY <1>3, <1>4 DEF TypeInv, States
<1>6. \A r \in Schedules : mem'.jobs[r].runs = mem.jobs[r].runs
  BY <1>3, <1>5 DEF TypeInv, States
<1>7. [pc |-> "tasks", held |-> mem', next |-> Idle] \in ThreadStates
  BY <1>5 DEF ThreadStates, Syncing, Syncs
<1> QED
  BY <1>4, <1>5, <1>6, <1>7, Phases DEF Goes, TypeInv

LEMMA InsertShape ==
  ASSUME NEW a \in Counts, NEW b \in Counts
  PROVE  /\ InsertRows(a, b) \in Counts
         /\ \A s \in Schedules : /\ a[s] <= InsertRows(a, b)[s] /\ b[s] <= InsertRows(a, b)[s]
                                 /\ InsertRows(a, b)[s] \in {a[s], b[s]}
BY DEF InsertRows, Bigger, Counts

LEMMA SaveTasksFacts ==
  ASSUME TypeInv, NEW t \in Threads, SaveTasks(t)
  PROVE  /\ th[t] \in Syncing /\ th[t].pc = "tasks"
         /\ db' \in States
         /\ db'.effects = InsertRows(db.effects, th[t].held.effects)
         /\ db'.jobs = db.jobs /\ db'.execs = db.execs /\ db'.done = db.done
         /\ Goes(t, [pc |-> "jobs", held |-> th[t].held, next |-> th[t].next])
         /\ UNCHANGED <<now, mem, faults>>
<1> DEFINE effects == InsertRows(db.effects, th[t].held.effects)
           x == [pc |-> "jobs", held |-> th[t].held, next |-> th[t].next]
<1>1. th[t] \in Syncing
  BY Phases DEF TypeInv, SaveTasks, Syncs
<1>2. effects \in Counts
  BY <1>1, InsertShape DEF Syncing, TypeInv, States
<1>3. db' = [db EXCEPT !.effects = effects]
  BY DEF SaveTasks
<1> HIDE DEF effects
<1>4. /\ db' \in States /\ db'.effects = effects
      /\ db'.jobs = db.jobs /\ db'.execs = db.execs /\ db'.done = db.done
  BY <1>2, <1>3 DEF TypeInv, States
<1>5. [th[t] EXCEPT !.pc = "jobs"] = x /\ x \in ThreadStates
  BY <1>1 DEF Syncing, Syncs, ThreadStates
<1>6. th' = [th EXCEPT ![t] = x]
  BY <1>5 DEF SaveTasks
<1> QED
  BY <1>1, <1>4, <1>5, <1>6 DEF SaveTasks, Goes, effects

LEMMA SaveJobsFacts ==
  ASSUME TypeInv, NEW t \in Threads, SaveJobs(t)
  PROVE  /\ th[t] \in Syncing /\ th[t].pc = "jobs"
         /\ db' \in States
         /\ db'.jobs = mem.jobs
         /\ db'.effects = db.effects /\ db'.execs = db.execs /\ db'.done = db.done
         /\ Goes(t, [pc |-> "execs", held |-> th[t].held, next |-> th[t].next])
         /\ UNCHANGED <<now, mem, faults>>
<1> DEFINE x == [pc |-> "execs", held |-> th[t].held, next |-> th[t].next]
<1>1. th[t] \in Syncing
  BY Phases DEF TypeInv, SaveJobs, Syncs
<1>2. db' = [db EXCEPT !.jobs = mem.jobs]
  BY DEF SaveJobs
<1>3. /\ db' \in States /\ db'.jobs = mem.jobs
      /\ db'.effects = db.effects /\ db'.execs = db.execs /\ db'.done = db.done
  BY <1>2 DEF TypeInv, States
<1>4. [th[t] EXCEPT !.pc = "execs"] = x /\ x \in ThreadStates
  BY <1>1 DEF Syncing, Syncs, ThreadStates
<1>5. th' = [th EXCEPT ![t] = x]
  BY <1>4 DEF SaveJobs
<1> QED
  BY <1>1, <1>3, <1>4, <1>5 DEF SaveJobs, Goes

LEMMA SaveExecutionsFacts ==
  ASSUME TypeInv, NEW t \in Threads, SaveExecutions(t)
  PROVE  /\ th[t] \in Syncing /\ th[t].pc = "execs"
         /\ db' \in States
         /\ db'.execs = InsertRows(db.execs, th[t].held.execs)
         /\ db'.done = InsertRows(db.done, th[t].held.done)
         /\ db'.jobs = db.jobs /\ db'.effects = db.effects
         /\ Goes(t, th[t].next)
         /\ UNCHANGED <<now, mem, faults>>
<1> DEFINE execs == InsertRows(db.execs, th[t].held.execs)
           done == InsertRows(db.done, th[t].held.done)
<1>1. th[t] \in Syncing
  BY Phases DEF TypeInv, SaveExecutions, Syncs
<1>2. execs \in Counts /\ done \in Counts
  BY <1>1, InsertShape DEF Syncing, TypeInv, States
<1>3. db' = [db EXCEPT !.execs = execs, !.done = done]
  BY DEF SaveExecutions
<1> HIDE DEF execs, done
<1>4. /\ db' \in States /\ db'.execs = execs /\ db'.done = done
      /\ db'.jobs = db.jobs /\ db'.effects = db.effects
  BY <1>2, <1>3 DEF TypeInv, States
<1>5. th' = [th EXCEPT ![t] = th[t].next] /\ th[t].next \in ThreadStates
  BY <1>1 DEF SaveExecutions, Syncing, ThreadStates
<1> QED
  BY <1>1, <1>4, <1>5 DEF SaveExecutions, Goes, execs, done

LEMMA SyncFailsFacts ==
  ASSUME TypeInv, NEW t \in Threads, SyncFails(t)
  PROVE  /\ \/ Goes(t, Idle)
            \/ \E x \in Advancing : ~x.ok /\ Goes(t, x)
         /\ th[t] \in Syncing /\ UNCHANGED <<now, mem, db>> /\ faults' \in Nat
<1>1. th[t] \in Syncing
  BY Phases DEF TypeInv, SyncFails, Syncs
<1>2. CASE th[t].next.pc = "advance"
  <2> DEFINE x == [th[t].next EXCEPT !.ok = FALSE]
  <2>1. th[t].next \in Advancing
    BY <1>1, <1>2 DEF Syncing, Idle
  <2>2. x \in Advancing /\ ~x.ok
    BY <2>1 DEF Advancing
  <2>3. th' = [th EXCEPT ![t] = x]
    BY <1>2 DEF SyncFails
  <2>4. UNCHANGED <<now, mem, db>> /\ faults' \in Nat
    BY DEF SyncFails, TypeInv
  <2> HIDE DEF x
  <2>5. Goes(t, x)
    BY <2>2, <2>3 DEF Goes, ThreadStates
  <2> QED
    BY <1>1, <2>2, <2>4, <2>5
<1>3. CASE th[t].next.pc # "advance"
  BY <1>1, <1>3 DEF SyncFails, Goes, ThreadStates, TypeInv
<1> QED
  BY <1>2, <1>3

\* Every step is one of these.
LEMMA NextCases ==
  ASSUME [Next]_vars
  PROVE  \/ UNCHANGED <<mem, db, th, faults>> /\ (now' = now \/ Clock)
         \/ Restart
         \/ \E t \in Threads :
              \/ TickBegins(t)
              \/ \E ok \in BOOLEAN : TickActs(t, ok)
              \/ TickAdvances(t)
              \/ \E s \in Schedules : Control(t, s)
              \/ SaveTasks(t)
              \/ SaveJobs(t)
              \/ SaveExecutions(t)
              \/ SyncFails(t)
BY DEF Next, vars, ThreadStep, Requests, Control, Clock

LEMMA InitShape ==
  ASSUME Init
  PROVE  /\ mem \in States /\ db = mem /\ now \in 0 .. MaxTime /\ faults = 0
         /\ th = [t \in Threads |-> Idle]
         /\ \A s \in Schedules : /\ mem.effects[s] = 0 /\ mem.execs[s] = 0 /\ mem.done[s] = 0
                                 /\ mem.jobs[s].runs = 0
<1>1. \A s \in Schedules : NewJob(FirstDue[s]) \in Jobs /\ NewJob(FirstDue[s]).runs = 0
  BY FirstDueAssumption DEF NewJob, Jobs, JobStatus
<1>2. mem = [jobs |-> [s \in Schedules |-> NewJob(FirstDue[s])],
             effects |-> [s \in Schedules |-> 0],
             execs |-> [s \in Schedules |-> 0],
             done |-> [s \in Schedules |-> 0]]
  BY DEF Init
<1> QED
  BY <1>1, <1>2, MaxTimeAssumption DEF Init, States, Counts

LEMMA TypeInit == Init => TypeInv
<1>1. Idle \in ThreadStates
  BY DEF ThreadStates
<1> QED
  BY <1>1, InitShape DEF TypeInv

LEMMA TypeStep == TypeInv /\ [Next]_vars => TypeInv'
<1> SUFFICES ASSUME TypeInv, [Next]_vars PROVE TypeInv'
  OBVIOUS
<1>1. ASSUME NEW t \in Threads, NEW x, Goes(t, x) PROVE th' \in [Threads -> ThreadStates]
  BY <1>1, GoesTo
<1>2. CASE UNCHANGED <<mem, db, th, faults>> /\ (now' = now \/ Clock)
  <2>1. now' \in 0 .. MaxTime
    BY <1>2, MaxTimeAssumption DEF Clock, TypeInv
  <2> QED
    BY <1>2, <2>1 DEF TypeInv
<1>3. CASE Restart
  BY <1>3 DEF Restart, TypeInv, ThreadStates
<1>4. ASSUME NEW t \in Threads, TickBegins(t) PROVE TypeInv'
  BY <1>1, <1>4, TickBeginsFacts DEF TypeInv
<1>5. ASSUME NEW t \in Threads, NEW ok \in BOOLEAN, TickActs(t, ok) PROVE TypeInv'
  BY <1>1, <1>5, TickActsFacts DEF TypeInv
<1>6. ASSUME NEW t \in Threads, TickAdvances(t) PROVE TypeInv'
  BY <1>1, <1>6, TickAdvancesFacts DEF TypeInv
<1>7. ASSUME NEW t \in Threads, NEW s \in Schedules, Control(t, s) PROVE TypeInv'
  BY <1>1, <1>7, ControlFacts DEF TypeInv
<1>8. ASSUME NEW t \in Threads, SaveTasks(t) \/ SaveJobs(t) \/ SaveExecutions(t) PROVE TypeInv'
  BY <1>1, <1>8, SaveTasksFacts, SaveJobsFacts, SaveExecutionsFacts DEF TypeInv
<1>9. ASSUME NEW t \in Threads, SyncFails(t) PROVE TypeInv'
  BY <1>1, <1>9, SyncFailsFacts DEF TypeInv
<1> QED
  BY <1>2, <1>3, <1>4, <1>5, <1>6, <1>7, <1>8, <1>9, NextCases

\* Memory and rows keep their shape through every interleaving of ticks,
\* operator requests, row by row syncs, failures and restarts.
THEOREM TypesAlways == Spec => []TypeOK
<1> QED
  BY TypeInit, TypeStep, TypesGiveTypeOK, PTL DEF Spec


-----------------------------------------------------------------------------
(* The durable history                                                     *)

\* What a thread is about to write is in memory, and its part of an earlier
\* table is stored.
Carries(x, m, d) ==
  x.pc \in Syncs =>
    \A s \in Schedules :
      /\ x.held.execs[s] <= m.execs[s]
      /\ x.held.done[s] <= x.held.effects[s]
      /\ x.pc \in {"jobs", "execs"} => x.held.effects[s] <= d.effects[s]
      /\ x.pc = "execs" => x.held.execs[s] <= d.jobs[s].runs

\* The counters of one process agree.
Agrees(m) == \A s \in Schedules : m.execs[s] <= m.jobs[s].runs /\ m.done[s] <= m.effects[s]

RowsInv ==
  /\ Agrees(db) /\ \A s \in Schedules : mem.execs[s] <= mem.jobs[s].runs
  /\ \A s \in Schedules : db.jobs[s].runs <= mem.jobs[s].runs
  /\ \A t \in Threads : Carries(th[t], mem, db)

\* The threads whose attempt has had its effect and will be recorded as a success.
Owes(x, s) ==
  \/ x.pc = "advance" /\ x.job = s /\ x.ok
  \/ x.pc \in Syncs /\ x.next.pc = "advance" /\ x.next.job = s /\ x.next.ok

Owing(f, s) == {t \in Threads : Owes(f[t], s)}

OwedInv ==
  \A s \in Schedules : mem.done[s] + Cardinality(Owing(th, s)) <= mem.effects[s]

Inv == TypeInv /\ RowsInv /\ OwedInv

LEMMA OwingFinite ==
  ASSUME NEW f, NEW s
  PROVE  IsFiniteSet(Owing(f, s)) /\ Cardinality(Owing(f, s)) \in Nat
<1>1. Owing(f, s) \subseteq Threads
  BY DEF Owing
<1>2. IsFiniteSet(Owing(f, s))
  BY <1>1, ThreadsAssumption, FS_Subset
<1> QED
  BY <1>2, FS_CardinalityType

LEMMA OwedGivesDone ==
  ASSUME TypeInv, OwedInv
  PROVE  \A s \in Schedules : mem.done[s] <= mem.effects[s]
<1> SUFFICES ASSUME NEW s \in Schedules PROVE mem.done[s] <= mem.effects[s]
  OBVIOUS
<1>1. mem.done[s] \in Nat /\ mem.effects[s] \in Nat
  BY DEF TypeInv, States, Counts
<1>2. Cardinality(Owing(th, s)) \in Nat
  BY OwingFinite
<1>3. mem.done[s] + Cardinality(Owing(th, s)) <= mem.effects[s]
  BY DEF OwedInv
<1> QED
  BY <1>1, <1>2, <1>3

\* One thread changes: what it owes decides how many do.
LEMMA OwingStep ==
  ASSUME NEW t \in Threads, NEW s,
         \A u \in Threads \ {t} : th'[u] = th[u]
  PROVE  /\ (Owes(th'[t], s) <=> Owes(th[t], s)) => Cardinality(Owing(th', s)) = Cardinality(Owing(th, s))
         /\ (~Owes(th[t], s) /\ Owes(th'[t], s)) =>
              Cardinality(Owing(th', s)) = Cardinality(Owing(th, s)) + 1
         /\ (Owes(th[t], s) /\ ~Owes(th'[t], s)) =>
              Cardinality(Owing(th', s)) = Cardinality(Owing(th, s)) - 1
<1>1. (Owes(th'[t], s) <=> Owes(th[t], s)) => Owing(th', s) = Owing(th, s)
  BY DEF Owing
<1>2. (~Owes(th[t], s) /\ Owes(th'[t], s)) =>
        Owing(th', s) = Owing(th, s) \cup {t} /\ t \notin Owing(th, s)
  BY DEF Owing
<1>3. (Owes(th[t], s) /\ ~Owes(th'[t], s)) =>
        Owing(th', s) = Owing(th, s) \ {t} /\ t \in Owing(th, s)
  BY DEF Owing
<1>4. IsFiniteSet(Owing(th, s))
  BY OwingFinite
<1>5. t \notin Owing(th, s) => Cardinality(Owing(th, s) \cup {t}) = Cardinality(Owing(th, s)) + 1
  BY <1>4, FS_AddElement
<1>6. t \in Owing(th, s) => Cardinality(Owing(th, s) \ {t}) = Cardinality(Owing(th, s)) - 1
  BY <1>4, FS_RemoveElement
<1>7. (~Owes(th[t], s) /\ Owes(th'[t], s)) =>
        Cardinality(Owing(th', s)) = Cardinality(Owing(th, s)) + 1
  BY <1>2, <1>5
<1>8. (Owes(th[t], s) /\ ~Owes(th'[t], s)) =>
        Cardinality(Owing(th', s)) = Cardinality(Owing(th, s)) - 1
  BY <1>3, <1>6
<1> QED
  BY <1>1, <1>7, <1>8

\* Nothing is owed by an idle thread, or by one that is about to act.
LEMMA OwesNothing ==
  /\ \A s : ~Owes(Idle, s)
  /\ \A x \in Acting : \A s : ~Owes(x, s)
BY DEF Owes, Idle, Acting, Syncs

\* The other threads carry what they did when the counters only grow.
LEMMA OthersCarry ==
  ASSUME NEW x \in ThreadStates, NEW m \in States, NEW d \in States,
         NEW n \in States, NEW e \in States, Carries(x, m, d),
         \A s \in Schedules : /\ m.execs[s] <= n.execs[s] /\ d.effects[s] <= e.effects[s]
                              /\ d.jobs[s].runs <= e.jobs[s].runs
  PROVE  Carries(x, n, e)
<1> SUFFICES ASSUME x.pc \in Syncs, NEW s \in Schedules
             PROVE  /\ x.held.execs[s] <= n.execs[s]
                    /\ x.held.done[s] <= x.held.effects[s]
                    /\ x.pc \in {"jobs", "execs"} => x.held.effects[s] <= e.effects[s]
                    /\ x.pc = "execs" => x.held.execs[s] <= e.jobs[s].runs
  BY DEF Carries
<1>1. x.held \in States
  BY Phases DEF Syncing
<1>2. /\ x.held.execs[s] \in Nat /\ x.held.effects[s] \in Nat
      /\ m.execs[s] \in Nat /\ n.execs[s] \in Nat /\ d.effects[s] \in Nat /\ e.effects[s] \in Nat
      /\ d.jobs[s].runs \in Nat /\ e.jobs[s].runs \in Nat
  BY <1>1 DEF States, Counts, Jobs
<1>3. /\ x.held.execs[s] <= m.execs[s] /\ x.held.done[s] <= x.held.effects[s]
      /\ x.pc \in {"jobs", "execs"} => x.held.effects[s] <= d.effects[s]
      /\ x.pc = "execs" => x.held.execs[s] <= d.jobs[s].runs
  BY DEF Carries
<1>4. /\ m.execs[s] <= n.execs[s] /\ d.effects[s] <= e.effects[s]
      /\ d.jobs[s].runs <= e.jobs[s].runs
  OBVIOUS
<1> QED
  BY <1>2, <1>3, <1>4

LEMMA Idles ==
  ASSUME NEW m, NEW d
  PROVE  Carries(Idle, m, d) /\ \A x \in Acting \cup Advancing : Carries(x, m, d)
BY DEF Carries, Idle, Acting, Advancing, Syncs

\* A sync that begins carries what memory is.
LEMMA BeginCarries ==
  ASSUME NEW m \in States, NEW d, NEW x, \A s \in Schedules : m.done[s] <= m.effects[s]
  PROVE  Carries([pc |-> "tasks", held |-> m, next |-> x], m, d)
BY DEF Carries, States, Counts


-----------------------------------------------------------------------------
(* Each step keeps the invariant                                           *)

\* What is asked of a step of one thread beside the types.
StepKeeps(t) ==
  /\ Agrees(db') /\ \A s \in Schedules : mem'.execs[s] <= mem'.jobs[s].runs
  /\ \A s \in Schedules : db'.jobs[s].runs <= mem'.jobs[s].runs
  /\ \A s \in Schedules : /\ mem.execs[s] <= mem'.execs[s]
                          /\ db.effects[s] <= db'.effects[s]
                          /\ db.jobs[s].runs <= db'.jobs[s].runs
  /\ Carries(th'[t], mem', db')

LEMMA RowsStep ==
  ASSUME Inv, TypeInv', NEW t \in Threads, \A u \in Threads \ {t} : th'[u] = th[u], StepKeeps(t)
  PROVE  RowsInv'
<1>1. \A u \in Threads : Carries(th'[u], mem', db')
  <2>1. ASSUME NEW u \in Threads \ {t} PROVE Carries(th'[u], mem', db')
    <3>1. th[u] \in ThreadStates /\ Carries(th[u], mem, db) /\ th'[u] = th[u]
      BY DEF Inv, TypeInv, RowsInv
    <3>2. mem \in States /\ db \in States /\ mem' \in States /\ db' \in States
      BY DEF Inv, TypeInv
    <3> QED
      BY <3>1, <3>2, OthersCarry DEF StepKeeps
  <2> QED
    BY <2>1 DEF StepKeeps
<1> QED
  BY <1>1 DEF RowsInv, StepKeeps

\* The numbers of memory and of the rows.
LEMMA Numbers ==
  ASSUME TypeInv
  PROVE  \A s \in Schedules :
           /\ mem.execs[s] \in Nat /\ mem.done[s] \in Nat /\ mem.effects[s] \in Nat
           /\ mem.jobs[s].runs \in Nat
           /\ db.execs[s] \in Nat /\ db.done[s] \in Nat /\ db.effects[s] \in Nat
           /\ db.jobs[s].runs \in Nat
BY DEF TypeInv, States, Counts, Jobs

\* A step that leaves the records as they are.
LEMMA SameRecords ==
  ASSUME Inv, TypeInv', NEW t \in Threads, \A u \in Threads \ {t} : th'[u] = th[u],
         mem' = mem, db' = db, Carries(th'[t], mem, db)
  PROVE  RowsInv'
<1>1. StepKeeps(t)
  BY Numbers DEF Inv, RowsInv, StepKeeps
<1> QED
  BY <1>1, RowsStep

\* What is owed when memory's counters stay.
LEMMA SameOwed ==
  ASSUME Inv, NEW t \in Threads, \A u \in Threads \ {t} : th'[u] = th[u],
         mem'.done = mem.done, mem'.effects = mem.effects,
         \A s \in Schedules : Owes(th'[t], s) => Owes(th[t], s)
  PROVE  OwedInv'
<1> SUFFICES ASSUME NEW s \in Schedules
             PROVE  mem.done[s] + Cardinality(Owing(th', s)) <= mem.effects[s]
  BY DEF OwedInv
<1>1. mem.done[s] \in Nat /\ mem.effects[s] \in Nat
  BY Numbers DEF Inv
<1>2. Cardinality(Owing(th, s)) \in Nat /\ Cardinality(Owing(th', s)) \in Nat
  BY OwingFinite
<1>3. mem.done[s] + Cardinality(Owing(th, s)) <= mem.effects[s]
  BY DEF Inv, OwedInv
<1>4. \/ Cardinality(Owing(th', s)) = Cardinality(Owing(th, s))
      \/ Cardinality(Owing(th', s)) = Cardinality(Owing(th, s)) - 1
  <2>1. (Owes(th'[t], s) <=> Owes(th[t], s)) \/ (Owes(th[t], s) /\ ~Owes(th'[t], s))
    OBVIOUS
  <2>2. CASE Owes(th'[t], s) <=> Owes(th[t], s)
    BY <2>2, OwingStep
  <2>3. CASE Owes(th[t], s) /\ ~Owes(th'[t], s)
    BY <2>3, OwingStep
  <2> QED
    BY <2>1, <2>2, <2>3
<1> QED
  BY <1>1, <1>2, <1>3, <1>4

LEMMA TickBeginsStep ==
  ASSUME Inv, TypeInv', NEW t \in Threads, TickBegins(t)
  PROVE  Inv'
<1>1. PICK x \in Acting : Goes(t, x)
  BY TickBeginsFacts DEF Inv
<1>2. th'[t] = x /\ (\A u \in Threads \ {t} : th'[u] = th[u]) /\ mem' = mem /\ db' = db
  BY <1>1, GoesTo, TickBeginsFacts DEF Inv
<1>3. RowsInv'
  BY <1>2, Idles, SameRecords
<1>4. OwedInv'
  BY <1>2, OwesNothing, SameOwed
<1> QED
  BY <1>3, <1>4 DEF Inv

LEMMA ControlStep ==
  ASSUME Inv, TypeInv', NEW t \in Threads, NEW s \in Schedules, Control(t, s)
  PROVE  Inv'
<1> DEFINE x == [pc |-> "tasks", held |-> mem', next |-> Idle]
<1>1. /\ th'[t] = x /\ (\A u \in Threads \ {t} : th'[u] = th[u]) /\ db' = db /\ mem' \in States
      /\ mem'.effects = mem.effects /\ mem'.execs = mem.execs /\ mem'.done = mem.done
      /\ \A r \in Schedules : mem'.jobs[r].runs = mem.jobs[r].runs
  BY GoesTo, ControlFacts DEF Inv
<1>2. Carries(x, mem', db')
  <2>1. \A r \in Schedules : mem'.done[r] <= mem'.effects[r]
    BY <1>1, OwedGivesDone DEF Inv
  <2> QED
    BY <1>1, <2>1, BeginCarries
<1>3. \A r : ~Owes(x, r)
  BY DEF Owes, Idle
<1> HIDE DEF x
<1>4. StepKeeps(t)
  BY <1>1, <1>2, Numbers DEF Inv, RowsInv, StepKeeps
<1>5. RowsInv'
  BY <1>1, <1>4, RowsStep
<1>6. OwedInv'
  BY <1>1, <1>3, SameOwed
<1> QED
  BY <1>5, <1>6 DEF Inv


LEMMA TickActsStep ==
  ASSUME Inv, TypeInv', NEW t \in Threads, NEW ok \in BOOLEAN, TickActs(t, ok)
  PROVE  Inv'
<1>1. PICK s \in Schedules, x \in Advancing :
        /\ mem' = [mem EXCEPT !.effects[s] = @ + 1] /\ mem' \in States
        /\ x.job = s
        /\ Goes(t, [pc |-> "tasks", held |-> mem', next |-> x])
        /\ th[t] \in Acting /\ db' = db
  BY TickActsFacts DEF Inv
<1> DEFINE y == [pc |-> "tasks", held |-> mem', next |-> x]
<1>2. th'[t] = y /\ \A u \in Threads \ {t} : th'[u] = th[u]
  BY <1>1, GoesTo DEF Inv
<1>3. /\ mem'.jobs = mem.jobs /\ mem'.execs = mem.execs /\ mem'.done = mem.done
      /\ mem'.effects[s] = mem.effects[s] + 1
      /\ \A r \in Schedules \ {s} : mem'.effects[r] = mem.effects[r]
  BY <1>1 DEF Inv, TypeInv, States, Counts
<1>4. \A r \in Schedules : mem'.done[r] <= mem'.effects[r]
  BY <1>3, OwedGivesDone, Numbers DEF Inv
<1>5. Carries(y, mem', db')
  BY <1>1, <1>4, BeginCarries
<1>6. (\A r : ~Owes(th[t], r)) /\ \A r \in Schedules \ {s} : ~Owes(y, r)
  BY <1>1, OwesNothing DEF Owes
<1> HIDE DEF y
<1>7. StepKeeps(t)
  BY <1>1, <1>2, <1>3, <1>5, Numbers DEF Inv, RowsInv, StepKeeps
<1>8. RowsInv'
  BY <1>2, <1>7, RowsStep
<1>9. ASSUME NEW r \in Schedules
      PROVE  mem'.done[r] + Cardinality(Owing(th', r)) <= mem'.effects[r]
  <2>1. /\ mem.done[r] + Cardinality(Owing(th, r)) <= mem.effects[r]
        /\ mem.done[r] \in Nat /\ mem.effects[r] \in Nat
        /\ Cardinality(Owing(th, r)) \in Nat /\ Cardinality(Owing(th', r)) \in Nat
    BY Numbers, OwingFinite DEF Inv, OwedInv
  <2>2. CASE Owes(y, r)
    <3>1. Cardinality(Owing(th', r)) = Cardinality(Owing(th, r)) + 1 /\ r = s
      BY <1>2, <1>6, <2>2, OwingStep
    <3> QED
      BY <1>3, <2>1, <3>1
  <2>3. CASE ~Owes(y, r)
    <3>1. Cardinality(Owing(th', r)) = Cardinality(Owing(th, r))
      BY <1>2, <1>6, <2>3, OwingStep
    <3>2. mem.effects[r] <= mem'.effects[r] /\ mem'.effects[r] \in Nat
      BY <1>3, <2>1
    <3> QED
      BY <1>3, <2>1, <3>1, <3>2
  <2> QED
    BY <2>2, <2>3
<1>10. OwedInv'
  BY <1>9 DEF OwedInv
<1> QED
  BY <1>8, <1>10 DEF Inv

LEMMA TickAdvancesStep ==
  ASSUME Inv, TypeInv', NEW t \in Threads, TickAdvances(t)
  PROVE  Inv'
<1> DEFINE s == th[t].job
           y == [pc |-> "tasks", held |-> mem', next |-> Idle]
<1>1. /\ th[t] \in Advancing /\ mem' \in States /\ db' = db
      /\ mem'.jobs = [mem.jobs EXCEPT ![s] = AfterRun(s, mem.jobs[s], th[t].at, th[t].ok)]
      /\ mem'.execs = [mem.execs EXCEPT ![s] = @ + 1]
      /\ mem'.done = [mem.done EXCEPT ![s] = IF th[t].ok THEN @ + 1 ELSE @]
      /\ mem'.effects = mem.effects
      /\ Goes(t, y) \/ \E x \in Acting : Goes(t, x)
  BY TickAdvancesFacts DEF Inv
<1>2. PICK z : Goes(t, z) /\ (z = y \/ z \in Acting)
  BY <1>1
<1>3. th'[t] = z /\ \A u \in Threads \ {t} : th'[u] = th[u]
  BY <1>2, GoesTo DEF Inv
<1>4. s \in Schedules /\ mem.jobs[s] \in Jobs /\ th[t].at \in 0 .. MaxTime /\ th[t].ok \in BOOLEAN
  BY <1>1 DEF Advancing, Inv, TypeInv, States
<1>5. AfterRun(s, mem.jobs[s], th[t].at, th[t].ok).runs = mem.jobs[s].runs + 1
  BY <1>4, AfterRunFacts
<1>6. /\ mem'.jobs[s].runs = mem.jobs[s].runs + 1
      /\ mem'.execs[s] = mem.execs[s] + 1
      /\ mem'.done[s] = IF th[t].ok THEN mem.done[s] + 1 ELSE mem.done[s]
      /\ \A r \in Schedules \ {s} :
           /\ mem'.jobs[r].runs = mem.jobs[r].runs /\ mem'.execs[r] = mem.execs[r]
           /\ mem'.done[r] = mem.done[r]
  BY <1>1, <1>4, <1>5 DEF Inv, TypeInv, States, Counts
<1>7. \A r \in Schedules : Owes(th[t], r) <=> (r = s /\ th[t].ok)
  BY <1>1 DEF Owes, Advancing, Syncs
<1>8. \A r : ~Owes(z, r)
  BY <1>2, OwesNothing DEF Owes, Idle
<1> HIDE DEF s, y
<1>9. ASSUME NEW r \in Schedules
      PROVE  mem'.done[r] + Cardinality(Owing(th', r)) <= mem'.effects[r]
  <2>1. /\ mem.done[r] + Cardinality(Owing(th, r)) <= mem.effects[r]
        /\ mem.done[r] \in Nat /\ mem.effects[r] \in Nat
        /\ Cardinality(Owing(th, r)) \in Nat /\ Cardinality(Owing(th', r)) \in Nat
    BY Numbers, OwingFinite DEF Inv, OwedInv
  <2>2. CASE r = s /\ th[t].ok
    <3>1. Cardinality(Owing(th', r)) = Cardinality(Owing(th, r)) - 1
      BY <1>3, <1>7, <1>8, <2>2, OwingStep
    <3>2. mem'.done[r] = mem.done[r] + 1
      BY <1>6, <2>2
    <3> QED
      BY <1>1, <2>1, <3>1, <3>2
  <2>3. CASE ~(r = s /\ th[t].ok)
    <3>1. Cardinality(Owing(th', r)) = Cardinality(Owing(th, r))
      BY <1>3, <1>7, <1>8, <2>3, OwingStep
    <3>2. mem'.done[r] = mem.done[r]
      BY <1>6, <2>3
    <3> QED
      BY <1>1, <2>1, <3>1, <3>2
  <2> QED
    BY <2>2, <2>3
<1>10. OwedInv'
  BY <1>9 DEF OwedInv
<1>11. \A r \in Schedules : mem'.done[r] <= mem'.effects[r]
  <2>1. \A r \in Schedules : mem'.done[r] \in Nat /\ mem'.effects[r] \in Nat
    BY <1>1 DEF States, Counts
  <2>2. \A r \in Schedules : Cardinality(Owing(th', r)) \in Nat
    BY OwingFinite
  <2> QED
    BY <1>9, <2>1, <2>2
<1>12. Carries(z, mem', db')
  <2>1. CASE z = y
    BY <1>1, <1>11, <2>1, BeginCarries DEF y
  <2>2. CASE z \in Acting
    BY <2>2, Idles
  <2> QED
    BY <1>2, <2>1, <2>2
<1>13. StepKeeps(t)
  <2>1. \A r \in Schedules : /\ mem.execs[r] <= mem'.execs[r]
                             /\ mem'.execs[r] <= mem'.jobs[r].runs
                             /\ mem.jobs[r].runs <= mem'.jobs[r].runs
                             /\ mem'.jobs[r].runs \in Nat
    BY <1>4, <1>6, Numbers DEF Inv, RowsInv
  <2>2. \A r \in Schedules : db'.jobs[r].runs <= mem'.jobs[r].runs
    BY <1>1, <2>1, Numbers DEF Inv, RowsInv
  <2> QED
    BY <1>1, <1>3, <1>12, <2>1, <2>2, Numbers DEF Inv, RowsInv, StepKeeps
<1>14. RowsInv'
  BY <1>3, <1>13, RowsStep
<1> QED
  BY <1>10, <1>14 DEF Inv


LEMMA SaveTasksStep ==
  ASSUME Inv, TypeInv', NEW t \in Threads, SaveTasks(t)
  PROVE  Inv'
<1> DEFINE w == th[t]
           x == [pc |-> "jobs", held |-> w.held, next |-> w.next]
<1>1. /\ w \in Syncing /\ w.pc = "tasks" /\ mem' = mem /\ db' \in States
      /\ db'.effects = InsertRows(db.effects, w.held.effects)
      /\ db'.jobs = db.jobs /\ db'.execs = db.execs /\ db'.done = db.done
      /\ th'[t] = x /\ \A u \in Threads \ {t} : th'[u] = th[u]
  BY SaveTasksFacts, GoesTo DEF Inv
<1>2. /\ w.held.effects \in Counts /\ db.effects \in Counts
  BY <1>1 DEF Inv, TypeInv, Syncing, States
<1>3. \A s \in Schedules :
        /\ db.effects[s] <= db'.effects[s] /\ w.held.effects[s] <= db'.effects[s]
        /\ db'.effects[s] \in Nat
  BY <1>1, <1>2, InsertShape DEF Counts
<1>4. \A s \in Schedules : w.held.execs[s] <= mem.execs[s] /\ w.held.done[s] <= w.held.effects[s]
  BY <1>1 DEF Inv, RowsInv, Carries, Syncs
<1>5. Carries(x, mem', db')
  BY <1>1, <1>3, <1>4 DEF Carries
<1>6. \A s \in Schedules : Owes(x, s) => Owes(w, s)
  BY <1>1 DEF Owes, Syncs
<1> HIDE DEF x, w
<1>7. \A s \in Schedules : db'.done[s] <= db'.effects[s]
  BY <1>1, <1>3, Numbers DEF Inv, RowsInv, Agrees
<1>8. StepKeeps(t)
  BY <1>1, <1>3, <1>5, <1>7, Numbers DEF Inv, RowsInv, Agrees, StepKeeps
<1>9. RowsInv'
  BY <1>1, <1>8, RowsStep
<1>10. OwedInv'
  BY <1>1, <1>6, SameOwed DEF w
<1> QED
  BY <1>9, <1>10 DEF Inv

LEMMA SaveJobsStep ==
  ASSUME Inv, TypeInv', NEW t \in Threads, SaveJobs(t)
  PROVE  Inv'
<1> DEFINE w == th[t]
           x == [pc |-> "execs", held |-> w.held, next |-> w.next]
<1>1. /\ w \in Syncing /\ w.pc = "jobs" /\ mem' = mem /\ db' \in States
      /\ db'.jobs = mem.jobs
      /\ db'.effects = db.effects /\ db'.execs = db.execs /\ db'.done = db.done
      /\ th'[t] = x /\ \A u \in Threads \ {t} : th'[u] = th[u]
  BY SaveJobsFacts, GoesTo DEF Inv
<1>2. \A s \in Schedules : /\ w.held.execs[s] <= mem.execs[s]
                           /\ w.held.done[s] <= w.held.effects[s]
                           /\ w.held.effects[s] <= db.effects[s]
                           /\ w.held.execs[s] \in Nat
  BY <1>1 DEF Inv, RowsInv, Carries, Syncs, Syncing, States, Counts
<1>3. \A s \in Schedules : w.held.execs[s] <= db'.jobs[s].runs
  BY <1>1, <1>2, Numbers DEF Inv, RowsInv
<1>4. Carries(x, mem', db')
  BY <1>1, <1>2, <1>3 DEF Carries
<1>5. \A s \in Schedules : Owes(x, s) => Owes(w, s)
  BY <1>1 DEF Owes, Syncs
<1> HIDE DEF x, w
<1>6. \A s \in Schedules : /\ db'.execs[s] <= db'.jobs[s].runs
                           /\ db.jobs[s].runs <= db'.jobs[s].runs
                           /\ db'.jobs[s].runs \in Nat
  BY <1>1, Numbers DEF Inv, RowsInv, Agrees
<1>7. StepKeeps(t)
  BY <1>1, <1>4, <1>6, Numbers DEF Inv, RowsInv, Agrees, StepKeeps
<1>8. RowsInv'
  BY <1>1, <1>7, RowsStep
<1>9. OwedInv'
  BY <1>1, <1>5, SameOwed DEF w
<1> QED
  BY <1>8, <1>9 DEF Inv

LEMMA SaveExecutionsStep ==
  ASSUME Inv, TypeInv', NEW t \in Threads, SaveExecutions(t)
  PROVE  Inv'
<1> DEFINE w == th[t]
<1>1. /\ w \in Syncing /\ w.pc = "execs" /\ mem' = mem /\ db' \in States
      /\ db'.execs = InsertRows(db.execs, w.held.execs)
      /\ db'.done = InsertRows(db.done, w.held.done)
      /\ db'.jobs = db.jobs /\ db'.effects = db.effects
      /\ th'[t] = w.next /\ \A u \in Threads \ {t} : th'[u] = th[u]
  BY SaveExecutionsFacts, GoesTo DEF Inv
<1>2. /\ w.held.execs \in Counts /\ w.held.done \in Counts
      /\ db.execs \in Counts /\ db.done \in Counts
      /\ w.held.effects \in Counts /\ w.next \in {Idle} \cup Advancing
  BY <1>1 DEF Inv, TypeInv, Syncing, States
<1>3. \A s \in Schedules : /\ w.held.execs[s] <= db.jobs[s].runs
                           /\ w.held.done[s] <= db.effects[s]
  <2>1. \A s \in Schedules : /\ w.held.execs[s] <= db.jobs[s].runs
                             /\ w.held.done[s] <= w.held.effects[s]
                             /\ w.held.effects[s] <= db.effects[s]
    BY <1>1 DEF Inv, RowsInv, Carries, Syncs
  <2> QED
    BY <1>2, <2>1, Numbers DEF Inv, Counts
<1>4. \A s \in Schedules : /\ db'.execs[s] \in {db.execs[s], w.held.execs[s]}
                           /\ db'.done[s] \in {db.done[s], w.held.done[s]}
  BY <1>1, <1>2, InsertShape
<1>5. Agrees(db')
  BY <1>1, <1>3, <1>4 DEF Inv, RowsInv, Agrees
<1>6. Carries(w.next, mem', db')
  BY <1>2, Idles
<1>7. \A s \in Schedules : Owes(w.next, s) => Owes(w, s)
  BY <1>1, <1>2, OwesNothing DEF Owes, Advancing, Syncs
<1> HIDE DEF w
<1>8. StepKeeps(t)
  BY <1>1, <1>5, <1>6, Numbers DEF Inv, RowsInv, StepKeeps
<1>9. RowsInv'
  BY <1>1, <1>8, RowsStep
<1>10. OwedInv'
  BY <1>1, <1>7, SameOwed DEF w
<1> QED
  BY <1>9, <1>10 DEF Inv

LEMMA SyncFailsStep ==
  ASSUME Inv, TypeInv', NEW t \in Threads, SyncFails(t)
  PROVE  Inv'
<1>1. PICK x \in {Idle} \cup Advancing : Goes(t, x) /\ (x = Idle \/ ~x.ok)
  BY SyncFailsFacts DEF Inv
<1>2. th'[t] = x /\ (\A u \in Threads \ {t} : th'[u] = th[u]) /\ mem' = mem /\ db' = db
  BY <1>1, GoesTo, SyncFailsFacts DEF Inv
<1>3. RowsInv'
  BY <1>2, Idles, SameRecords
<1>4. \A s : ~Owes(x, s)
  BY <1>1, OwesNothing DEF Owes, Advancing, Syncs
<1>5. OwedInv'
  BY <1>2, <1>4, SameOwed
<1> QED
  BY <1>3, <1>5 DEF Inv

\* The next process knows what is stored and owes nothing.
LEMMA RestartStep ==
  ASSUME Inv, TypeInv', Restart
  PROVE  Inv'
<1>1. mem' = db /\ db' = db /\ \A t \in Threads : th'[t] = Idle
  BY DEF Restart
<1>2. RowsInv'
  BY <1>1, Idles, Numbers DEF Inv, RowsInv, Agrees
<1>3. ASSUME NEW s \in Schedules
      PROVE  mem'.done[s] + Cardinality(Owing(th', s)) <= mem'.effects[s]
  <2>1. Owing(th', s) = {}
    BY <1>1, OwesNothing DEF Owing
  <2>2. Cardinality(Owing(th', s)) = 0
    BY <2>1, FS_EmptySet
  <2> QED
    BY <1>1, <2>2, Numbers DEF Inv, RowsInv, Agrees
<1>4. OwedInv'
  BY <1>3 DEF OwedInv
<1> QED
  BY <1>2, <1>4 DEF Inv

LEMMA InvInit == Init => Inv
<1> SUFFICES ASSUME Init PROVE Inv
  OBVIOUS
<1>1. /\ \A s \in Schedules : /\ mem.effects[s] = 0 /\ mem.execs[s] = 0 /\ mem.done[s] = 0
                              /\ mem.jobs[s].runs = 0
      /\ db = mem /\ \A t \in Threads : th[t] = Idle
  BY InitShape
<1>2. RowsInv
  BY <1>1, Idles DEF RowsInv, Agrees
<1>3. \A s \in Schedules : Owing(th, s) = {}
  BY <1>1, OwesNothing DEF Owing
<1>4. OwedInv
  BY <1>1, <1>3, FS_EmptySet DEF OwedInv
<1> QED
  BY <1>2, <1>4, TypeInit DEF Inv

LEMMA InvStep == Inv /\ [Next]_vars => Inv'
<1> SUFFICES ASSUME Inv, [Next]_vars PROVE Inv'
  OBVIOUS
<1>1. TypeInv'
  BY TypeStep DEF Inv
<1>2. CASE UNCHANGED <<mem, db, th, faults>>
  BY <1>1, <1>2 DEF Inv, RowsInv, OwedInv
<1> QED
  BY <1>1, <1>2, NextCases, RestartStep, TickBeginsStep, TickActsStep, TickAdvancesStep,
     ControlStep, SaveTasksStep, SaveJobsStep, SaveExecutionsStep, SyncFailsStep

LEMMA InvAlways == Spec => []Inv
<1> QED
  BY InvInit, InvStep, PTL DEF Spec

\* A restart never knows an execution that its schedule has not counted: an
\* execution is listed by a sync before the job rows of that sync are written.
THEOREM HistoryIsCounted == Spec => []HistoryNeverAhead
<1>1. Inv => HistoryNeverAhead
  BY DEF Inv, RowsInv, Agrees, HistoryNeverAhead
<1> QED
  BY <1>1, InvAlways, PTL

\* A success that is stored has its task or run stored with it, although ticks
\* of several threads work on one schedule and syncs fail half way.
THEOREM SuccessIsBacked == Spec => []DurableSuccessHasEffect
<1>1. Inv => DurableSuccessHasEffect
  BY OwedGivesDone DEF Inv, RowsInv, Agrees, DurableSuccessHasEffect
<1> QED
  BY <1>1, InvAlways, PTL

=============================================================================
