------------------------- MODULE ChatActions_proofs -------------------------
(***************************************************************************)
(* Proofs about ChatActions, for every set of threads and actions and any  *)
(* number of steps, tasks and restarts.                                    *)
(***************************************************************************)
EXTENDS ChatActions, SequenceTheorems, TLAPS

-----------------------------------------------------------------------------
(* The invariant                                                           *)

StepSeqs == {s \in Seq(StepType) : Len(s) <= MaxSteps}
TaskSeqs == {s \in Seq(TaskType) : Len(s) <= MaxTasks}
RunRecords == [status : {"running", "waiting_approval"} \cup Settled, steps : StepSeqs]

Stages == {"attach", "start", "call", "model", "fail"}
AtJobs == [pc : Stages, a : Actions, via : {"send", "execute", "decide"}]
WorkJobs == [pc : {"work"}, a : Actions, via : {"execute", "decide"}, task : Nat]
BackJobs == [pc : {"back"}, a : Actions, via : {"execute", "decide"}, task : Nat, out : Outcomes]
DecisionJobs == [pc : {"resume", "note"}, a : Actions, via : {"decide"}, task : Nat,
                 v : {"approved", "rejected"}]
Jobs == {Idle} \cup AtJobs \cup WorkJobs \cup BackJobs \cup DecisionJobs
Listings == [pc : {"save_tasks"}, next : Jobs, tasks : [Actions -> Nat], chats : SUBSET Actions]
Savings == [pc : {"save_chat"}, next : Jobs, chats : SUBSET Actions]

Cards == [Actions -> {None} \cup ActType]
Runs == [Actions -> {None} \cup RunRecords]
Tasks == [Actions -> TaskSeqs]

TypeInv ==
  /\ kind \in [Actions -> {None} \cup Kinds]
  /\ live \in [Actions -> {None, "message"} \cup Status]
  /\ cached \subseteq Actions
  /\ act \in Cards
  /\ run \in Runs
  /\ kept \subseteq Actions
  /\ tasks \in Tasks
  /\ db \in [act : Cards, run : Runs, kept : SUBSET Actions, tasks : Tasks]
  /\ th \in [Threads -> Jobs \cup Listings \cup Savings]
  /\ lock \in Threads \cup {None}
  /\ begun \in [Actions -> Nat]
  /\ deleted \subseteq Actions
  /\ restarts \in Nat

\* What a thread goes on with, once a sync it is in has ended.
Job(t) == IF th[t].pc \in {"save_tasks", "save_chat"} THEN th[t].next ELSE th[t]

Working == {"start", "call", "work", "back", "model", "fail"}

\* Task k of an action waits for its decision or has been resolved.
Answerable(seq, k) ==
  /\ k \in DOMAIN seq
  /\ seq[k].approval # "none"
  /\ seq[k].status \in {"needs_approval"} \cup TaskFinal
BothAnswerable(a, k) == Answerable(tasks[a], k) /\ Answerable(db.tasks[a], k)

\* The status of a card, the status of its run and the steps of the run agree.
Agree(c, r) ==
  r # None =>
    LET waits == {i \in 1..Len(r.steps) : r.steps[i].status = "waiting_approval"} IN
    /\ c # None
    /\ r.status = "waiting_approval" <=> c.status = "waiting_approval"
    /\ r.status = "waiting_approval" <=> waits # {}
    /\ waits \subseteq {Len(r.steps)}
    /\ r.status \in Settled => c.status = r.status

\* An agent card waits for the task of the last step of its run.
NamesStep(k, c, r) ==
  k = "agent" /\ c # None /\ c.status = "waiting_approval" =>
    r # None /\ Len(r.steps) # 0 /\ r.steps[Len(r.steps)].task = c.task

\* A card that has not come to its work names no task.
Taskless(c) == c # None /\ c.status \in {"pending", "executing"} => c.task = 0

\* Stored status s may be followed by s.
Follows(s) ==
  CASE s = "pending" -> {"executing", "waiting_approval"} \cup Settled
    [] s = "executing" -> {"pending", "waiting_approval"} \cup Settled
    [] s = "waiting_approval" -> {"executing"} \cup Settled
    [] OTHER -> {}

Open(c) == c = None \/ c.status \in {"pending", "executing"}

CardOK(a) ==
  /\ kind[a] = None => live[a] = None /\ act[a] = None /\ run[a] = None /\ a \notin cached
                       /\ db.act[a] = None /\ db.run[a] = None /\ begun[a] = 0
  /\ run[a] # None => kind[a] = "agent" /\ act[a] # None
  /\ db.run[a] # None => kind[a] = "agent" /\ db.act[a] # None
  /\ live[a] = "message" => act[a] # None /\ act[a].status # "pending"
  /\ begun[a] <= restarts + 1
  /\ live[a] = "pending" => begun[a] <= restarts
  /\ Len(db.tasks[a]) <= Len(tasks[a])
  /\ act[a] # None /\ act[a].status = "waiting_approval" => BothAnswerable(a, act[a].task)
  /\ db.act[a] # None /\ db.act[a].status = "waiting_approval" =>
       BothAnswerable(a, db.act[a].task)

\* As long as its session has not been deleted, the records of an action agree,
\* in memory and in the rows, and memory is ahead of the rows.
KeptOK(a) ==
  a \notin deleted =>
    /\ a \in kept /\ a \in db.kept
    /\ Agree(act[a], run[a]) /\ Agree(db.act[a], db.run[a])
    /\ NamesStep(kind[a], act[a], run[a]) /\ NamesStep(kind[a], db.act[a], db.run[a])
    /\ Taskless(act[a]) /\ Taskless(db.act[a])
    /\ a \in cached /\ run[a] # None => run[a].status \in Settled
    /\ live[a] = "pending" =>
         /\ act[a] = None \/ act[a].status = "pending"
         /\ run[a] = None \/ run[a].status = "running"
    /\ db.act[a] # None =>
         /\ act[a] # None
         /\ act[a].status \in {db.act[a].status} \cup Follows(db.act[a].status)

\* A message that will get its copy of the action.
AttachOK(a) ==
  /\ kind[a] # None /\ act[a] = None /\ live[a] # None
  /\ a \in cached => live[a] \notin {"pending", "executing"}
  /\ live[a] = "waiting_approval" =>
       kind[a] # "agent" /\ a \in cached /\ BothAnswerable(a, Len(tasks[a]))

\* The job w of a thread that works on an action ...
WorkerOK(w) ==
  /\ kind[w.a] # None /\ w.via \in {"execute", "decide"}
  /\ kind[w.a] # "agent" => w.via = "execute" /\ w.pc \in {"call", "work", "back"}
  /\ w.pc = "start" => w.via = "execute"
  /\ kind[w.a] = "agent" /\ w.pc # "start" => run[w.a] # None
  /\ kind[w.a] = "agent" /\ w.pc \in {"call", "work", "back"} => Len(run[w.a].steps) # 0
  /\ w.pc = "work" =>
       /\ w.task \in DOMAIN tasks[w.a]
       /\ tasks[w.a][w.task] = [status |-> "executing", approval |-> "none"]
  /\ w.pc \in {"work", "back"} =>
       /\ w.task \in 0..Len(tasks[w.a])
       /\ kind[w.a] # "agent" /\ w.task # 0 => w.task = Len(tasks[w.a])
  /\ w.pc = "back" /\ w.out = "waiting_approval" => Answerable(tasks[w.a], w.task)

\* ... which one thread does at a time, unless an agent's session was deleted
\* and came back.
Single(a) == a \notin deleted \/ kind[a] # "agent"
SoleOK(w) ==
  Single(w.a) =>
    /\ w.a \notin cached
    /\ live[w.a] = IF w.via = "execute" THEN "executing" ELSE "message"
    /\ w.a \notin deleted =>
         /\ Open(act[w.a])
         /\ run[w.a] # None => run[w.a].status = "running"
         /\ kind[w.a] = "agent" /\ w.pc # "start" => act[w.a].status = "executing"

DecisionOK(w) ==
  /\ w.task \in DOMAIN tasks[w.a]
  /\ w.pc = "note" => tasks[w.a][w.task].status \in TaskFinal

JobOK(w) ==
  /\ w.pc = "attach" => AttachOK(w.a)
  /\ w.pc \in Working => WorkerOK(w) /\ SoleOK(w)
  /\ w.pc \in {"resume", "note"} => DecisionOK(w)

\* A sync lists tasks that exist.  A thread that is back from work that waits for
\* an approval has stored its task, or is about to.
SyncOK(t, w) ==
  /\ th[t].pc = "save_tasks" => \A b \in Actions : th[t].tasks[b] <= Len(tasks[b])
  /\ w.pc = "back" /\ w.out = "waiting_approval" =>
       IF th[t].pc = "save_tasks" THEN w.task <= th[t].tasks[w.a]
       ELSE Answerable(db.tasks[w.a], w.task)

\* The jobs of two threads.
Distinct(w, v) ==
  w.a = v.a =>
    /\ w.pc \in Working /\ v.pc \in Working => ~Single(w.a)
    /\ ~(w.pc = "attach" /\ v.pc = "attach")
    /\ w.pc = "work" /\ v.pc = "work" => w.task # v.task

Inv ==
  /\ TypeInv
  /\ \A a \in Actions : CardOK(a) /\ KeptOK(a)
  /\ \A t \in Threads : \A w \in {Job(t)} : JobOK(w) /\ SyncOK(t, w)
  /\ \A t, u \in Threads : \A w \in {Job(t)}, v \in {Job(u)} :
       t # u /\ w # Idle /\ v # Idle => Distinct(w, v)

-----------------------------------------------------------------------------
(* Types                                                                   *)

LEMMA Bounds == MaxSteps \in Nat /\ MaxSteps # 0 /\ MaxTasks \in Nat /\ MaxRestarts \in Nat
BY BoundsAssumption

LEMMA SeqIsFunction ==
  ASSUME NEW S, NEW m \in Nat, NEW s \in Seq(S), Len(s) <= m
  PROVE  s \in UNION {[1..n -> S] : n \in 0..m}
<1>1. Len(s) \in 0..m /\ s \in [1..Len(s) -> S]
  OBVIOUS
<1> QED
  BY <1>1

LEMMA RunTyped == ASSUME NEW r \in RunRecords PROVE r \in RunType
<1>1. r.steps \in Seq(StepType) /\ Len(r.steps) <= MaxSteps
  BY DEF RunRecords, StepSeqs
<1>2. r.steps \in UNION {[1..n -> StepType] : n \in 0..MaxSteps}
  BY <1>1, Bounds, SeqIsFunction
<1>3. r = [status |-> r.status, steps |-> r.steps]
     /\ r.status \in {"running", "waiting_approval"} \cup Settled
  BY DEF RunRecords
<1> QED
  BY <1>2, <1>3 DEF RunType

LEMMA NoneIsNothing ==
  /\ None \notin Threads /\ None \notin Kinds /\ None \notin Status /\ None # "message"
  /\ None \notin ActType /\ None \notin RunRecords
<1>1. None \notin RunRecords
  BY NoneAssumption, RunTyped
<1> QED
  BY <1>1, NoneAssumption

LEMMA Typed ==
  ASSUME TypeInv, NEW a \in Actions
  PROVE  /\ kind[a] \in {None} \cup Kinds
         /\ live[a] \in {None, "message"} \cup Status
         /\ act[a] \in {None} \cup ActType /\ db.act[a] \in {None} \cup ActType
         /\ run[a] \in {None} \cup RunRecords /\ db.run[a] \in {None} \cup RunRecords
         /\ tasks[a] \in TaskSeqs /\ db.tasks[a] \in TaskSeqs
         /\ begun[a] \in Nat /\ restarts \in Nat /\ db.kept \subseteq Actions
BY DEF TypeInv, Cards, Runs, Tasks

LEMMA CardTyped ==
  ASSUME NEW c \in {None} \cup ActType, c # None
  PROVE  c.status \in Status /\ c.task \in 0..MaxTasks /\ c = [status |-> c.status, task |-> c.task]
BY DEF ActType

LEMMA StepsTyped ==
  ASSUME NEW r \in {None} \cup RunRecords, r # None
  PROVE  /\ r.status \in {"running", "waiting_approval"} \cup Settled
         /\ r.steps \in Seq(StepType) /\ Len(r.steps) \in Nat /\ Len(r.steps) <= MaxSteps
         /\ DOMAIN r.steps = 1..Len(r.steps)
         /\ \A i \in 1..Len(r.steps) : r.steps[i] \in StepType
         /\ r = [status |-> r.status, steps |-> r.steps]
<1>1. r \in RunRecords
  OBVIOUS
<1> QED
  BY <1>1 DEF RunRecords, StepSeqs

LEMMA TasksTyped ==
  ASSUME NEW s \in TaskSeqs
  PROVE  /\ s \in Seq(TaskType) /\ Len(s) \in Nat /\ Len(s) <= MaxTasks
         /\ DOMAIN s = 1..Len(s)
         /\ \A k \in 1..Len(s) : s[k] \in TaskType
BY DEF TaskSeqs

\* What a thread is doing.
LEMMA ThreadTyped ==
  ASSUME TypeInv, NEW t \in Threads
  PROVE  /\ Job(t) \in Jobs
         /\ th[t].pc \notin {"save_tasks", "save_chat"} => Job(t) = th[t] /\ th[t] \in Jobs
         /\ th[t].pc = "save_tasks" => th[t] \in Listings /\ Job(t) = th[t].next
         /\ th[t].pc = "save_chat" => th[t] \in Savings /\ Job(t) = th[t].next
<1>1. th[t] \in Jobs \cup Listings \cup Savings
  BY DEF TypeInv
<1>2. th[t] \in Jobs => th[t].pc \notin {"save_tasks", "save_chat"}
  BY DEF Jobs, AtJobs, WorkJobs, BackJobs, DecisionJobs, Idle, Stages
<1>3. th[t] \in Listings => th[t].pc = "save_tasks" /\ th[t].next \in Jobs
  BY DEF Listings
<1>4. th[t] \in Savings => th[t].pc = "save_chat" /\ th[t].next \in Jobs
  BY DEF Savings
<1> QED
  BY <1>1, <1>2, <1>3, <1>4 DEF Job

LEMMA JobTyped ==
  ASSUME NEW w \in Jobs
  PROVE  /\ w.pc = "idle" <=> w = Idle
         /\ w.pc \notin {"save_tasks", "save_chat"}
         /\ w # Idle => w.a \in Actions /\ w.via \in {"send", "execute", "decide"}
         /\ w.pc \in Stages => w \in AtJobs
         /\ w.pc = "work" => w \in WorkJobs /\ w.task \in Nat /\ w.via \in {"execute", "decide"}
         /\ w.pc = "back" => w \in BackJobs /\ w.task \in Nat /\ w.via \in {"execute", "decide"}
                             /\ w.out \in Outcomes
         /\ w.pc \in {"resume", "note"} => w \in DecisionJobs /\ w.task \in Nat /\ w.via = "decide"
                                           /\ w.v \in {"approved", "rejected"}
<1>1. CASE w = Idle
  BY <1>1 DEF Idle, Stages
<1>2. CASE w \in AtJobs
  BY <1>2 DEF AtJobs, Stages, Idle
<1>3. CASE w \in WorkJobs
  BY <1>3 DEF WorkJobs, Stages, Idle
<1>4. CASE w \in BackJobs
  BY <1>4 DEF BackJobs, Stages, Idle
<1>5. CASE w \in DecisionJobs
  BY <1>5 DEF DecisionJobs, Stages, Idle
<1> QED
  BY <1>1, <1>2, <1>3, <1>4, <1>5 DEF Jobs

-----------------------------------------------------------------------------
(* One thread moves                                                        *)

Moves(t, w) ==
  /\ th' \in [Threads -> Jobs \cup Listings \cup Savings]
  /\ \A u \in Threads \ {t} : th'[u] = th[u]
  /\ Job(t)' = w
  /\ th'[t].pc = "save_tasks" => \A b \in Actions : th'[t].tasks[b] = Len(tasks'[b])
  /\ w.pc = "back" => th'[t].pc = "save_tasks"

LEMMA SyncMoves ==
  ASSUME TypeInv, NEW t \in Threads, NEW w \in Jobs, tasks' \in Tasks, kept' \subseteq Actions,
         Goes(t, Sync(w))
  PROVE  Moves(t, w)
<1> DEFINE list == [a \in Actions |-> Len(tasks'[a])]
           rec == [pc |-> "save_tasks", next |-> w, tasks |-> list, chats |-> kept']
<1>1. \A a \in Actions : Len(tasks'[a]) \in Nat
  BY DEF Tasks, TaskSeqs
<1>2. list \in [Actions -> Nat]
  BY <1>1
<1>3. rec \in Listings
  BY <1>2 DEF Listings
<1>4. th \in [Threads -> Jobs \cup Listings \cup Savings] /\ th' = [th EXCEPT ![t] = rec]
  BY DEF TypeInv, Goes, Sync
<1>5. rec.pc = "save_tasks" /\ rec.next = w /\ rec.tasks = list
  OBVIOUS
<1>6. \A b \in Actions : list[b] = Len(tasks'[b])
  OBVIOUS
<1> HIDE DEF rec, list
<1>7. th'[t] = rec /\ \A u \in Threads \ {t} : th'[u] = th[u]
  BY <1>4
<1>8. th' \in [Threads -> Jobs \cup Listings \cup Savings]
  BY <1>3, <1>4
<1> QED
  BY <1>5, <1>6, <1>7, <1>8 DEF Moves, Job

LEMMA StepMoves ==
  ASSUME TypeInv, NEW t \in Threads, NEW w \in Jobs, w.pc # "back", Goes(t, w)
  PROVE  Moves(t, w)
<1>1. th \in [Threads -> Jobs \cup Listings \cup Savings] /\ th' = [th EXCEPT ![t] = w]
  BY DEF TypeInv, Goes
<1>2. th'[t] = w /\ \A u \in Threads \ {t} : th'[u] = th[u]
  BY <1>1
<1>3. th' \in [Threads -> Jobs \cup Listings \cup Savings]
  BY <1>1
<1>4. w.pc \notin {"save_tasks", "save_chat"}
  BY JobTyped
<1> QED
  BY <1>2, <1>3, <1>4 DEF Moves, Job

LEMMA IdleIs == Idle \in Jobs /\ Idle.pc = "idle"
BY DEF Idle, Jobs

LEMMA EndMoves ==
  ASSUME TypeInv, NEW t \in Threads, tasks' \in Tasks, kept' \subseteq Actions,
         Ends(t) \/ EndsWithSync(t)
  PROVE  Moves(t, Idle) /\ lock' \in Threads \cup {None}
<1>1. CASE Ends(t)
  BY <1>1, IdleIs, StepMoves DEF Ends, TypeInv
<1>2. CASE EndsWithSync(t)
  BY <1>2, IdleIs, SyncMoves DEF EndsWithSync, TypeInv
<1> QED
  BY <1>1, <1>2

\* A step of thread t on action a leaves the other actions and threads alone.
Near(t, a) ==
  /\ \A b \in Actions \ {a} :
       /\ kind'[b] = kind[b] /\ live'[b] = live[b] /\ act'[b] = act[b] /\ run'[b] = run[b]
       /\ tasks'[b] = tasks[b] /\ begun'[b] = begun[b]
       /\ b \in cached' <=> b \in cached
       /\ b \in kept' <=> b \in kept
       /\ b \in db'.kept <=> b \in db.kept
       /\ b \in deleted' <=> b \in deleted
  /\ a \in deleted => a \in deleted'
  /\ kind[a] # None => kind'[a] = kind[a]
  /\ Len(tasks[a]) <= Len(tasks'[a])
  /\ db'.act = db.act /\ db'.run = db.run /\ db'.tasks = db.tasks
  /\ \A u \in Threads \ {t} : th'[u] = th[u]
  /\ restarts' = restarts

LEMMA OtherCard ==
  ASSUME NEW t \in Threads, NEW a \in Actions, Near(t, a), NEW b \in Actions, b # a,
         CardOK(b), KeptOK(b)
  PROVE  CardOK(b)' /\ KeptOK(b)'
<1>1. CardOK(b)'
  BY DEF Near, CardOK, BothAnswerable, Answerable
<1>2. KeptOK(b)'
  BY DEF Near, KeptOK, Agree, NamesStep, Taskless, Follows
<1> QED
  BY <1>1, <1>2

LEMMA OtherJob ==
  ASSUME NEW t \in Threads, NEW a \in Actions, Near(t, a), NEW w \in Jobs, w # Idle, w.a # a,
         JobOK(w)
  PROVE  JobOK(w)'
<1>1. PICK b \in Actions : w.a = b /\ b # a
  BY JobTyped
<1>2. w.pc = "attach" => AttachOK(w.a)'
  BY <1>1 DEF Near, JobOK, AttachOK, BothAnswerable, Answerable
<1>3. w.pc \in Working => WorkerOK(w)'
  BY <1>1 DEF Near, JobOK, WorkerOK, Answerable
<1>4. w.pc \in Working => SoleOK(w)'
  BY <1>1 DEF Near, JobOK, SoleOK, Single, Open
<1>5. w.pc \in {"resume", "note"} => DecisionOK(w)'
  BY <1>1 DEF Near, JobOK, DecisionOK
<1> QED
  BY <1>2, <1>3, <1>4, <1>5 DEF JobOK

LEMMA NearInv ==
  ASSUME Inv, TypeInv', NEW t \in Threads, NEW a \in Actions, NEW w \in Jobs,
         Near(t, a), Moves(t, w), w # Idle => w.a = a,
         CardOK(a)', KeptOK(a)', JobOK(w)',
         w.pc = "back" /\ w.out = "waiting_approval" => w.task <= Len(tasks'[a]),
         \A u \in Threads \ {t} : \A v \in {Job(u)} :
           v # Idle /\ v.a = a => JobOK(v)' /\ (w # Idle => Distinct(w, v)')
  PROVE  Inv'
<1>1. TypeInv /\ Job(t)' = w /\ (\A u \in Threads \ {t} : Job(u)' = Job(u) /\ th'[u] = th[u])
  BY DEF Inv, Moves, Job
<1>2. \A b \in Actions : CardOK(b)' /\ KeptOK(b)'
  BY OtherCard DEF Inv
<1>3. ASSUME NEW u \in Threads, NEW v \in {Job(u)'}
      PROVE  JobOK(v)' /\ SyncOK(u, v)'
  <2>1. CASE u = t
    <3>1. v = w /\ JobOK(v)'
      BY <1>1, <1>3, <2>1
    <3>2. \A b \in Actions : th'[u].pc = "save_tasks" =>
            th'[u].tasks[b] <= Len(tasks'[b]) /\ th'[u].tasks[b] = Len(tasks'[b])
      <4>1. \A b \in Actions : Len(tasks'[b]) \in Nat
        BY DEF TypeInv, Tasks, TaskSeqs
      <4> QED
        BY <2>1, <4>1 DEF Moves
    <3>3. w.pc = "back" => th'[u].pc = "save_tasks" /\ w.a = a /\ w.task \in Nat
      BY <2>1, JobTyped, IdleIs DEF Moves
    <3>4. SyncOK(u, v)'
      BY <3>1, <3>2, <3>3 DEF SyncOK
    <3> QED
      BY <3>1, <3>4
  <2>2. CASE u # t
    <3>1. v = Job(u) /\ v \in Jobs /\ JobOK(v) /\ SyncOK(u, v) /\ th'[u] = th[u]
      BY <1>1, <1>3, <2>2, ThreadTyped DEF Inv
    <3>2. JobOK(v)'
      <4>1. CASE v = Idle
        BY <4>1, IdleIs DEF JobOK, Working
      <4>2. CASE v # Idle /\ v.a = a
        BY <2>2, <3>1, <4>2
      <4>3. CASE v # Idle /\ v.a # a
        BY <3>1, <4>3, OtherJob
      <4> QED
        BY <4>1, <4>2, <4>3
    <3>3. th[u].pc = "save_tasks" => \A b \in Actions : th[u].tasks[b] <= Len(tasks'[b])
      <4>1. th[u].pc = "save_tasks" => th[u] \in Listings
        BY <1>1, ThreadTyped
      <4>2. SUFFICES ASSUME th[u].pc = "save_tasks", NEW b \in Actions
                     PROVE  th[u].tasks[b] <= Len(tasks'[b])
        OBVIOUS
      <4>3. th[u].tasks[b] \in Nat /\ th[u].tasks[b] <= Len(tasks[b])
        BY <3>1, <4>1, <4>2 DEF Listings, SyncOK
      <4>4. Len(tasks[b]) <= Len(tasks'[b]) /\ Len(tasks[b]) \in Nat /\ Len(tasks'[b]) \in Nat
        <5>1. Len(tasks[b]) \in Nat /\ Len(tasks'[b]) \in Nat
          BY <1>1 DEF TypeInv, Tasks, TaskSeqs
        <5> QED
          BY <5>1 DEF Near
      <4> QED
        BY <4>3, <4>4
    <3>4. SyncOK(u, v)'
      <4>1. db'.tasks = db.tasks
        BY DEF Near
      <4> QED
        BY <3>1, <3>3, <4>1 DEF SyncOK, Answerable
    <3> QED
      BY <3>2, <3>4
  <2> QED
    BY <2>1, <2>2
<1>4. ASSUME NEW u \in Threads, NEW x \in Threads, NEW v \in {Job(u)'}, NEW y \in {Job(x)'},
             u # x, v # Idle, y # Idle
      PROVE  Distinct(v, y)'
  <2>1. v \in Jobs /\ y \in Jobs
    BY <1>1, <1>4, ThreadTyped
  <2>2. \A b \in Actions : Single(b)' => Single(b)
    BY NoneIsNothing DEF Near, Single, Kinds
  <2>3. CASE u # t /\ x # t
    <3>1. Distinct(v, y)
      BY <1>1, <1>4, <2>3 DEF Inv
    <3> QED
      BY <1>4, <2>1, <2>2, <3>1, JobTyped DEF Distinct
  <2>4. CASE u = t
    <3>1. v = w /\ y = Job(x) /\ x # t
      BY <1>1, <1>4, <2>4
    <3> QED
      BY <1>4, <3>1 DEF Distinct
  <2>5. CASE x = t
    <3>1. y = w /\ v = Job(u) /\ u # t
      BY <1>1, <1>4, <2>5
    <3>2. v.a = a => Distinct(y, v)'
      BY <1>4, <3>1
    <3>3. y.a = a
      BY <1>4, <3>1
    <3> QED
      BY <3>2, <3>3 DEF Distinct
  <2> QED
    BY <2>3, <2>4, <2>5
<1> QED
  BY <1>2, <1>3, <1>4 DEF Inv

-----------------------------------------------------------------------------
(* Steps that change the records of one action                             *)

CardStep(t, a, w) ==
  /\ UNCHANGED <<kind, kept, tasks, db, deleted, restarts>>
  /\ Moves(t, w)
  /\ live' \in [Actions -> {None, "message"} \cup Status] /\ cached' \subseteq Actions
  /\ act' \in Cards /\ run' \in Runs /\ begun' \in [Actions -> Nat]
  /\ lock' \in Threads \cup {None}
  /\ \A b \in Actions \ {a} :
       /\ live'[b] = live[b] /\ act'[b] = act[b] /\ run'[b] = run[b] /\ begun'[b] = begun[b]
       /\ b \in cached' <=> b \in cached

\* Where a thread goes on to after such a step.
Leads(a, w) == w = Idle \/ (w \in AtJobs /\ w.a = a /\ w.pc # "attach")

LEMMA CardStepInv ==
  ASSUME Inv, NEW t \in Threads, NEW a \in Actions, NEW w \in Jobs, CardStep(t, a, w), Leads(a, w),
         CardOK(a)', KeptOK(a)', JobOK(w)', AttachOK(a) => AttachOK(a)',
         \A u \in Threads \ {t} : \A v \in {Job(u)} :
           v.pc \in Working /\ v.a = a => /\ WorkerOK(v)' /\ SoleOK(v)'
                                          /\ w # Idle => ~Single(a)
  PROVE  Inv'
<1>1. TypeInv
  BY DEF Inv
<1>2. TypeInv'
  BY <1>1 DEF TypeInv, CardStep, Moves
<1>3. Near(t, a)
  <2>1. Len(tasks[a]) \in Nat
    BY <1>1, Typed, TasksTyped
  <2> QED
    BY <2>1 DEF Near, CardStep, Moves
<1>4. Moves(t, w) /\ (w # Idle => w.a = a) /\ w.pc # "back"
  BY IdleIs DEF CardStep, Leads, AtJobs, Stages
<1>5. ASSUME NEW u \in Threads \ {t}, NEW v \in {Job(u)}, v # Idle, v.a = a
      PROVE  JobOK(v)' /\ (w # Idle => Distinct(w, v)')
  <2>1. v \in Jobs /\ JobOK(v)
    BY <1>1, <1>5, ThreadTyped DEF Inv
  <2>2. v.pc = "attach" => AttachOK(v.a)'
    BY <1>5, <2>1 DEF JobOK
  <2>3. v.pc \in Working => WorkerOK(v)' /\ SoleOK(v)' /\ (w # Idle => ~Single(a))
    BY <1>5
  <2>4. v.pc \in {"resume", "note"} => DecisionOK(v)'
    BY <2>1 DEF JobOK, DecisionOK, CardStep
  <2>5. w # Idle => Distinct(w, v)'
    <3>1. w # Idle => w.pc \notin {"attach", "work"} /\ w.a = a
      BY DEF Leads, AtJobs, Stages
    <3>2. Single(a)' => Single(a)
      BY DEF CardStep, Single
    <3> QED
      BY <2>3, <3>1, <3>2 DEF Distinct
  <2> QED
    BY <2>2, <2>3, <2>4, <2>5 DEF JobOK
<1> QED
  BY <1>2, <1>3, <1>4, <1>5, NearInv

\* The run of an action keeps its steps.
RunGrows(a) == run[a] # None => run'[a] # None /\ (Len(run[a].steps) # 0 => Len(run'[a].steps) # 0)

\* Thread t works on a: only if the session was deleted do others, too.
LEMMA WorkerStepInv ==
  ASSUME Inv, NEW t \in Threads, NEW a \in Actions, NEW w \in Jobs, CardStep(t, a, w), Leads(a, w),
         NEW x \in {Job(t)}, x.pc \in Working, x.a = a, RunGrows(a),
         CardOK(a)', KeptOK(a)', JobOK(w)', AttachOK(a) => AttachOK(a)'
  PROVE  Inv'
<1>1. TypeInv
  BY DEF Inv
<1>2. ASSUME NEW u \in Threads \ {t}, NEW v \in {Job(u)}, v.pc \in Working, v.a = a
      PROVE  WorkerOK(v)' /\ SoleOK(v)' /\ ~Single(a)
  <2>1. v # Idle /\ x # Idle
    BY <1>2, IdleIs DEF Working
  <2>2. Distinct(x, v)
    BY <1>2, <2>1 DEF Inv
  <2>3. ~Single(a)
    BY <1>2, <2>2 DEF Distinct
  <2>4. kind[a] = "agent" /\ kind' = kind /\ tasks' = tasks /\ deleted' = deleted
    BY <2>3 DEF Single, CardStep
  <2>5. WorkerOK(v) /\ SoleOK(v)
    BY <1>2 DEF Inv, JobOK
  <2>6. WorkerOK(v)'
    BY <1>2, <2>4, <2>5 DEF WorkerOK, Answerable, RunGrows
  <2>7. SoleOK(v)'
    BY <1>2, <2>3, <2>4 DEF SoleOK, Single
  <2> QED
    BY <2>3, <2>6, <2>7
<1> QED
  BY <1>2, CardStepInv

\* What the invariant says of a thread's job.
LEMMA JobFacts ==
  ASSUME Inv, NEW t \in Threads, NEW x \in {Job(t)}
  PROVE  /\ x \in Jobs /\ JobOK(x) /\ SyncOK(t, x)
         /\ x.pc \in Working => WorkerOK(x) /\ SoleOK(x) /\ x.a \in Actions
         /\ x.pc = "attach" => AttachOK(x.a) /\ x.a \in Actions
         /\ x.pc \in {"resume", "note"} => DecisionOK(x) /\ x.a \in Actions
<1>1. x \in Jobs /\ JobOK(x) /\ SyncOK(t, x)
  BY ThreadTyped DEF Inv
<1>2. x # Idle => x.a \in Actions
  BY <1>1, JobTyped
<1>3. x.pc \in Working \cup {"attach", "resume", "note"} => x # Idle
  BY IdleIs DEF Working
<1> QED
  BY <1>1, <1>2, <1>3 DEF JobOK

-----------------------------------------------------------------------------
(* Threads that work on an action                                          *)

\* What is known of the action that thread t works on.
LEMMA WorkerFacts ==
  ASSUME Inv, NEW t \in Threads, th[t].pc \in Working
  PROVE  /\ TypeInv /\ Job(t) = th[t] /\ th[t] \in Jobs /\ th[t].a \in Actions
         /\ WorkerOK(th[t]) /\ SoleOK(th[t]) /\ SyncOK(t, th[t])
         /\ CardOK(th[t].a) /\ KeptOK(th[t].a)
         /\ th[t].via \in {"execute", "decide"} /\ kind[th[t].a] # None
<1>1. TypeInv
  BY DEF Inv
<1>2. th[t].pc \notin {"save_tasks", "save_chat"}
  BY DEF Working
<1>3. Job(t) = th[t] /\ th[t] \in Jobs
  BY <1>1, <1>2, ThreadTyped
<1>4. WorkerOK(th[t]) /\ SoleOK(th[t]) /\ SyncOK(t, th[t]) /\ th[t].a \in Actions
  BY <1>3, JobFacts
<1>5. CardOK(th[t].a) /\ KeptOK(th[t].a)
  BY <1>4 DEF Inv
<1> QED
  BY <1>1, <1>3, <1>4, <1>5 DEF WorkerOK

LEMMA RaisesInv ==
  ASSUME Inv, NEW t \in Threads, th[t].pc \in Working, Raises(t, th[t].a),
         UNCHANGED <<kind, act, run, kept, tasks, deleted>>
  PROVE  Inv'
<1>1. PICK a \in Actions : a = th[t].a
  BY WorkerFacts
<1>2. TypeInv /\ CardOK(a) /\ KeptOK(a) /\ Job(t) = th[t] /\ kind[a] # None
  BY <1>1, WorkerFacts
<1>3. /\ live'[a] \in {live[a], "failed"}
      /\ \A b \in Actions \ {a} : live'[b] = live[b]
      /\ live' \in [Actions -> {None, "message"} \cup Status]
  BY <1>1, <1>2 DEF Raises, TypeInv, Status, Settled
<1>4. Moves(t, Idle) /\ lock' \in Threads \cup {None}
  BY <1>2, EndMoves DEF Raises, TypeInv
<1>5. CardStep(t, a, Idle)
  BY <1>2, <1>3, <1>4 DEF CardStep, Raises, TypeInv
<1>6. CardOK(a)'
  BY <1>2, <1>3, NoneIsNothing DEF CardOK, Raises, BothAnswerable, Answerable
<1>7. KeptOK(a)'
  BY <1>2, <1>3 DEF KeptOK, Raises, Agree, NamesStep, Taskless, Follows
<1>8. AttachOK(a) => AttachOK(a)'
  BY <1>3, NoneIsNothing DEF AttachOK, Raises, BothAnswerable, Answerable, Status, Settled
<1>9. RunGrows(a) /\ JobOK(Idle)' /\ Leads(a, Idle)
  BY IdleIs DEF RunGrows, JobOK, Working, Leads
<1> QED
  BY <1>1, <1>2, <1>5, <1>6, <1>7, <1>8, <1>9, IdleIs, WorkerStepInv

LEMMA CallRaisesInv ==
  ASSUME Inv, NEW t \in Threads, CallRaises(t), UNCHANGED <<kind, deleted>>
  PROVE  Inv'
BY RaisesInv DEF CallRaises, Working

LEMMA ModelRaisesInv ==
  ASSUME Inv, NEW t \in Threads, ModelRaises(t), UNCHANGED <<kind, deleted>>
  PROVE  Inv'
BY RaisesInv DEF ModelRaises, Working

LEMMA RecordInv ==
  ASSUME Inv, NEW t \in Threads, Record(t), UNCHANGED <<kind, deleted>>
  PROVE  Inv'
<1>1. PICK a \in Actions, out \in Outcomes, k \in 0..MaxTasks :
        a = th[t].a /\ out = th[t].out /\ k = th[t].task
  <2>1. th[t].pc = "back" /\ th[t].pc \in Working
    BY DEF Record, Working
  <2>2. th[t].a \in Actions /\ th[t] \in Jobs /\ TypeInv
    BY <2>1, WorkerFacts
  <2>3. th[t].out \in Outcomes /\ th[t].task \in 0..Len(tasks[th[t].a])
    BY <2>1, <2>2, WorkerFacts, JobTyped DEF WorkerOK
  <2>4. Len(tasks[th[t].a]) \in Nat /\ Len(tasks[th[t].a]) <= MaxTasks
    BY <2>2, Typed, TasksTyped
  <2>5. th[t].task \in 0..MaxTasks
    BY <2>3, <2>4, Bounds
  <2> QED
    BY <2>2, <2>3, <2>5
<1>2. /\ TypeInv /\ CardOK(a) /\ KeptOK(a) /\ Job(t) = th[t] /\ kind[a] # None /\ kind[a] # "agent"
      /\ th[t].pc \in Working /\ th[t].pc = "back"
  BY <1>1, WorkerFacts DEF Record, Working
<1>3. /\ a \notin cached /\ live[a] = "executing" /\ th[t].via = "execute"
      /\ a \notin deleted => Open(act[a])
      /\ out = "waiting_approval" => BothAnswerable(a, k)
      /\ k # 0 => k = Len(tasks[a])
  <2>1. WorkerOK(th[t]) /\ SoleOK(th[t]) /\ SyncOK(t, th[t])
    BY <1>2, WorkerFacts
  <2>2. th[t].via = "execute" /\ (k # 0 => k = Len(tasks[a]))
    BY <1>1, <1>2, <2>1 DEF WorkerOK
  <2>3. Single(a)
    BY <1>2 DEF Single
  <2>4. a \notin cached /\ live[a] = "executing" /\ (a \notin deleted => Open(act[a]))
    BY <1>1, <2>1, <2>2, <2>3 DEF SoleOK
  <2>5. out = "waiting_approval" => BothAnswerable(a, k)
    BY <1>1, <1>2, <2>1 DEF WorkerOK, SyncOK, BothAnswerable
  <2> QED
    BY <2>2, <2>4, <2>5
<1> DEFINE card == [status |-> out, task |-> k]
<1>4. card \in ActType /\ card.status = out /\ card.task = k /\ card # None
  <2>1. card \in ActType
    BY <1>1 DEF ActType, Outcomes, Status, Settled
  <2> QED
    BY <2>1, NoneIsNothing
<1> HIDE DEF card
<1>5. /\ act' \in Cards
      /\ act'[a] = IF Carded(a) THEN card ELSE act[a]
      /\ \A b \in Actions \ {a} : act'[b] = act[b]
  <2>1. act' = IF Carded(a) THEN [act EXCEPT ![a] = card] ELSE act
    BY <1>1 DEF Record, card
  <2> QED
    BY <1>2, <1>4, <2>1 DEF TypeInv, Cards
<1>6. /\ live'[a] = out /\ cached' = cached \cup {a}
      /\ \A b \in Actions \ {a} : live'[b] = live[b]
      /\ live' \in [Actions -> {None, "message"} \cup Status]
  BY <1>1, <1>2 DEF Record, TypeInv, Status, Settled, Outcomes
<1>7. Moves(t, Idle) /\ lock' \in Threads \cup {None}
  BY <1>2, EndMoves DEF Record, TypeInv
<1>8. CardStep(t, a, Idle)
  BY <1>2, <1>5, <1>6, <1>7 DEF CardStep, Record, TypeInv
<1>9. run[a] = None /\ db.run[a] = None
  BY <1>2 DEF CardOK
<1>10. UNCHANGED <<kind, run, kept, tasks, db, begun, deleted, restarts>>
  BY DEF Record
<1>11. out \in {"completed", "failed", "waiting_approval"}
  BY DEF Outcomes
<1>12. CardOK(a)'
  BY <1>2, <1>3, <1>4, <1>5, <1>6, <1>9, <1>10, <1>11, NoneIsNothing
     DEF CardOK, BothAnswerable, Answerable, Carded
<1>13. KeptOK(a)'
  <2>1. SUFFICES ASSUME a \notin deleted PROVE KeptOK(a)'
    BY <1>10 DEF KeptOK
  <2>2. Open(act[a]) /\ Carded(a) <=> act[a] # None
    BY <1>2, <1>3, <2>1 DEF KeptOK, Carded
  <2> QED
    BY <1>2, <1>3, <1>4, <1>5, <1>6, <1>9, <1>10, <1>11, <2>2, NoneIsNothing
       DEF KeptOK, Agree, NamesStep, Taskless, Follows, Open, Settled
<1>14. AttachOK(a) => AttachOK(a)'
  <2>1. BothAnswerable(a, k) => k = Len(tasks[a])
    BY <1>2, <1>3, Typed, TasksTyped DEF BothAnswerable, Answerable
  <2> QED
    BY <1>2, <1>3, <1>5, <1>6, <1>10, <1>11, <2>1, NoneIsNothing
       DEF AttachOK, BothAnswerable, Answerable, Carded, Status, Settled
<1>15. RunGrows(a) /\ JobOK(Idle)' /\ Leads(a, Idle)
  BY <1>10, IdleIs DEF RunGrows, JobOK, Working, Leads
<1> QED
  BY <1>1, <1>2, <1>8, <1>12, <1>13, <1>14, <1>15, IdleIs, WorkerStepInv

\* Waiting steps, and what an agreeing run without them says.
LEMMA NoWaits ==
  ASSUME NEW c, NEW r \in {None} \cup RunRecords, Agree(c, r), r # None, r.status # "waiting_approval"
  PROVE  /\ \A i \in 1..Len(r.steps) : r.steps[i].status # "waiting_approval"
         /\ c # None /\ c.status # "waiting_approval"
BY DEF Agree

LEMMA AgreeRunning ==
  ASSUME NEW c, NEW r \in {None} \cup RunRecords, r # None, c # None,
         c.status # "waiting_approval", r.status # "waiting_approval",
         r.status \in Settled => c.status = r.status,
         \A i \in 1..Len(r.steps) : r.steps[i].status # "waiting_approval"
  PROVE  Agree(c, r)
BY DEF Agree

LEMMA StartAgentRunInv ==
  ASSUME Inv, NEW t \in Threads, StartAgentRun(t), UNCHANGED <<kind, deleted>>
  PROVE  Inv'
<1>1. PICK a \in Actions : a = th[t].a
  BY WorkerFacts DEF StartAgentRun, Working
<1>2. /\ TypeInv /\ CardOK(a) /\ KeptOK(a) /\ Job(t) = th[t] /\ kind[a] # None
      /\ th[t].pc \in Working /\ th[t].pc = "start"
  BY <1>1, WorkerFacts DEF StartAgentRun, Working
<1>3. kind[a] = "agent" /\ th[t].via = "execute"
  BY <1>1, <1>2, WorkerFacts DEF WorkerOK
<1>4. a \notin deleted => /\ a \notin cached /\ live[a] = "executing" /\ Open(act[a])
                          /\ run[a] # None => run[a].status = "running"
  BY <1>1, <1>2, <1>3, WorkerFacts DEF SoleOK, Single
<1>5. CASE Raises(t, a) /\ UNCHANGED <<act, run, kept, tasks>>
  BY <1>1, <1>2, <1>5, RaisesInv
<1>6. CASE /\ Carded(a) /\ (run[a] = None \/ run[a].status \in {"running", "failed"})
           /\ run' = [run EXCEPT ![a] = IF @ = None THEN [status |-> "running", steps |-> << >>]
                                        ELSE [@ EXCEPT !.status = "running"]]
           /\ act' = [act EXCEPT ![a].status = "executing"]
           /\ UNCHANGED <<live, cached, kept, tasks, db, lock, begun, restarts>>
           /\ Goes(t, Sync(At("model", a, "execute")))
  <2> DEFINE old == IF run[a] = None THEN << >> ELSE run[a].steps
             new == [status |-> "running", steps |-> old]
             card == [status |-> "executing", task |-> act[a].task]
             w == At("model", a, "execute")
  <2>1. /\ act[a] # None /\ act[a] \in {None} \cup ActType
        /\ run[a] \in {None} \cup RunRecords /\ a \in kept
    BY <1>2, <1>6, Typed DEF Carded
  <2>2. old \in StepSeqs /\ new \in RunRecords
    <3>1. << >> \in StepSeqs
      BY Bounds DEF StepSeqs
    <3>2. run[a] # None => run[a].steps \in StepSeqs
      BY <2>1 DEF RunRecords
    <3>3. old \in StepSeqs
      BY <3>1, <3>2
    <3> QED
      BY <3>3 DEF RunRecords
  <2>3. new.status = "running" /\ new.steps = old /\ new # None
    BY <2>2, NoneIsNothing
  <2>4. card \in ActType /\ card # None /\ card.status = "executing" /\ card.task = act[a].task
    <3>1. card \in ActType
      BY <2>1, CardTyped DEF ActType, Status
    <3> QED
      BY <3>1, NoneIsNothing
  <2>5. run' = [run EXCEPT ![a] = new]
    <3>1. run[a] # None => [run[a] EXCEPT !.status = "running"] = new
      BY <2>1 DEF RunRecords
    <3>2. run[a] = None => new = [status |-> "running", steps |-> << >>]
      OBVIOUS
    <3> HIDE DEF new
    <3> QED
      BY <1>6, <3>1, <3>2
  <2>6. act' = [act EXCEPT ![a] = card]
    <3>1. [act[a] EXCEPT !.status = "executing"] = card
      BY <2>1, CardTyped DEF ActType
    <3> QED
      BY <1>6, <3>1
  <2>7. w \in Jobs /\ w \in AtJobs /\ w.pc = "model" /\ w.a = a /\ w.via = "execute" /\ w # Idle
    BY DEF At, Jobs, AtJobs, Stages, Idle
  <2>8. \A i \in 1..Len(old) : a \notin deleted => old[i].status # "waiting_approval"
    BY <1>2, <1>4, <2>1, NoWaits DEF KeptOK
  <2>9. run[a] # None => old = run[a].steps
    OBVIOUS
  <2> HIDE DEF old, new, card, w
  <2>10. /\ run' \in Runs /\ run'[a] = new /\ act' \in Cards /\ act'[a] = card
         /\ \A b \in Actions \ {a} : act'[b] = act[b] /\ run'[b] = run[b]
    BY <1>2, <2>2, <2>4, <2>5, <2>6 DEF TypeInv, Cards, Runs
  <2>11. Moves(t, w)
    BY <1>2, <1>6, <2>7, SyncMoves DEF TypeInv, w
  <2>12. CardStep(t, a, w) /\ Leads(a, w)
    BY <1>2, <1>6, <2>7, <2>10, <2>11 DEF CardStep, TypeInv, Leads
  <2>13. UNCHANGED <<kind, live, cached, kept, tasks, db, begun, deleted, restarts>>
    BY <1>6
  <2>14. CardOK(a)'
    BY <1>2, <1>3, <2>3, <2>4, <2>10, <2>13 DEF CardOK, BothAnswerable, Answerable
  <2>15. KeptOK(a)'
    <3>1. SUFFICES ASSUME a \notin deleted PROVE KeptOK(a)'
      BY <2>13 DEF KeptOK
    <3>2. Agree(card, new)
      BY <2>2, <2>3, <2>4, <2>8, <3>1, AgreeRunning DEF Settled
    <3>3. card.task = 0
      BY <1>2, <1>4, <2>1, <2>4, <3>1 DEF KeptOK, Taskless, Open
    <3>4. Taskless(card) /\ NamesStep(kind[a], card, new)
      BY <2>4, <3>3 DEF Taskless, NamesStep
    <3>5. db.act[a] # None => "executing" \in {db.act[a].status} \cup Follows(db.act[a].status)
      BY <1>2, <1>4, <2>1, <3>1 DEF KeptOK, Open, Follows, Settled
    <3>6. Agree(act[a], run[a])' /\ NamesStep(kind[a], act[a], run[a])' /\ Taskless(act[a])'
      BY <2>10, <2>13, <3>2, <3>4 DEF Agree, NamesStep, Taskless
    <3>7. /\ Agree(db.act[a], db.run[a])' /\ NamesStep(kind[a], db.act[a], db.run[a])'
          /\ Taskless(db.act[a])'
      BY <1>2, <2>13, <3>1 DEF KeptOK, Agree, NamesStep, Taskless
    <3> QED
      BY <1>2, <1>4, <2>3, <2>4, <2>10, <2>13, <3>1, <3>5, <3>6, <3>7 DEF KeptOK, Follows
  <2>16. AttachOK(a) => AttachOK(a)'
    BY <2>1 DEF AttachOK
  <2>17. RunGrows(a)
    BY <2>3, <2>9, <2>10 DEF RunGrows
  <2>18. JobOK(w)'
    <3>1. WorkerOK(w)'
      BY <1>3, <1>2, <2>3, <2>7, <2>10, <2>13 DEF WorkerOK
    <3>2. SoleOK(w)'
      BY <1>3, <1>4, <2>3, <2>4, <2>7, <2>10, <2>13 DEF SoleOK, Single, Open
    <3> QED
      BY <2>7, <3>1, <3>2 DEF JobOK
  <2> QED
    BY <1>1, <1>2, <2>7, <2>12, <2>14, <2>15, <2>16, <2>17, <2>18, WorkerStepInv
<1> QED
  BY <1>1, <1>5, <1>6 DEF StartAgentRun

\* The records of an action that is kept, from the values a step gives them.
LEMMA KeptNext ==
  ASSUME NEW a \in Actions, NEW c, NEW r, KeptOK(a), UNCHANGED <<kind, kept, db, deleted>>,
         act'[a] = c, run'[a] = r,
         a \notin deleted =>
           /\ Agree(c, r) /\ NamesStep(kind[a], c, r) /\ Taskless(c)
           /\ a \in cached' /\ r # None => r.status \in Settled
           /\ live'[a] = "pending" => /\ c = None \/ c.status = "pending"
                                      /\ r = None \/ r.status = "running"
           /\ db.act[a] # None => /\ c # None
                                  /\ c.status \in {db.act[a].status} \cup Follows(db.act[a].status)
  PROVE  KeptOK(a)'
<1>1. SUFFICES ASSUME a \notin deleted PROVE KeptOK(a)'
  BY DEF KeptOK
<1>2. Agree(act[a], run[a])' /\ NamesStep(kind[a], act[a], run[a])' /\ Taskless(act[a])'
  BY <1>1 DEF Agree, NamesStep, Taskless
<1>3. /\ Agree(db.act[a], db.run[a])' /\ NamesStep(kind[a], db.act[a], db.run[a])'
      /\ Taskless(db.act[a])'
  BY <1>1 DEF KeptOK, Agree, NamesStep, Taskless
<1> QED
  BY <1>1, <1>2, <1>3 DEF KeptOK, Follows

LEMMA RunEndsInv ==
  ASSUME Inv, NEW t \in Threads, th[t].pc \in Working, th[t].pc # "start",
         NEW a \in Actions, a = th[t].a, kind[a] = "agent",
         NEW e \in RunRecords, NEW s \in {"completed", "failed"}, RunEnds(t, a, e, s),
         Len(e.steps) = Len(run[a].steps),
         a \notin deleted => \A i \in 1..Len(e.steps) : e.steps[i].status # "waiting_approval",
         UNCHANGED <<kind, deleted>>
  PROVE  Inv'
<1>1. /\ TypeInv /\ CardOK(a) /\ KeptOK(a) /\ Job(t) = th[t] /\ th[t].via \in {"execute", "decide"}
      /\ WorkerOK(th[t]) /\ SoleOK(th[t])
  BY WorkerFacts
<1>2. run[a] # None /\ act[a] # None
  BY <1>1 DEF WorkerOK, CardOK
<1>3. /\ run[a] \in {None} \cup RunRecords /\ act[a] \in {None} \cup ActType
  BY <1>1, Typed
<1>4. a \notin deleted => act[a].status = "executing" /\ a \in kept
  BY <1>1 DEF SoleOK, Single, KeptOK
<1> DEFINE ran == [e EXCEPT !.status = s]
           card == [status |-> s, task |-> act[a].task]
<1>5. ran \in RunRecords /\ ran.status = s /\ ran.steps = e.steps /\ ran # None
  <2>1. ran \in RunRecords /\ ran.status = s /\ ran.steps = e.steps
    BY DEF RunRecords, Settled
  <2> QED
    BY <2>1, NoneIsNothing
<1>6. card \in ActType /\ card.status = s /\ card.task = act[a].task /\ card # None
  <2>1. card \in ActType
    BY <1>2, <1>3, CardTyped DEF ActType, Status, Settled
  <2> QED
    BY <2>1, NoneIsNothing
<1>7. [act[a] EXCEPT !.status = s] = card
  BY <1>2, <1>3, CardTyped DEF ActType
<1> HIDE DEF ran, card
<1>8. run' \in Runs /\ run'[a] = ran /\ \A b \in Actions \ {a} : run'[b] = run[b]
  BY <1>1, <1>5 DEF RunEnds, ran, TypeInv, Runs
<1>9. /\ act' \in Cards /\ act'[a] \in {act[a], card} /\ (a \notin deleted => act'[a] = card)
      /\ \A b \in Actions \ {a} : act'[b] = act[b]
  <2>1. act' = act \/ act' = [act EXCEPT ![a] = card]
    <3>1. [act EXCEPT ![a].status = s] = [act EXCEPT ![a] = card]
      BY <1>7
    <3> QED
      BY <3>1 DEF RunEnds, HeldStatus
  <2>2. a \notin deleted => act' = [act EXCEPT ![a] = card]
    BY <1>2, <1>4, <1>7 DEF RunEnds, HeldStatus, Carded
  <2> QED
    BY <1>1, <1>6, <2>1, <2>2 DEF TypeInv, Cards
<1>10. /\ live' \in [Actions -> {None, "message"} \cup Status]
       /\ live'[a] \in {live[a], "completed", "failed"}
       /\ \A b \in Actions \ {a} : live'[b] = live[b]
  BY <1>1 DEF RunEnds, HeldStatus, Raises, TypeInv, Status, Settled
<1>11. cached \subseteq cached' /\ cached' \subseteq cached \cup {a}
  BY DEF RunEnds, Raises
<1>12. UNCHANGED <<kind, kept, tasks, db, begun, deleted, restarts>>
  BY DEF RunEnds, Raises
<1>13. Moves(t, Idle) /\ lock' \in Threads \cup {None}
  BY <1>1, EndMoves DEF RunEnds, Raises, TypeInv
<1>14. CardStep(t, a, Idle)
  BY <1>1, <1>8, <1>9, <1>10, <1>11, <1>12, <1>13 DEF CardStep, TypeInv
<1>15. CardOK(a)'
  BY <1>1, <1>2, <1>6, <1>8, <1>9, <1>10, <1>12, NoneIsNothing
     DEF CardOK, BothAnswerable, Answerable
<1>16. KeptOK(a)'
  <2>1. PICK c \in {card}, r \in {ran} : TRUE
    OBVIOUS
  <2>2. ASSUME a \notin deleted
        PROVE  /\ act'[a] = c /\ run'[a] = r
               /\ Agree(c, r) /\ NamesStep(kind[a], c, r) /\ Taskless(c)
               /\ r.status \in Settled /\ live'[a] # "pending"
               /\ db.act[a] # None => /\ c # None
                                      /\ c.status \in {db.act[a].status} \cup Follows(db.act[a].status)
    <3>1. act'[a] = c /\ run'[a] = r /\ r.status \in Settled
      BY <1>5, <1>8, <1>9, <2>1, <2>2 DEF Settled
    <3>2. Agree(c, r)
      BY <1>5, <1>6, <2>1, <2>2, AgreeRunning
    <3>3. NamesStep(kind[a], c, r) /\ Taskless(c)
      BY <1>6, <2>1 DEF NamesStep, Taskless
    <3>4. live'[a] # "pending"
      BY <1>1, <1>10, <2>2 DEF SoleOK, Single
    <3>5. db.act[a] # None => /\ c # None
                              /\ c.status \in {db.act[a].status} \cup Follows(db.act[a].status)
      BY <1>1, <1>4, <1>6, <2>1, <2>2 DEF KeptOK, Follows, Settled
    <3> QED
      BY <3>1, <3>2, <3>3, <3>4, <3>5
  <2>3. CASE a \in deleted
    BY <1>12, <2>3 DEF KeptOK
  <2>4. CASE a \notin deleted
    BY <1>1, <1>12, <2>2, <2>4, KeptNext
  <2> QED
    BY <2>3, <2>4
<1>17. AttachOK(a) => AttachOK(a)'
  BY <1>2 DEF AttachOK
<1>18. RunGrows(a) /\ JobOK(Idle)' /\ Leads(a, Idle)
  BY <1>5, <1>8, IdleIs DEF RunGrows, JobOK, Working, Leads
<1> QED
  BY <1>1, <1>14, <1>15, <1>16, <1>17, <1>18, IdleIs, WorkerStepInv

\* The agent run that thread t works on.
LEMMA AgentFacts ==
  ASSUME Inv, NEW t \in Threads, th[t].pc \in Working, th[t].pc # "start",
         NEW a \in Actions, a = th[t].a, kind[a] = "agent"
  PROVE  /\ run[a] \in RunRecords /\ run[a].steps \in Seq(StepType)
         /\ Len(run[a].steps) \in Nat /\ Len(run[a].steps) <= MaxSteps
         /\ DOMAIN run[a].steps = 1..Len(run[a].steps)
         /\ run[a] # None /\ act[a] # None /\ act[a] \in ActType
         /\ th[t].pc \in {"call", "work", "back"} => Len(run[a].steps) # 0
         /\ a \notin deleted =>
              /\ \A i \in 1..Len(run[a].steps) : run[a].steps[i].status # "waiting_approval"
              /\ run[a].status = "running" /\ act[a].status = "executing"
              /\ a \notin cached /\ act[a].task = 0
              /\ live[a] = IF th[t].via = "execute" THEN "executing" ELSE "message"
              /\ db.act[a] # None => db.act[a].status \in {"pending", "executing", "waiting_approval"}
<1>1. /\ TypeInv /\ CardOK(a) /\ KeptOK(a) /\ WorkerOK(th[t]) /\ SoleOK(th[t])
  BY WorkerFacts
<1>2. run[a] # None /\ act[a] # None
  BY <1>1 DEF WorkerOK, CardOK
<1>3. run[a] \in RunRecords /\ act[a] \in ActType /\ db.act[a] \in {None} \cup ActType
  BY <1>1, <1>2, Typed
<1>4. /\ run[a].steps \in Seq(StepType) /\ Len(run[a].steps) \in Nat
      /\ Len(run[a].steps) <= MaxSteps /\ DOMAIN run[a].steps = 1..Len(run[a].steps)
  BY <1>2, <1>3, StepsTyped
<1>5. th[t].pc \in {"call", "work", "back"} => Len(run[a].steps) # 0
  BY <1>1 DEF WorkerOK
<1>6. ASSUME a \notin deleted
      PROVE  /\ \A i \in 1..Len(run[a].steps) : run[a].steps[i].status # "waiting_approval"
             /\ run[a].status = "running" /\ act[a].status = "executing"
             /\ a \notin cached /\ act[a].task = 0
             /\ live[a] = IF th[t].via = "execute" THEN "executing" ELSE "message"
             /\ db.act[a] # None => db.act[a].status \in {"pending", "executing", "waiting_approval"}
  <2>1. /\ run[a].status = "running" /\ act[a].status = "executing" /\ a \notin cached
        /\ live[a] = IF th[t].via = "execute" THEN "executing" ELSE "message"
    BY <1>1, <1>2, <1>6 DEF SoleOK, Single
  <2>2. \A i \in 1..Len(run[a].steps) : run[a].steps[i].status # "waiting_approval"
    BY <1>1, <1>2, <1>3, <1>6, <2>1, NoWaits DEF KeptOK
  <2>3. act[a].task = 0
    BY <1>1, <1>2, <1>6, <2>1 DEF KeptOK, Taskless
  <2>4. db.act[a] # None => db.act[a].status \in {"pending", "executing", "waiting_approval"}
    <3>1. db.act[a] # None => "executing" \in {db.act[a].status} \cup Follows(db.act[a].status)
      BY <1>1, <1>6, <2>1 DEF KeptOK
    <3> QED
      BY <1>3, <3>1 DEF Follows, ActType, Status, Settled
  <2> QED
    BY <2>1, <2>2, <2>3, <2>4
<1> QED
  BY <1>2, <1>3, <1>4, <1>5, <1>6

LEMMA ModelJob ==
  ASSUME Inv, NEW t \in Threads, th[t].pc \in {"model", "fail"}
  PROVE  kind[th[t].a] = "agent" /\ th[t].pc \in Working /\ th[t].pc # "start"
BY WorkerFacts DEF WorkerOK, Working

LEMMA CompleteAgentRunInv ==
  ASSUME Inv, NEW t \in Threads, CompleteAgentRun(t), UNCHANGED <<kind, deleted>>
  PROVE  Inv'
<1>1. th[t].pc \in Working /\ th[t].pc # "start" /\ kind[th[t].a] = "agent"
  BY ModelJob DEF CompleteAgentRun
<1>2. PICK a \in Actions : a = th[t].a
  BY <1>1, WorkerFacts
<1>3. PICK e \in RunRecords : e = run[a]
  BY <1>1, <1>2, AgentFacts
<1>4. RunEnds(t, a, e, "completed")
  BY <1>2, <1>3 DEF CompleteAgentRun
<1> QED
  BY <1>1, <1>2, <1>3, <1>4, AgentFacts, RunEndsInv

LEMMA FailAgentRunInv ==
  ASSUME Inv, NEW t \in Threads, FailAgentRun(t), UNCHANGED <<kind, deleted>>
  PROVE  Inv'
<1>1. th[t].pc \in Working /\ th[t].pc # "start" /\ kind[th[t].a] = "agent"
  BY ModelJob DEF FailAgentRun
<1>2. PICK a \in Actions : a = th[t].a
  BY <1>1, WorkerFacts
<1>3. PICK e \in RunRecords : e = run[a]
  BY <1>1, <1>2, AgentFacts
<1>4. RunEnds(t, a, e, "failed")
  BY <1>2, <1>3 DEF FailAgentRun
<1> QED
  BY <1>1, <1>2, <1>3, <1>4, AgentFacts, RunEndsInv

\* The last step of a run gets another status and task.
LEMMA LastStepSet ==
  ASSUME NEW r \in RunRecords, Len(r.steps) # 0, NEW p \in StepType,
         NEW q, q = [r.steps EXCEPT ![Len(r.steps)] = p]
  PROVE  /\ q \in StepSeqs /\ Len(q) = Len(r.steps) /\ q[Len(q)] = p
         /\ \A i \in 1..Len(q) : i # Len(q) => q[i] = r.steps[i]
<1>1. /\ r.steps \in Seq(StepType) /\ Len(r.steps) \in Nat /\ Len(r.steps) <= MaxSteps
  BY DEF RunRecords, StepSeqs
<1>2. Len(r.steps) \in 1..Len(r.steps)
  BY <1>1
<1> QED
  BY <1>1, <1>2 DEF StepSeqs

LEMMA StepRaisesInv ==
  ASSUME Inv, NEW t \in Threads, StepRaises(t), UNCHANGED <<kind, deleted>>
  PROVE  Inv'
<1>1. th[t].pc \in Working /\ th[t].pc # "start" /\ kind[th[t].a] = "agent"
      /\ th[t].pc \in {"call", "work", "back"}
  BY DEF StepRaises, Working
<1>2. PICK a \in Actions : a = th[t].a
  BY <1>1, WorkerFacts
<1>3. /\ run[a] \in RunRecords /\ Len(run[a].steps) # 0 /\ Len(run[a].steps) \in Nat
      /\ run[a].steps \in Seq(StepType)
      /\ a \notin deleted =>
           \A i \in 1..Len(run[a].steps) : run[a].steps[i].status # "waiting_approval"
  BY <1>1, <1>2, AgentFacts
<1> DEFINE n == Len(run[a].steps)
           p == [run[a].steps[n] EXCEPT !.status = "failed"]
           q == [run[a].steps EXCEPT ![n] = p]
           ran == [run[a] EXCEPT !.steps = q]
<1>4. p \in StepType /\ p.status = "failed"
  <2>1. n \in 1..n
    BY <1>3
  <2>2. run[a].steps[n] \in StepType
    BY <1>3, <2>1
  <2> QED
    BY <2>2 DEF StepType
<1>5. /\ q \in StepSeqs /\ Len(q) = n /\ q[n] = p
      /\ \A i \in 1..n : i # n => q[i] = run[a].steps[i]
  <2> HIDE DEF p
  <2> QED
    BY <1>3, <1>4, LastStepSet
<1>6. [run[a] EXCEPT !.steps[LastStep(a)].status = "failed"] = ran
  BY DEF LastStep
<1> HIDE DEF p, q
<1>7. ran \in RunRecords /\ ran.steps = q
  BY <1>3, <1>5 DEF RunRecords
<1>8. PICK e \in RunRecords : e = ran
  BY <1>7
<1>9. RunEnds(t, a, e, "failed")
  BY <1>2, <1>6, <1>8 DEF StepRaises
<1>10. Len(e.steps) = Len(run[a].steps)
  BY <1>5, <1>7, <1>8
<1>11. a \notin deleted => \A i \in 1..Len(e.steps) : e.steps[i].status # "waiting_approval"
  BY <1>3, <1>4, <1>5, <1>7, <1>8
<1> QED
  BY <1>1, <1>2, <1>9, <1>10, <1>11, RunEndsInv

\* A step that changes nothing but the steps of a run.
LEMMA RunStepInv ==
  ASSUME Inv, NEW t \in Threads, th[t].pc \in Working, th[t].pc # "start",
         NEW a \in Actions, a = th[t].a, kind[a] = "agent",
         NEW q \in StepSeqs, Len(q) # 0, NEW pc \in {"call", "model", "fail"},
         run' = [run EXCEPT ![a].steps = q],
         a \notin deleted => \A i \in 1..Len(q) : q[i].status # "waiting_approval",
         UNCHANGED <<kind, live, cached, act, kept, tasks, db, lock, begun, deleted, restarts>>,
         Goes(t, Sync(At(pc, a, th[t].via)))
  PROVE  Inv'
<1>1. /\ TypeInv /\ CardOK(a) /\ KeptOK(a) /\ Job(t) = th[t] /\ th[t].via \in {"execute", "decide"}
      /\ WorkerOK(th[t]) /\ SoleOK(th[t])
  BY WorkerFacts
<1>2. /\ run[a] \in RunRecords /\ run[a] # None /\ act[a] # None /\ act[a] \in ActType
      /\ a \notin deleted =>
           /\ run[a].status = "running" /\ act[a].status = "executing" /\ a \notin cached
           /\ live[a] = IF th[t].via = "execute" THEN "executing" ELSE "message"
  BY AgentFacts
<1>3. PICK w \in Jobs : w = At(pc, a, th[t].via)
  BY <1>1 DEF At, Jobs, AtJobs, Stages
<1>4. w \in AtJobs /\ w.pc = pc /\ w.a = a /\ w.via = th[t].via /\ w # Idle
  BY <1>1, <1>3 DEF At, AtJobs, Stages, Idle
<1>5. PICK ran \in RunRecords : ran = [run[a] EXCEPT !.steps = q]
  BY <1>2 DEF RunRecords
<1>6. ran.status = run[a].status /\ ran.steps = q /\ ran # None
  BY <1>2, <1>5, NoneIsNothing DEF RunRecords
<1>7. run' \in Runs /\ run'[a] = ran /\ \A b \in Actions \ {a} : run'[b] = run[b]
  <2>1. run' = [run EXCEPT ![a] = ran]
    BY <1>5
  <2> QED
    BY <1>1, <2>1 DEF TypeInv, Runs
<1>8. Moves(t, w)
  BY <1>1, <1>3, SyncMoves DEF TypeInv
<1>9. CardStep(t, a, w) /\ Leads(a, w)
  BY <1>1, <1>4, <1>7, <1>8 DEF CardStep, TypeInv, Leads
<1>10. CardOK(a)'
  BY <1>1, <1>2, <1>6, <1>7 DEF CardOK, BothAnswerable, Answerable
<1>11. KeptOK(a)'
  <2>1. CASE a \in deleted
    BY <2>1 DEF KeptOK
  <2>2. CASE a \notin deleted
    <3>1. PICK c \in {act[a]} : TRUE
      OBVIOUS
    <3>2. Agree(c, ran)
      BY <1>2, <1>6, <2>2, <3>1, AgreeRunning DEF Settled
    <3>3. NamesStep(kind[a], c, ran) /\ Taskless(c)
      BY <1>1, <1>2, <2>2, <3>1 DEF KeptOK, NamesStep, Taskless
    <3>4. live[a] # "pending" /\ a \notin cached
      BY <1>2, <2>2
    <3>5. db.act[a] # None => /\ c # None
                              /\ c.status \in {db.act[a].status} \cup Follows(db.act[a].status)
      BY <1>1, <2>2, <3>1 DEF KeptOK
    <3> QED
      BY <1>1, <1>7, <3>1, <3>2, <3>3, <3>4, <3>5, KeptNext
  <2> QED
    BY <2>1, <2>2
<1>12. AttachOK(a) => AttachOK(a)'
  BY <1>2 DEF AttachOK
<1>13. RunGrows(a)
  BY <1>6, <1>7 DEF RunGrows
<1>14. JobOK(w)'
  <2>1. WorkerOK(w)'
    BY <1>1, <1>4, <1>6, <1>7 DEF WorkerOK
  <2>2. SoleOK(w)'
    BY <1>1, <1>2, <1>4, <1>6, <1>7 DEF SoleOK, Single, Open
  <2> QED
    BY <1>4, <2>1, <2>2 DEF JobOK
<1> QED
  BY <1>1, <1>9, <1>10, <1>11, <1>12, <1>13, <1>14, WorkerStepInv

LEMMA DecideToolInv ==
  ASSUME Inv, NEW t \in Threads, DecideTool(t), UNCHANGED <<kind, deleted>>
  PROVE  Inv'
<1>1. th[t].pc \in Working /\ th[t].pc # "start" /\ kind[th[t].a] = "agent"
  BY ModelJob DEF DecideTool
<1>2. PICK a \in Actions : a = th[t].a
  BY <1>1, WorkerFacts
<1>3. /\ run[a] \in RunRecords /\ run[a].steps \in Seq(StepType)
      /\ Len(run[a].steps) \in Nat /\ Len(run[a].steps) < MaxSteps
      /\ a \notin deleted =>
           \A i \in 1..Len(run[a].steps) : run[a].steps[i].status # "waiting_approval"
  BY <1>1, <1>2, AgentFacts DEF DecideTool, LastStep
<1> DEFINE p == [status |-> "running", task |-> 0]
<1>4. PICK q : q = Append(run[a].steps, p)
  OBVIOUS
<1>5. p \in StepType /\ p.status # "waiting_approval"
  BY Bounds DEF StepType
<1> HIDE DEF p
<1>6. /\ q \in Seq(StepType) /\ Len(q) = Len(run[a].steps) + 1
      /\ \A i \in 1..Len(q) : q[i] = IF i = Len(q) THEN p ELSE run[a].steps[i]
  BY <1>3, <1>4, <1>5
<1>7. q \in StepSeqs /\ Len(q) # 0
  BY <1>3, <1>6, Bounds DEF StepSeqs
<1>8. a \notin deleted => \A i \in 1..Len(q) : q[i].status # "waiting_approval"
  <2>1. \A i \in 1..Len(q) : i # Len(q) => i \in 1..Len(run[a].steps)
    BY <1>3, <1>6
  <2> QED
    BY <1>3, <1>5, <1>6, <2>1
<1>9. run' = [run EXCEPT ![a].steps = q]
  BY <1>2, <1>4 DEF DecideTool, p
<1>10. /\ UNCHANGED <<live, cached, act, kept, tasks, db, lock, begun, restarts>>
       /\ Goes(t, Sync(At("call", a, th[t].via)))
  BY <1>2 DEF DecideTool
<1> QED
  BY <1>1, <1>2, <1>7, <1>8, <1>9, <1>10, RunStepInv

LEMMA StepEndsInv ==
  ASSUME Inv, NEW t \in Threads, StepEnds(t), UNCHANGED <<kind, deleted>>
  PROVE  Inv'
<1>1. th[t].pc \in Working /\ th[t].pc = "back" /\ kind[th[t].a] = "agent"
  BY DEF StepEnds, Working
<1>2. PICK a \in Actions : a = th[t].a
  BY <1>1, WorkerFacts
<1>3. /\ run[a] \in RunRecords /\ Len(run[a].steps) # 0 /\ Len(run[a].steps) \in Nat
      /\ a \notin deleted =>
           \A i \in 1..Len(run[a].steps) : run[a].steps[i].status # "waiting_approval"
  BY <1>1, <1>2, AgentFacts
<1> DEFINE p == [status |-> th[t].out, task |-> th[t].task]
           n == Len(run[a].steps)
<1>4. p \in StepType /\ p.status # "waiting_approval"
  <2>1. th[t].out \in {"completed", "failed"}
    BY DEF StepEnds
  <2>2. th[t].task \in 0..Len(tasks[a])
    BY <1>1, <1>2, WorkerFacts DEF WorkerOK
  <2>3. Len(tasks[a]) \in Nat /\ Len(tasks[a]) <= MaxTasks
    BY <1>1, WorkerFacts, Typed, TasksTyped
  <2>4. th[t].task \in 0..MaxTasks
    BY <2>2, <2>3, Bounds
  <2> QED
    BY <2>1, <2>4 DEF StepType
<1>5. PICK q : q = [run[a].steps EXCEPT ![n] = p]
  OBVIOUS
<1>6. run' = [run EXCEPT ![a].steps = q]
  BY <1>2, <1>5 DEF StepEnds, LastStep
<1>7. PICK pc \in {"model", "fail"} : Goes(t, Sync(At(pc, a, th[t].via)))
  BY <1>2 DEF StepEnds
<1> HIDE DEF p
<1>8. /\ q \in StepSeqs /\ Len(q) = n /\ q[n] = p
      /\ \A i \in 1..n : i # n => q[i] = run[a].steps[i]
  BY <1>3, <1>4, <1>5, LastStepSet
<1>9. a \notin deleted => \A i \in 1..Len(q) : q[i].status # "waiting_approval"
  BY <1>3, <1>4, <1>8
<1>10. UNCHANGED <<live, cached, act, kept, tasks, db, lock, begun, restarts>>
  BY DEF StepEnds
<1> QED
  BY <1>1, <1>2, <1>3, <1>6, <1>7, <1>8, <1>9, <1>10, RunStepInv

LEMMA StepWaitsInv ==
  ASSUME Inv, NEW t \in Threads, StepWaits(t), UNCHANGED <<kind, deleted>>
  PROVE  Inv'
<1>1. th[t].pc \in Working /\ th[t].pc # "start" /\ th[t].pc = "back" /\ kind[th[t].a] = "agent"
      /\ th[t].pc \in {"call", "work", "back"}
  BY DEF StepWaits, Working
<1>2. PICK a \in Actions : a = th[t].a
  BY <1>1, WorkerFacts
<1>3. /\ TypeInv /\ CardOK(a) /\ KeptOK(a) /\ Job(t) = th[t] /\ th[t].via \in {"execute", "decide"}
      /\ WorkerOK(th[t]) /\ SoleOK(th[t]) /\ SyncOK(t, th[t]) /\ th[t] \in Jobs
  BY <1>1, <1>2, WorkerFacts
<1>4. /\ run[a] \in RunRecords /\ Len(run[a].steps) # 0 /\ Len(run[a].steps) \in Nat
      /\ run[a] # None /\ act[a] # None /\ act[a] \in ActType
      /\ a \notin deleted =>
           /\ \A i \in 1..Len(run[a].steps) : run[a].steps[i].status # "waiting_approval"
           /\ a \notin cached
           /\ live[a] = IF th[t].via = "execute" THEN "executing" ELSE "message"
           /\ db.act[a] # None => db.act[a].status \in {"pending", "executing", "waiting_approval"}
  BY <1>1, <1>2, AgentFacts
<1>5. th[t].task \in 0..MaxTasks /\ BothAnswerable(a, th[t].task)
  <2>1. th[t].task \in 0..Len(tasks[a])
    BY <1>1, <1>2, <1>3 DEF WorkerOK
  <2>2. Len(tasks[a]) \in Nat /\ Len(tasks[a]) <= MaxTasks
    BY <1>3, Typed, TasksTyped
  <2>3. th[t].out = "waiting_approval"
    BY DEF StepWaits
  <2> QED
    BY <1>1, <1>2, <1>3, <2>1, <2>2, <2>3, Bounds DEF WorkerOK, SyncOK, BothAnswerable
<1>6. PICK k \in 0..MaxTasks : k = th[t].task
  BY <1>5
<1> DEFINE p == [status |-> "waiting_approval", task |-> k]
           n == Len(run[a].steps)
<1>7. p \in StepType /\ p \in ActType /\ p.status = "waiting_approval" /\ p.task = k /\ p # None
  <2>1. p \in StepType /\ p \in ActType /\ p.status = "waiting_approval" /\ p.task = k
    BY <1>6 DEF StepType, ActType, Status
  <2> QED
    BY <2>1, NoneIsNothing
<1>8. PICK q : q = [run[a].steps EXCEPT ![n] = p]
  OBVIOUS
<1> DEFINE ran == [status |-> "waiting_approval", steps |-> q]
<1>9. run' = [run EXCEPT ![a] = ran]
  BY <1>2, <1>6, <1>8 DEF StepWaits, LastStep
<1>10. act' = IF Carded(a) THEN [act EXCEPT ![a] = p] ELSE act
  BY <1>2, <1>6 DEF StepWaits, CardWaits, WithStatus
<1> HIDE DEF p
<1>11. /\ q \in StepSeqs /\ Len(q) = n /\ q[n] = p
       /\ \A i \in 1..n : i # n => q[i] = run[a].steps[i]
  BY <1>4, <1>7, <1>8, LastStepSet
<1>12. ran \in RunRecords /\ ran.status = "waiting_approval" /\ ran.steps = q /\ ran # None
  <2>1. ran \in RunRecords /\ ran.status = "waiting_approval" /\ ran.steps = q
    BY <1>11 DEF RunRecords
  <2> QED
    BY <2>1, NoneIsNothing
<1> HIDE DEF ran
<1>13. /\ run' \in Runs /\ run'[a] = ran /\ act' \in Cards
       /\ act'[a] = (IF a \in kept THEN p ELSE act[a])
       /\ \A b \in Actions \ {a} : act'[b] = act[b] /\ run'[b] = run[b]
  BY <1>3, <1>4, <1>7, <1>9, <1>10, <1>12 DEF TypeInv, Cards, Runs, Carded
<1>14. /\ live' \in [Actions -> {None, "message"} \cup Status]
       /\ live'[a] \in {live[a], "waiting_approval", "failed"}
       /\ \A b \in Actions \ {a} : live'[b] = live[b]
  BY <1>2, <1>3 DEF StepWaits, Raises, TypeInv, Status, Settled
<1>15. UNCHANGED <<kind, cached, kept, tasks, db, begun, deleted, restarts>>
  BY DEF StepWaits
<1>16. Moves(t, Idle) /\ lock' \in Threads \cup {None}
  BY <1>3, EndMoves DEF StepWaits, Raises, TypeInv
<1>17. CardStep(t, a, Idle)
  BY <1>3, <1>13, <1>14, <1>15, <1>16 DEF CardStep, TypeInv
<1>18. CardOK(a)'
  BY <1>3, <1>5, <1>6, <1>7, <1>1, <1>2, <1>4, <1>12, <1>13, <1>14, <1>15, NoneIsNothing
     DEF CardOK, BothAnswerable, Answerable, Status, Settled
<1>19. KeptOK(a)'
  <2>1. CASE a \in deleted
    BY <1>15, <2>1 DEF KeptOK
  <2>2. CASE a \notin deleted
    <3>1. PICK c \in {p}, r \in {ran} : TRUE
      OBVIOUS
    <3>2. a \in kept /\ act'[a] = c /\ run'[a] = r
      BY <1>3, <1>13, <2>2, <3>1 DEF KeptOK
    <3>3. Agree(c, r)
      <4>1. {i \in 1..Len(q) : q[i].status = "waiting_approval"} = {n}
        BY <1>4, <1>7, <1>11, <2>2
      <4> QED
        BY <1>4, <1>7, <1>11, <1>12, <3>1, <4>1 DEF Agree, Settled
    <3>4. NamesStep(kind[a], c, r) /\ Taskless(c)
      BY <1>4, <1>7, <1>11, <1>12, <3>1 DEF NamesStep, Taskless
    <3>5. a \notin cached /\ live'[a] # "pending"
      BY <1>4, <1>14, <2>2
    <3>6. db.act[a] # None => c # None /\ c.status \in {db.act[a].status} \cup Follows(db.act[a].status)
      BY <1>4, <1>7, <2>2, <3>1 DEF Follows
    <3> QED
      BY <1>3, <1>15, <3>2, <3>3, <3>4, <3>5, <3>6, KeptNext
  <2> QED
    BY <2>1, <2>2
<1>20. AttachOK(a) => AttachOK(a)'
  BY <1>4 DEF AttachOK
<1>21. RunGrows(a) /\ JobOK(Idle)' /\ Leads(a, Idle)
  BY <1>4, <1>11, <1>12, <1>13, IdleIs DEF RunGrows, JobOK, Working, Leads
<1> QED
  BY <1>1, <1>2, <1>3, <1>17, <1>18, <1>19, <1>20, <1>21, IdleIs, WorkerStepInv

-----------------------------------------------------------------------------
(* Confirmation, cancellation and decisions                                *)

\* A live record that offers its action has no card that has gone on.
LEMMA OfferedFacts ==
  ASSUME Inv, NEW a \in Actions, live[a] # None, LiveStatus(a) = "pending"
  PROVE  /\ TypeInv /\ CardOK(a) /\ KeptOK(a) /\ live[a] = "pending" /\ kind[a] # None
         /\ begun[a] <= restarts /\ begun[a] \in Nat /\ restarts \in Nat
         /\ \A u \in Threads : \A v \in {Job(u)} :
              v.pc \in Working /\ v.a = a => WorkerOK(v) /\ ~Single(a)
<1>1. TypeInv /\ CardOK(a) /\ KeptOK(a)
  BY DEF Inv
<1>2. live[a] = "pending" /\ kind[a] # None /\ begun[a] <= restarts
  BY <1>1 DEF CardOK, LiveStatus
<1>3. ASSUME NEW u \in Threads, NEW v \in {Job(u)}, v.pc \in Working, v.a = a
      PROVE  WorkerOK(v) /\ ~Single(a)
  <2>1. WorkerOK(v) /\ SoleOK(v)
    BY <1>3, JobFacts
  <2> QED
    BY <1>2, <1>3, <2>1 DEF SoleOK
<1> QED
  BY <1>1, <1>2, <1>3, Typed

LEMMA IdleJob ==
  ASSUME TypeInv, NEW t \in Threads, th[t].pc = "idle"
  PROVE  Job(t) = Idle
BY ThreadTyped, JobTyped

LEMMA ExecuteInv ==
  ASSUME Inv, NEW t \in Threads, NEW a \in Actions, Execute(t, a), UNCHANGED <<kind, deleted>>
  PROVE  Inv'
<1>1. /\ TypeInv /\ CardOK(a) /\ KeptOK(a) /\ live[a] = "pending" /\ kind[a] # None
      /\ begun[a] <= restarts /\ begun[a] \in Nat /\ restarts \in Nat /\ a \notin cached
  BY OfferedFacts DEF Execute, Confirmable
<1>2. PICK w \in Jobs : w = IF kind[a] = "agent" THEN At("start", a, "execute")
                                                 ELSE At("call", a, "execute")
  BY DEF At, Jobs, AtJobs, Stages
<1>3. /\ w \in AtJobs /\ w.pc = (IF kind[a] = "agent" THEN "start" ELSE "call")
      /\ w.a = a /\ w.via = "execute" /\ w # Idle
  BY <1>2 DEF At, AtJobs, Stages, Idle
<1>4. /\ live'[a] = "executing" /\ begun'[a] = begun[a] + 1
      /\ live' \in [Actions -> {None, "message"} \cup Status] /\ begun' \in [Actions -> Nat]
      /\ \A b \in Actions \ {a} : live'[b] = live[b] /\ begun'[b] = begun[b]
  BY <1>1 DEF Execute, TypeInv, Status
<1>5. UNCHANGED <<kind, cached, act, run, kept, tasks, db, lock, deleted, restarts>>
  BY DEF Execute
<1>6. Moves(t, w)
  BY <1>1, <1>2, <1>3, StepMoves DEF Execute
<1>7. CardStep(t, a, w) /\ Leads(a, w)
  BY <1>1, <1>3, <1>4, <1>5, <1>6 DEF CardStep, TypeInv, Leads
<1>8. CardOK(a)'
  BY <1>1, <1>4, <1>5, NoneIsNothing DEF CardOK, BothAnswerable, Answerable
<1>9. KeptOK(a)'
  BY <1>1, <1>4, <1>5 DEF KeptOK, Agree, NamesStep, Taskless, Follows
<1>10. JobOK(w)'
  <2>1. WorkerOK(w)'
    BY <1>1, <1>3, <1>5 DEF WorkerOK
  <2>2. SoleOK(w)'
    BY <1>1, <1>3, <1>4, <1>5 DEF SoleOK, Single, Open, KeptOK
  <2> QED
    BY <1>3, <2>1, <2>2 DEF JobOK
<1>11. AttachOK(a) => AttachOK(a)'
  BY <1>1, <1>4, <1>5, NoneIsNothing DEF AttachOK, Status
<1>12. ASSUME NEW u \in Threads \ {t}, NEW v \in {Job(u)}, v.pc \in Working, v.a = a
       PROVE  WorkerOK(v)' /\ SoleOK(v)' /\ ~Single(a)
  <2>1. WorkerOK(v) /\ ~Single(a)
    BY <1>12, OfferedFacts DEF Execute, Confirmable
  <2>2. WorkerOK(v)' /\ SoleOK(v)'
    BY <1>5, <1>12, <2>1 DEF WorkerOK, SoleOK, Single, Answerable
  <2> QED
    BY <2>1, <2>2
<1> QED
  BY <1>7, <1>8, <1>9, <1>10, <1>11, <1>12, CardStepInv

LEMMA CancelChatActionInv ==
  ASSUME Inv, NEW t \in Threads, NEW a \in Actions, CancelChatAction(t, a),
         UNCHANGED <<kind, deleted>>
  PROVE  Inv'
<1>1. /\ TypeInv /\ CardOK(a) /\ KeptOK(a) /\ live[a] = "pending" /\ kind[a] # None
  BY OfferedFacts DEF CancelChatAction
<1>2. act[a] \in {None} \cup ActType /\ run[a] \in {None} \cup RunRecords
  BY <1>1, Typed
<1>3. /\ live'[a] = "cancelled" /\ live' \in [Actions -> {None, "message"} \cup Status]
      /\ \A b \in Actions \ {a} : live'[b] = live[b]
  BY <1>1 DEF CancelChatAction, TypeInv, Status, Settled
<1>4. UNCHANGED <<kind, cached, run, kept, tasks, db, lock, begun, deleted, restarts>>
  BY DEF CancelChatAction
<1> DEFINE card == [status |-> "cancelled", task |-> act[a].task]
<1>5. Carded(a) => /\ card \in ActType /\ card.status = "cancelled" /\ card # None
                   /\ [act[a] EXCEPT !.status = "cancelled"] = card
  <2>1. SUFFICES ASSUME Carded(a)
                 PROVE  /\ card \in ActType /\ card.status = "cancelled" /\ card # None
                        /\ [act[a] EXCEPT !.status = "cancelled"] = card
    OBVIOUS
  <2>2. act[a] # None /\ act[a] \in ActType
    BY <1>2, <2>1 DEF Carded
  <2>3. card \in ActType /\ card.status = "cancelled" /\ [act[a] EXCEPT !.status = "cancelled"] = card
    BY <2>2 DEF ActType, Status, Settled
  <2> QED
    BY <2>3, NoneIsNothing
<1> HIDE DEF card
<1>6. /\ act' \in Cards /\ act'[a] = (IF Carded(a) THEN card ELSE act[a])
      /\ \A b \in Actions \ {a} : act'[b] = act[b]
  <2>1. act' = IF Carded(a) THEN [act EXCEPT ![a] = card] ELSE act
    BY <1>5 DEF CancelChatAction, WithStatus
  <2> QED
    BY <1>1, <1>5, <2>1 DEF TypeInv, Cards
<1>7. Moves(t, Idle)
  BY <1>1, <1>4, IdleIs, SyncMoves DEF CancelChatAction, TypeInv
<1>8. CardStep(t, a, Idle) /\ Leads(a, Idle)
  BY <1>1, <1>3, <1>4, <1>6, <1>7 DEF CardStep, TypeInv, Leads
<1>9. CardOK(a)'
  BY <1>1, <1>3, <1>4, <1>5, <1>6, NoneIsNothing DEF CardOK, BothAnswerable, Answerable, Carded
<1>10. KeptOK(a)'
  <2>1. CASE a \in deleted
    BY <1>4, <2>1 DEF KeptOK
  <2>2. CASE a \notin deleted
    <3>1. PICK c \in {act'[a]}, r \in {run[a]} : TRUE
      OBVIOUS
    <3>2. /\ c = None <=> act[a] = None
          /\ c # None => c.status = "cancelled" /\ act[a].status = "pending"
          /\ r = None \/ r.status = "running"
      BY <1>1, <1>5, <1>6, <2>2, <3>1 DEF KeptOK, Carded
    <3>3. Agree(c, r)
      <4>1. r # None => c # None /\ act[a] # None
        BY <1>1, <3>1, <3>2 DEF CardOK
      <4>2. r # None => \A i \in 1..Len(r.steps) : r.steps[i].status # "waiting_approval"
        BY <1>1, <1>2, <2>2, <3>1, <3>2, NoWaits DEF KeptOK
      <4>3. CASE r = None
        BY <4>3 DEF Agree
      <4>4. CASE r # None
        BY <1>2, <3>1, <3>2, <4>1, <4>2, <4>4, AgreeRunning DEF Settled
      <4> QED
        BY <4>3, <4>4
    <3>4. NamesStep(kind[a], c, r) /\ Taskless(c)
      BY <3>2 DEF NamesStep, Taskless
    <3>5. a \in cached' /\ r # None => r.status \in Settled
      BY <1>1, <1>4, <2>2, <3>1 DEF KeptOK
    <3>6. db.act[a] # None => c # None /\ c.status \in {db.act[a].status} \cup Follows(db.act[a].status)
      <4>1. SUFFICES ASSUME db.act[a] # None
                     PROVE  c # None /\ c.status \in {db.act[a].status} \cup Follows(db.act[a].status)
        OBVIOUS
      <4>2. c # None /\ "pending" \in {db.act[a].status} \cup Follows(db.act[a].status)
        BY <1>1, <2>2, <3>2, <4>1 DEF KeptOK
      <4>3. db.act[a].status \in Status
        BY <1>1, <4>1, Typed, CardTyped
      <4> QED
        BY <3>2, <4>2, <4>3 DEF Follows, Status, Settled
    <3> QED
      BY <1>1, <1>3, <1>4, <3>1, <3>3, <3>4, <3>5, <3>6, KeptNext
  <2> QED
    BY <2>1, <2>2
<1>11. AttachOK(a) => AttachOK(a)'
  BY <1>1, <1>3, <1>4, <1>6, NoneIsNothing DEF AttachOK, Carded, Status, Settled
<1>12. ASSUME NEW u \in Threads \ {t}, NEW v \in {Job(u)}, v.pc \in Working, v.a = a
       PROVE  WorkerOK(v)' /\ SoleOK(v)'
  <2>1. WorkerOK(v) /\ ~Single(a)
    BY <1>12, OfferedFacts DEF CancelChatAction
  <2> QED
    BY <1>4, <1>12, <2>1 DEF WorkerOK, SoleOK, Single, Answerable
<1>13. JobOK(Idle)'
  BY IdleIs DEF JobOK, Working
<1> QED
  BY <1>8, <1>9, <1>10, <1>11, <1>12, <1>13, IdleIs, CardStepInv

LEMMA AttachInv ==
  ASSUME Inv, NEW t \in Threads, Attach(t), UNCHANGED <<kind, deleted>>
  PROVE  Inv'
<1>1. TypeInv
  BY DEF Inv
<1>2. Job(t) = th[t] /\ th[t] \in Jobs /\ th[t].pc = "attach"
  BY <1>1, ThreadTyped DEF Attach
<1>3. PICK a \in Actions : a = th[t].a
  BY <1>2, JobFacts
<1>4. PICK x \in {Job(t)} : x.pc = "attach" /\ x.a = a
  BY <1>2, <1>3
<1>5. AttachOK(a) /\ CardOK(a) /\ KeptOK(a) /\ x # Idle
  BY <1>4, IdleIs, JobFacts DEF Inv
<1>6. /\ kind[a] # None /\ act[a] = None /\ run[a] = None /\ live[a] \in Status
      /\ a \notin deleted => db.act[a] = None
  <2>1. live[a] # None /\ live[a] # "message" /\ act[a] = None /\ kind[a] # None
    BY <1>5 DEF AttachOK, CardOK
  <2> QED
    BY <1>1, <1>5, <2>1, Typed DEF CardOK, KeptOK
<1>7. UNCHANGED <<kind, live, cached, run, kept, tasks, db, lock, begun, deleted, restarts>>
  BY DEF Attach
<1>8. JobOK(Idle)' /\ Leads(a, Idle)
  BY IdleIs DEF JobOK, Working, Leads
<1>9. CASE a \notin kept
  <2>1. act' = act /\ Goes(t, Idle)
    BY <1>3, <1>9 DEF Attach
  <2>2. Moves(t, Idle)
    BY <1>1, <2>1, IdleIs, StepMoves
  <2>3. CardStep(t, a, Idle)
    BY <1>1, <1>7, <2>1, <2>2 DEF CardStep, TypeInv
  <2>4. CardOK(a)' /\ KeptOK(a)' /\ AttachOK(a)'
    BY <1>5, <1>7, <2>1
       DEF CardOK, KeptOK, AttachOK, Agree, NamesStep, Taskless, Follows, BothAnswerable, Answerable
  <2>5. ASSUME NEW u \in Threads \ {t}, NEW v \in {Job(u)}, v.pc \in Working, v.a = a
        PROVE  WorkerOK(v)' /\ SoleOK(v)'
    <3>1. WorkerOK(v) /\ SoleOK(v)
      BY <2>5, JobFacts
    <3> QED
      BY <1>7, <2>1, <3>1 DEF WorkerOK, SoleOK, Single, Open, Answerable
  <2> QED
    BY <1>8, <2>3, <2>4, <2>5, IdleIs, CardStepInv
<1>10. CASE a \in kept
  <2>1. PICK c : c = LiveCopy(a)
    OBVIOUS
  <2>2. act' = [act EXCEPT ![a] = c] /\ Goes(t, Sync(Idle))
    BY <1>3, <1>10, <2>1 DEF Attach
  <2>3. /\ c \in ActType /\ c.status = live[a] /\ c # None
        /\ c.task = (IF a \in cached THEN Len(tasks[a]) ELSE 0)
    <3>1. Len(tasks[a]) \in 0..MaxTasks /\ 0 \in 0..MaxTasks
      BY <1>1, Typed, TasksTyped, Bounds
    <3>2. c \in ActType /\ c.status = live[a] /\ c.task = (IF a \in cached THEN Len(tasks[a]) ELSE 0)
      BY <1>6, <2>1, <3>1 DEF ActType, LiveCopy
    <3> QED
      BY <3>2, NoneIsNothing
  <2>4. act' \in Cards /\ act'[a] = c /\ \A b \in Actions \ {a} : act'[b] = act[b]
    BY <1>1, <2>2, <2>3 DEF TypeInv, Cards
  <2>5. Moves(t, Idle)
    BY <1>1, <1>7, <2>2, IdleIs, SyncMoves DEF TypeInv
  <2>6. TypeInv'
    BY <1>1, <1>7, <2>4, <2>5 DEF TypeInv, Moves
  <2>7. Near(t, a)
    <3>1. Len(tasks[a]) \in Nat
      BY <1>1, Typed, TasksTyped
    <3> QED
      BY <1>7, <2>4, <2>5, <3>1 DEF Near, Moves
  <2>8. CardOK(a)'
    BY <1>5, <1>6, <1>7, <2>3, <2>4, NoneIsNothing
       DEF CardOK, AttachOK, BothAnswerable, Answerable, Status
  <2>9. KeptOK(a)'
    <3>1. Agree(c, None) /\ NamesStep(kind[a], c, None) /\ Taskless(c)
      BY <1>5, <2>3 DEF Agree, NamesStep, Taskless, AttachOK
    <3>2. live[a] = "pending" => c.status = "pending"
      BY <2>3
    <3> QED
      BY <1>5, <1>6, <1>7, <2>4, <3>1, <3>2, KeptNext
  <2>10. ASSUME NEW u \in Threads \ {t}, NEW v \in {Job(u)}, v # Idle, v.a = a
         PROVE  JobOK(v)'
    <3>1. v \in Jobs /\ JobOK(v)
      BY <2>10, JobFacts
    <3>2. v.pc # "attach"
      <4>1. Distinct(x, v)
        BY <1>5, <2>10 DEF Inv
      <4> QED
        BY <1>4, <2>10, <4>1 DEF Distinct
    <3>3. v.pc \in Working => WorkerOK(v)' /\ SoleOK(v)'
      <4>1. SUFFICES ASSUME v.pc \in Working PROVE WorkerOK(v)' /\ SoleOK(v)'
        OBVIOUS
      <4>2. WorkerOK(v) /\ SoleOK(v)
        BY <3>1, <4>1 DEF JobOK
      <4>3. WorkerOK(v)'
        BY <1>7, <4>2 DEF WorkerOK, Answerable
      <4>4. Single(a) => live[a] = "executing"
        BY <1>6, <2>10, <4>2, NoneIsNothing DEF SoleOK, Status, Settled
      <4>5. SoleOK(v)'
        BY <1>7, <2>3, <2>4, <2>10, <4>2, <4>4 DEF SoleOK, Single, Open
      <4> QED
        BY <4>3, <4>5
    <3>4. v.pc \in {"resume", "note"} => DecisionOK(v)'
      BY <1>7, <3>1 DEF JobOK, DecisionOK
    <3> QED
      BY <3>2, <3>3, <3>4 DEF JobOK
  <2> QED
    BY <1>8, <2>5, <2>6, <2>7, <2>8, <2>9, <2>10, IdleIs, NearInv
<1> QED
  BY <1>9, <1>10

\* What is known of the task that thread t has a decision of.
LEMMA NoteFacts ==
  ASSUME Inv, NEW t \in Threads, th[t].pc = "note"
  PROVE  /\ TypeInv /\ Job(t) = th[t] /\ th[t].a \in Actions /\ th[t].v \in {"approved", "rejected"}
         /\ th[t].task \in 1..Len(tasks[th[t].a]) /\ th[t].task # 0
         /\ tasks[th[t].a][th[t].task].status \in TaskFinal
         /\ CardOK(th[t].a) /\ KeptOK(th[t].a)
<1>1. TypeInv
  BY DEF Inv
<1>2. Job(t) = th[t] /\ th[t] \in Jobs
  BY <1>1, ThreadTyped
<1>3. DecisionOK(th[t]) /\ th[t].a \in Actions /\ th[t].v \in {"approved", "rejected"}
  BY <1>2, JobFacts, JobTyped
<1>4. DOMAIN tasks[th[t].a] = 1..Len(tasks[th[t].a])
  BY <1>1, <1>3, Typed, TasksTyped
<1>5. th[t].task \in 1..Len(tasks[th[t].a]) /\ tasks[th[t].a][th[t].task].status \in TaskFinal
  BY <1>3, <1>4 DEF DecisionOK
<1>6. CardOK(th[t].a) /\ KeptOK(th[t].a)
  BY <1>3 DEF Inv
<1> QED
  BY <1>1, <1>2, <1>3, <1>5, <1>6

\* A decision that changes no record.
LEMMA UnnotedInv ==
  ASSUME Inv, NEW t \in Threads, NEW a \in Actions, Ends(t),
         UNCHANGED <<kind, live, cached, act, run, kept, tasks, db, begun, deleted, restarts>>
  PROVE  Inv'
<1>1. TypeInv /\ CardOK(a) /\ KeptOK(a)
  BY DEF Inv
<1>2. Moves(t, Idle) /\ lock' \in Threads \cup {None}
  BY <1>1, EndMoves DEF TypeInv
<1>3. CardStep(t, a, Idle) /\ Leads(a, Idle)
  BY <1>1, <1>2 DEF CardStep, TypeInv, Leads
<1>4. CardOK(a)' /\ KeptOK(a)' /\ (AttachOK(a) => AttachOK(a)')
  BY <1>1 DEF CardOK, KeptOK, AttachOK, Agree, NamesStep, Taskless, Follows, BothAnswerable, Answerable
<1>5. ASSUME NEW u \in Threads \ {t}, NEW v \in {Job(u)}, v.pc \in Working, v.a = a
      PROVE  WorkerOK(v)' /\ SoleOK(v)'
  <2>1. WorkerOK(v) /\ SoleOK(v)
    BY <1>5, JobFacts
  <2> QED
    BY <2>1 DEF WorkerOK, SoleOK, Single, Open, Answerable
<1>6. JobOK(Idle)'
  BY IdleIs DEF JobOK, Working
<1> QED
  BY <1>3, <1>4, <1>5, <1>6, IdleIs, CardStepInv

LEMMA NoteOnCardInv ==
  ASSUME Inv, NEW t \in Threads, NoteOnCard(t), UNCHANGED <<kind, deleted>>
  PROVE  Inv'
<1>1. th[t].pc = "note"
  BY DEF NoteOnCard, Noting
<1>2. PICK a \in Actions, k \in 1..Len(tasks[th[t].a]) : a = th[t].a /\ k = th[t].task /\ k # 0
  BY <1>1, NoteFacts
<1>3. /\ TypeInv /\ Job(t) = th[t] /\ th[t].v \in {"approved", "rejected"}
      /\ tasks[a][k].status \in TaskFinal /\ CardOK(a) /\ KeptOK(a)
  BY <1>1, <1>2, NoteFacts
<1>4. UNCHANGED <<kind, live, cached, run, kept, tasks, db, begun, deleted, restarts>>
  BY DEF NoteOnCard, Noting
<1>5. CASE Ends(t) /\ UNCHANGED act
  BY <1>4, <1>5, UnnotedInv
<1>6. CASE /\ Carded(a) /\ act[a].task = k /\ act[a].status \notin Settled
           /\ act' = [act EXCEPT ![a].status = DecidedStatus(a, k, th[t].v)]
           /\ EndsWithSync(t)
  <2>1. PICK s \in Settled : s = DecidedStatus(a, k, th[t].v)
    BY <1>3 DEF DecidedStatus, Settled, TaskFinal
  <2>2. act[a] # None /\ act[a] \in ActType /\ a \in kept
    BY <1>3, <1>6, Typed DEF Carded
  <2> DEFINE card == [status |-> s, task |-> act[a].task]
  <2>3. /\ card \in ActType /\ card.status = s /\ card # None
        /\ [act[a] EXCEPT !.status = s] = card
    <3>1. card \in ActType /\ card.status = s /\ [act[a] EXCEPT !.status = s] = card
      BY <2>2 DEF ActType, Status
    <3> QED
      BY <3>1, NoneIsNothing
  <2> HIDE DEF card
  <2>4. act' \in Cards /\ act'[a] = card /\ \A b \in Actions \ {a} : act'[b] = act[b]
    <3>1. act' = [act EXCEPT ![a] = card]
      BY <1>6, <2>1, <2>3
    <3> QED
      BY <1>3, <2>3, <3>1 DEF TypeInv, Cards
  <2>5. Moves(t, Idle) /\ lock' \in Threads \cup {None}
    BY <1>3, <1>4, <1>6, EndMoves DEF TypeInv
  <2>6. CardStep(t, a, Idle) /\ Leads(a, Idle)
    BY <1>3, <1>4, <2>4, <2>5 DEF CardStep, TypeInv, Leads
  <2>7. CardOK(a)'
    BY <1>3, <1>4, <2>2, <2>3, <2>4 DEF CardOK, BothAnswerable, Answerable, Settled
  <2>8. a \notin deleted => act[a].status = "waiting_approval" /\ run[a] = None /\ kind[a] # "agent"
    <3>1. SUFFICES ASSUME a \notin deleted
                   PROVE  act[a].status = "waiting_approval" /\ run[a] = None /\ kind[a] # "agent"
      OBVIOUS
    <3>2. act[a].status = "waiting_approval"
      BY <1>2, <1>3, <1>6, <2>2, <3>1 DEF KeptOK, Taskless, ActType, Status
    <3>3. kind[a] # "agent"
      <4>1. SUFFICES ASSUME kind[a] = "agent" PROVE FALSE
        OBVIOUS
      <4>2. /\ run[a] # None /\ Len(run[a].steps) # 0
            /\ run[a].steps[Len(run[a].steps)].task = act[a].task
        BY <1>3, <2>2, <3>1, <3>2, <4>1 DEF KeptOK, NamesStep
      <4>3. Len(run[a].steps) \in 1..LastStep(a)
        BY <1>3, <4>2, Typed, StepsTyped DEF LastStep
      <4>4. Len(run[a].steps) \in StepOf(a, k)
        BY <1>6, <2>2, <4>2, <4>3 DEF StepOf
      <4>5. StepOf(a, k) = {}
        BY <1>2 DEF NoteOnCard
      <4> QED
        BY <4>4, <4>5
    <3> QED
      BY <1>3, <3>2, <3>3 DEF CardOK
  <2>9. KeptOK(a)'
    <3>1. CASE a \in deleted
      BY <1>4, <3>1 DEF KeptOK
    <3>2. CASE a \notin deleted
      <4>1. Agree(card, None) /\ NamesStep(kind[a], card, None) /\ Taskless(card)
        BY <2>3, <2>8, <3>2 DEF Agree, NamesStep, Taskless, Settled
      <4>2. live[a] # "pending"
        BY <1>3, <2>2, <2>8, <3>2 DEF KeptOK
      <4>3. db.act[a] # None => card.status \in {db.act[a].status} \cup Follows(db.act[a].status)
        <5>1. db.act[a] # None => db.act[a].status \in Status
          BY <1>3, Typed, CardTyped
        <5> QED
          BY <1>3, <2>3, <2>8, <3>2, <5>1 DEF KeptOK, Follows, Status, Settled
      <4>4. PICK c \in {card} : TRUE
        OBVIOUS
      <4> QED
        BY <1>3, <1>4, <2>3, <2>4, <2>8, <3>2, <4>1, <4>2, <4>3, <4>4, KeptNext
    <3> QED
      BY <3>1, <3>2
  <2>10. AttachOK(a) => AttachOK(a)'
    BY <2>2 DEF AttachOK
  <2>11. ASSUME NEW u \in Threads \ {t}, NEW v \in {Job(u)}, v.pc \in Working, v.a = a
         PROVE  WorkerOK(v)' /\ SoleOK(v)'
    <3>1. WorkerOK(v) /\ SoleOK(v)
      BY <2>11, JobFacts
    <3>2. Single(a) => a \in deleted
      BY <2>2, <2>8, <2>11, <3>1 DEF SoleOK, Open
    <3> QED
      BY <1>4, <2>11, <3>1, <3>2 DEF WorkerOK, SoleOK, Single, Answerable
  <2>12. JobOK(Idle)'
    BY IdleIs DEF JobOK, Working
  <2> QED
    BY <2>6, <2>7, <2>9, <2>10, <2>11, <2>12, IdleIs, CardStepInv
<1> QED
  BY <1>2, <1>5, <1>6 DEF NoteOnCard

\* A decision that changes the run: i is the step, s its status, r that of the run,
\* c the new card and w what the thread goes on with.
LEMMA NotedInv ==
  ASSUME Inv, NEW t \in Threads, NEW a \in Actions, NEW i, i \in 1..LastStep(a), run[a] # None,
         run[a].status \notin Settled, run[a].steps[i].status = "waiting_approval",
         NEW s \in Settled, NEW r \in Settled \cup {"running"}, NEW c \in ActType,
         NEW w \in Jobs,
         run' = [run EXCEPT ![a] = [status |-> r, steps |-> [@.steps EXCEPT ![i].status = s]]],
         act' = [act EXCEPT ![a] = c],
         IF r = "running"
         THEN /\ c = [status |-> "executing", task |-> 0] /\ w = At("model", a, "decide")
              /\ live' = [live EXCEPT ![a] = "message"] /\ cached' = cached \ {a}
         ELSE c.status = r /\ w = Idle /\ UNCHANGED live /\ cached' = cached \cup {a},
         UNCHANGED <<kind, kept, tasks, db, begun, deleted, restarts>>,
         Moves(t, w), lock' \in Threads \cup {None}
  PROVE  Inv'
<1>1. TypeInv /\ CardOK(a) /\ KeptOK(a)
  BY DEF Inv
<1>2. /\ kind[a] = "agent" /\ act[a] # None /\ act[a] \in {None} \cup ActType
      /\ run[a] \in RunRecords /\ run[a].steps \in Seq(StepType) /\ Len(run[a].steps) \in Nat
      /\ Len(run[a].steps) <= MaxSteps /\ DOMAIN run[a].steps = 1..Len(run[a].steps)
      /\ run[a].status \in {"running", "waiting_approval"} \cup Settled
  BY <1>1, Typed, StepsTyped DEF CardOK
<1>3. a \notin deleted =>
        /\ run[a].status = "waiting_approval" /\ act[a].status = "waiting_approval"
        /\ i = Len(run[a].steps) /\ live[a] # "pending"
        /\ \A j \in 1..Len(run[a].steps) : j # i => run[a].steps[j].status # "waiting_approval"
        /\ db.act[a] # None => db.act[a].status \in {"pending", "executing", "waiting_approval"}
  <2>1. SUFFICES ASSUME a \notin deleted
                 PROVE  /\ run[a].status = "waiting_approval" /\ act[a].status = "waiting_approval"
                        /\ i = Len(run[a].steps) /\ live[a] # "pending"
                        /\ \A j \in 1..Len(run[a].steps) :
                             j # i => run[a].steps[j].status # "waiting_approval"
                        /\ db.act[a] # None =>
                             db.act[a].status \in {"pending", "executing", "waiting_approval"}
    OBVIOUS
  <2> DEFINE waits == {j \in 1..Len(run[a].steps) : run[a].steps[j].status = "waiting_approval"}
  <2>2. i \in waits
    BY DEF LastStep
  <2>3. /\ run[a].status = "waiting_approval" /\ act[a].status = "waiting_approval"
        /\ waits \subseteq {Len(run[a].steps)}
    BY <1>1, <2>1, <2>2 DEF KeptOK, Agree
  <2>4. live[a] # "pending"
    BY <1>1, <1>2, <2>1, <2>3 DEF KeptOK
  <2>5. db.act[a] # None => db.act[a].status \in {"pending", "executing", "waiting_approval"}
    <3>1. db.act[a] # None => "waiting_approval" \in {db.act[a].status} \cup Follows(db.act[a].status)
      BY <1>1, <2>1, <2>3 DEF KeptOK
    <3>2. db.act[a] # None => db.act[a].status \in Status
      BY <1>1, Typed, CardTyped
    <3> QED
      BY <3>1, <3>2 DEF Follows, Status, Settled
  <2> QED
    BY <2>2, <2>3, <2>4, <2>5
<1>4. PICK q \in StepSeqs : q = [run[a].steps EXCEPT ![i].status = s]
  <2>1. run[a].steps[i] \in StepType
    BY <1>2 DEF LastStep
  <2>2. [run[a].steps[i] EXCEPT !.status = s] \in StepType
    BY <2>1 DEF StepType, Settled
  <2>3. PICK p \in StepType : p = [run[a].steps[i] EXCEPT !.status = s]
    BY <2>2
  <2>4. PICK old \in Seq(StepType) : old = run[a].steps /\ Len(old) <= MaxSteps
    BY <1>2
  <2>5. [old EXCEPT ![i] = p] \in StepSeqs
    BY <2>4 DEF StepSeqs, LastStep
  <2> QED
    BY <2>3, <2>4, <2>5
<1>5. /\ Len(q) = Len(run[a].steps) /\ Len(q) # 0
      /\ \A j \in 1..Len(q) : q[j].status = IF j = i THEN s ELSE run[a].steps[j].status
  <2>1. run[a].steps[i] \in StepType
    BY <1>2 DEF LastStep
  <2>2. [run[a].steps[i] EXCEPT !.status = s].status = s
    BY <2>1 DEF StepType
  <2>3. PICK p : p = [run[a].steps[i] EXCEPT !.status = s]
    OBVIOUS
  <2>4. q = [run[a].steps EXCEPT ![i] = p]
    BY <1>4, <2>3
  <2> QED
    BY <1>2, <2>2, <2>3, <2>4 DEF LastStep
<1>6. a \notin deleted => \A j \in 1..Len(q) : q[j].status # "waiting_approval"
  BY <1>3, <1>5 DEF Settled
<1> DEFINE ran == [status |-> r, steps |-> q]
<1>7. ran \in RunRecords /\ ran.status = r /\ ran.steps = q /\ ran # None /\ c # None
  <2>1. ran \in RunRecords
    BY <1>4 DEF RunRecords
  <2> QED
    BY <2>1, NoneIsNothing
<1>8. run' = [run EXCEPT ![a] = ran]
  BY <1>4
<1> HIDE DEF ran
<1>9. /\ run' \in Runs /\ run'[a] = ran /\ act' \in Cards /\ act'[a] = c
      /\ \A b \in Actions \ {a} : act'[b] = act[b] /\ run'[b] = run[b]
  BY <1>1, <1>7, <1>8 DEF TypeInv, Cards, Runs
<1>10. /\ live' \in [Actions -> {None, "message"} \cup Status] /\ cached' \subseteq Actions
       /\ live'[a] = (IF r = "running" THEN "message" ELSE live[a])
       /\ a \in cached' <=> r # "running"
       /\ \A b \in Actions \ {a} : live'[b] = live[b] /\ (b \in cached' <=> b \in cached)
  BY <1>1 DEF TypeInv
<1>11. r # "running" => r \in Settled /\ c.status = r
  OBVIOUS
<1>12. r = "running" => c.status = "executing" /\ c.task = 0
  OBVIOUS
<1>13. CardStep(t, a, w)
  BY <1>1, <1>9, <1>10 DEF CardStep, TypeInv
<1>14. r = "running" => w \in AtJobs /\ w.pc = "model" /\ w.a = a /\ w.via = "decide"
  BY DEF At, AtJobs, Stages
<1>15. Leads(a, w)
  BY <1>14 DEF Leads
<1>16. CardOK(a)'
  BY <1>1, <1>2, <1>7, <1>9, <1>10, <1>11, <1>12
     DEF CardOK, BothAnswerable, Answerable, Settled
<1>17. KeptOK(a)'
  <2>1. CASE a \in deleted
    BY <2>1 DEF KeptOK
  <2>2. CASE a \notin deleted
    <3>1. Agree(c, ran)
      BY <1>5, <1>6, <1>7, <1>11, <1>12, <2>2, AgreeRunning DEF Settled
    <3>2. NamesStep(kind[a], c, ran) /\ Taskless(c)
      BY <1>11, <1>12 DEF NamesStep, Taskless, Settled
    <3>3. a \in cached' => ran.status \in Settled
      BY <1>7, <1>10, <1>11
    <3>4. live'[a] # "pending"
      BY <1>3, <1>10, <2>2
    <3>5. db.act[a] # None => c.status \in {db.act[a].status} \cup Follows(db.act[a].status)
      BY <1>3, <1>11, <1>12, <2>2 DEF Follows, Settled
    <3>6. PICK x \in {ran} : TRUE
      OBVIOUS
    <3> QED
      BY <1>1, <1>7, <1>9, <2>2, <3>1, <3>2, <3>3, <3>4, <3>5, <3>6, KeptNext
  <2> QED
    BY <2>1, <2>2
<1>18. AttachOK(a) => AttachOK(a)'
  BY <1>2 DEF AttachOK
<1>19. ASSUME NEW u \in Threads \ {t}, NEW v \in {Job(u)}, v.pc \in Working, v.a = a
       PROVE  WorkerOK(v)' /\ SoleOK(v)' /\ ~Single(a)
  <2>1. WorkerOK(v) /\ SoleOK(v)
    BY <1>19, JobFacts
  <2>2. ~Single(a)
    BY <1>2, <1>3, <1>19, <2>1 DEF SoleOK, Single
  <2>3. WorkerOK(v)'
    BY <1>5, <1>7, <1>9, <1>19, <2>1 DEF WorkerOK, Answerable
  <2>4. SoleOK(v)'
    BY <1>19, <2>2 DEF SoleOK, Single
  <2> QED
    BY <2>2, <2>3, <2>4
<1>20. JobOK(w)'
  <2>1. CASE r # "running"
    BY <2>1, IdleIs DEF JobOK, Working
  <2>2. CASE r = "running"
    <3>1. WorkerOK(w)'
      <4>1. kind'[w.a] = "agent" /\ run'[w.a] # None
        BY <1>2, <1>7, <1>9, <1>14, <2>2
      <4>2. kind'[w.a] # None
        BY <4>1, NoneIsNothing DEF Kinds
      <4> QED
        BY <1>14, <2>2, <4>1, <4>2 DEF WorkerOK
    <3>2. SoleOK(w)'
      BY <1>7, <1>9, <1>10, <1>12, <1>14, <2>2 DEF SoleOK, Open
    <3> QED
      BY <1>14, <2>2, <3>1, <3>2 DEF JobOK
  <2> QED
    BY <2>1, <2>2
<1> QED
  BY <1>13, <1>15, <1>16, <1>17, <1>18, <1>19, <1>20, CardStepInv

LEMMA NoteOnRunInv ==
  ASSUME Inv, NEW t \in Threads, NoteOnRun(t), UNCHANGED <<kind, deleted>>
  PROVE  Inv'
<1>1. th[t].pc = "note"
  BY DEF NoteOnRun, Noting
<1>2. PICK a \in Actions : a = th[t].a
  BY <1>1, NoteFacts
<1>3. TypeInv /\ CardOK(a)
  BY <1>1, <1>2, NoteFacts
<1>4. UNCHANGED <<kind, kept, tasks, db, begun, deleted, restarts>>
  BY DEF NoteOnRun, Noting
<1>5. run[a] # None /\ StepOf(a, th[t].task) # {} /\ StepOf(a, th[t].task) \subseteq 1..LastStep(a)
  BY <1>2 DEF NoteOnRun, StepOf
<1>6. PICK i \in 1..LastStep(a) : i = CHOOSE j \in StepOf(a, th[t].task) : TRUE
  BY <1>5
<1>7. act[a] # None /\ act[a] \in ActType
  BY <1>3, <1>5, Typed DEF CardOK
<1> DEFINE With(s, r) ==
             run' = [run EXCEPT ![a] = [status |-> r, steps |-> [@.steps EXCEPT ![i].status = s]]]
           Waits == run[a].status \notin Settled /\ run[a].steps[i].status = "waiting_approval"
<1>8. \/ Ends(t) /\ UNCHANGED <<live, cached, act, run>>
      \/ Waits /\ \E s \in {"cancelled", "failed"} :
           /\ With(s, s) /\ act' = [act EXCEPT ![a].status = s] /\ cached' = cached \cup {a}
           /\ UNCHANGED live /\ EndsWithSync(t)
      \/ /\ Waits /\ With("completed", "running")
         /\ act' = [act EXCEPT ![a] = [status |-> "executing", task |-> 0]]
         /\ live' = [live EXCEPT ![a] = "message"] /\ cached' = cached \ {a}
         /\ UNCHANGED lock /\ Goes(t, Sync(At("model", a, "decide")))
  BY <1>2, <1>6 DEF NoteOnRun, CancelledCard
<1>9. CASE Ends(t) /\ UNCHANGED <<live, cached, act, run>>
  BY <1>4, <1>9, UnnotedInv
<1>10. CASE Waits /\ \E s \in {"cancelled", "failed"} :
              /\ With(s, s) /\ act' = [act EXCEPT ![a].status = s] /\ cached' = cached \cup {a}
              /\ UNCHANGED live /\ EndsWithSync(t)
  <2>1. PICK s \in {"cancelled", "failed"} :
          /\ With(s, s) /\ act' = [act EXCEPT ![a].status = s] /\ cached' = cached \cup {a}
          /\ UNCHANGED live /\ EndsWithSync(t)
    BY <1>10
  <2>2. PICK c \in ActType : c = [act[a] EXCEPT !.status = s] /\ c.status = s
    <3>1. [act[a] EXCEPT !.status = s] \in ActType /\ [act[a] EXCEPT !.status = s].status = s
      BY <1>7 DEF ActType, Status, Settled
    <3> QED
      BY <3>1
  <2>3. act' = [act EXCEPT ![a] = c]
    BY <2>1, <2>2
  <2>4. Moves(t, Idle) /\ lock' \in Threads \cup {None}
    BY <1>3, <1>4, <2>1, EndMoves DEF TypeInv
  <2>5. s \in Settled /\ s \in Settled \cup {"running"} /\ s # "running"
    BY DEF Settled
  <2>6. /\ c.status = s /\ UNCHANGED live /\ cached' = cached \cup {a} /\ Waits
        /\ run' = [run EXCEPT ![a] = [status |-> s, steps |-> [@.steps EXCEPT ![i].status = s]]]
    BY <1>10, <2>1, <2>2
  <2> HIDE DEF Waits, With
  <2>7. run[a].status \notin Settled /\ run[a].steps[i].status = "waiting_approval"
    BY <1>10 DEF Waits
  <2> QED
    BY <1>4, <1>5, <2>3, <2>4, <2>5, <2>6, <2>7, IdleIs, NotedInv
<1>11. CASE /\ Waits /\ With("completed", "running")
            /\ act' = [act EXCEPT ![a] = [status |-> "executing", task |-> 0]]
            /\ live' = [live EXCEPT ![a] = "message"] /\ cached' = cached \ {a}
            /\ UNCHANGED lock /\ Goes(t, Sync(At("model", a, "decide")))
  <2>1. PICK c \in ActType : c = [status |-> "executing", task |-> 0]
    <3>1. [status |-> "executing", task |-> 0] \in ActType
      BY Bounds DEF ActType, Status
    <3> QED
      BY <3>1
  <2>2. PICK w \in Jobs : w = At("model", a, "decide")
    BY DEF At, Jobs, AtJobs, Stages
  <2>3. Moves(t, w) /\ lock' \in Threads \cup {None}
    BY <1>3, <1>4, <1>11, <2>2, SyncMoves DEF TypeInv
  <2>4. act' = [act EXCEPT ![a] = c]
    BY <1>11, <2>1
  <2>5. PICK r \in Settled \cup {"running"}, s \in Settled : r = "running" /\ s = "completed"
    BY DEF Settled
  <2>6. run' = [run EXCEPT ![a] = [status |-> r, steps |-> [@.steps EXCEPT ![i].status = s]]]
    BY <1>11, <2>5
  <2>7. IF r = "running"
        THEN /\ c = [status |-> "executing", task |-> 0] /\ w = At("model", a, "decide")
             /\ live' = [live EXCEPT ![a] = "message"] /\ cached' = cached \ {a}
        ELSE c.status = r /\ w = Idle /\ UNCHANGED live /\ cached' = cached \cup {a}
    BY <1>11, <2>1, <2>2, <2>5
  <2>8. run[a].status \notin Settled /\ run[a].steps[i].status = "waiting_approval"
    BY <1>11
  <2> QED
    BY <1>4, <1>5, <2>3, <2>4, <2>6, <2>7, <2>8, NotedInv
<1> QED
  BY <1>8, <1>9, <1>10, <1>11

-----------------------------------------------------------------------------
(* Proposals and deletions                                                 *)

LEMMA ProposeInv ==
  ASSUME Inv, NEW t \in Threads, NEW a \in Actions, Propose(t, a), UNCHANGED deleted
  PROVE  Inv'
<1>1. TypeInv /\ CardOK(a) /\ KeptOK(a)
  BY DEF Inv
<1>2. /\ kind[a] = None /\ live[a] = None /\ act[a] = None /\ run[a] = None /\ a \notin cached
      /\ db.act[a] = None /\ db.run[a] = None /\ begun[a] = 0 /\ restarts \in Nat
  BY <1>1, Typed DEF Propose, CardOK
<1>3. PICK k \in Kinds : kind' = [kind EXCEPT ![a] = k]
  BY DEF Propose
<1>4. /\ kind'[a] = k /\ k # None /\ kind' \in [Actions -> {None} \cup Kinds]
      /\ live'[a] = "pending" /\ live' \in [Actions -> {None, "message"} \cup Status]
      /\ \A b \in Actions \ {a} : kind'[b] = kind[b] /\ live'[b] = live[b]
  BY <1>1, <1>3, NoneIsNothing DEF Propose, TypeInv, Status
<1>5. PICK w \in Jobs : /\ w = Idle \/ w = At("attach", a, "send")
                        /\ Goes(t, Sync(w))
  <2>1. At("attach", a, "send") \in Jobs
    BY DEF At, Jobs, AtJobs, Stages
  <2> QED
    BY <2>1, IdleIs DEF Propose
<1>6. w # Idle => w \in AtJobs /\ w.pc = "attach" /\ w.a = a
  BY <1>5 DEF At, AtJobs, Stages
<1>7. UNCHANGED <<cached, act, run, kept, tasks, db, lock, begun, deleted, restarts>>
  BY DEF Propose
<1>8. Moves(t, w)
  BY <1>1, <1>5, <1>7, SyncMoves DEF TypeInv
<1>9. TypeInv'
  BY <1>1, <1>4, <1>7, <1>8 DEF TypeInv, Moves
<1>10. Near(t, a)
  <2>1. Len(tasks[a]) \in Nat
    BY <1>1, Typed, TasksTyped
  <2> QED
    BY <1>2, <1>4, <1>7, <1>8, <2>1 DEF Near, Moves
<1>11. CardOK(a)'
  BY <1>1, <1>2, <1>4, <1>7, NoneIsNothing DEF CardOK
<1>12. KeptOK(a)'
  BY <1>1, <1>2, <1>4, <1>7 DEF KeptOK, Agree, NamesStep, Taskless
<1>13. JobOK(w)'
  <2>1. CASE w = Idle
    BY <2>1, IdleIs DEF JobOK, Working
  <2>2. CASE w # Idle
    <3>1. AttachOK(w.a)'
      BY <1>2, <1>4, <1>6, <1>7, <2>2, NoneIsNothing DEF AttachOK, Status
    <3> QED
      BY <1>6, <2>2, <3>1 DEF JobOK, Working
  <2> QED
    BY <2>1, <2>2
<1>14. ASSUME NEW u \in Threads \ {t}, NEW v \in {Job(u)}, v # Idle, v.a = a
       PROVE  JobOK(v)' /\ (w # Idle => Distinct(w, v)')
  <2>1. v.pc \notin Working \cup {"attach"}
    BY <1>2, <1>14, JobFacts DEF WorkerOK, AttachOK
  <2>2. v.pc \in {"resume", "note"} => DecisionOK(v)'
    BY <1>7, <1>14, JobFacts DEF DecisionOK
  <2> QED
    BY <2>1, <2>2 DEF JobOK, Distinct, Working
<1>15. (w # Idle => w.a = a) /\ w.pc # "back"
  BY <1>6, IdleIs
<1> QED
  BY <1>8, <1>9, <1>10, <1>11, <1>12, <1>13, <1>14, <1>15, NearInv

LEMMA DeleteChatSessionInv ==
  ASSUME Inv, NEW t \in Threads, NEW a \in Actions, DeleteChatSession(t, a), UNCHANGED kind
  PROVE  Inv'
<1>1. TypeInv /\ CardOK(a) /\ KeptOK(a)
  BY DEF Inv
<1>2. /\ kept' = kept \ {a} /\ deleted' = deleted \cup {a}
      /\ db' = [db EXCEPT !.kept = db.kept \ {a}]
      /\ UNCHANGED <<kind, live, cached, act, run, tasks, lock, begun, restarts>>
      /\ Goes(t, Sync(Idle))
  BY DEF DeleteChatSession, EndsWithSync
<1>3. /\ db' \in [act : Cards, run : Runs, kept : SUBSET Actions, tasks : Tasks]
      /\ db'.act = db.act /\ db'.run = db.run /\ db'.tasks = db.tasks
      /\ db'.kept = db.kept \ {a}
  BY <1>1, <1>2 DEF TypeInv
<1>4. Moves(t, Idle)
  BY <1>1, <1>2, IdleIs, SyncMoves DEF TypeInv
<1>5. TypeInv'
  BY <1>1, <1>2, <1>3, <1>4 DEF TypeInv, Moves
<1>6. Near(t, a)
  <2>1. Len(tasks[a]) \in Nat
    BY <1>1, Typed, TasksTyped
  <2> QED
    BY <1>2, <1>3, <1>4, <2>1 DEF Near, Moves
<1>7. CardOK(a)'
  BY <1>1, <1>2, <1>3 DEF CardOK, BothAnswerable, Answerable
<1>8. KeptOK(a)'
  BY <1>2 DEF KeptOK
<1>9. ASSUME NEW u \in Threads \ {t}, NEW v \in {Job(u)}, v # Idle, v.a = a
      PROVE  JobOK(v)'
  <2>1. JobOK(v)
    BY <1>9, JobFacts
  <2>2. v.pc = "attach" => AttachOK(v.a)'
    BY <1>2, <1>3, <2>1 DEF JobOK, AttachOK, BothAnswerable, Answerable
  <2>3. v.pc \in Working => WorkerOK(v)'
    BY <1>2, <1>3, <2>1 DEF JobOK, WorkerOK, Answerable
  <2>4. v.pc \in Working => SoleOK(v)'
    BY <1>2, <1>9, <2>1 DEF JobOK, SoleOK, Single
  <2>5. v.pc \in {"resume", "note"} => DecisionOK(v)'
    BY <1>2, <2>1 DEF JobOK, DecisionOK
  <2> QED
    BY <2>2, <2>3, <2>4, <2>5 DEF JobOK
<1>10. JobOK(Idle)'
  BY IdleIs DEF JobOK, Working
<1> QED
  BY <1>4, <1>5, <1>6, <1>7, <1>8, <1>9, <1>10, IdleIs, NearInv

-----------------------------------------------------------------------------
(* Steps that change the tasks of one action                               *)

TaskStep(t, a, w) ==
  /\ UNCHANGED <<kind, live, cached, act, run, kept, db, begun, deleted, restarts>>
  /\ Moves(t, w)
  /\ tasks' \in Tasks /\ lock' \in Threads \cup {None}
  /\ \A b \in Actions \ {a} : tasks'[b] = tasks[b]

\* Tasks are added, and what has been asked for or has ended stays so.
Advances(old, new) ==
  /\ Len(old) <= Len(new)
  /\ \A k \in DOMAIN old :
       /\ k \in DOMAIN new
       /\ Answerable(old, k) => Answerable(new, k)
       /\ old[k].status \in TaskFinal => new[k].status \in TaskFinal

LEMMA TaskStepInv ==
  ASSUME Inv, NEW t \in Threads, NEW a \in Actions, NEW w \in Jobs, TaskStep(t, a, w),
         w # Idle => w.a = a, w.pc # "attach",
         Advances(tasks[a], tasks'[a]), AttachOK(a) => AttachOK(a)', JobOK(w)',
         w.pc = "back" /\ w.out = "waiting_approval" => w.task <= Len(tasks'[a]),
         \A u \in Threads \ {t} : \A v \in {Job(u)} :
           v.pc \in Working /\ v.a = a => WorkerOK(v)' /\ (w # Idle => Distinct(w, v)')
  PROVE  Inv'
<1>1. TypeInv /\ CardOK(a) /\ KeptOK(a)
  BY DEF Inv
<1>2. TypeInv'
  BY <1>1 DEF TypeInv, TaskStep, Moves
<1>3. Near(t, a)
  BY DEF Near, TaskStep, Moves, Advances
<1>4. \A k : BothAnswerable(a, k) => BothAnswerable(a, k)'
  BY DEF BothAnswerable, Advances, TaskStep, Answerable
<1>5. CardOK(a)'
  <2>1. /\ Len(db.tasks[a]) \in Nat /\ Len(tasks[a]) \in Nat
        /\ Len(tasks'[a]) \in Nat
    BY <1>1, Typed, TasksTyped DEF TaskStep, Tasks, TaskSeqs
  <2>2. Len(db.tasks[a]) <= Len(tasks'[a])
    BY <1>1, <2>1 DEF CardOK, Advances
  <2>3. UNCHANGED <<kind, live, cached, act, run, db, begun, restarts>>
    BY DEF TaskStep
  <2> QED
    BY <1>1, <1>4, <2>2, <2>3 DEF CardOK
<1>6. KeptOK(a)'
  BY <1>1 DEF TaskStep, KeptOK, Agree, NamesStep, Taskless, Follows
<1>7. ASSUME NEW u \in Threads \ {t}, NEW v \in {Job(u)}, v # Idle, v.a = a
      PROVE  JobOK(v)' /\ (w # Idle => Distinct(w, v)')
  <2>1. JobOK(v) /\ v \in Jobs
    BY <1>7, JobFacts
  <2>2. v.pc = "attach" => AttachOK(v.a)'
    BY <1>7, <2>1 DEF JobOK
  <2>3. v.pc \in Working => WorkerOK(v)' /\ (w # Idle => Distinct(w, v)')
    BY <1>7
  <2>4. v.pc \in Working => SoleOK(v)'
    BY <2>1 DEF JobOK, SoleOK, Single, Open, TaskStep
  <2>5. v.pc \in {"resume", "note"} => DecisionOK(v)'
    BY <1>7, <2>1 DEF JobOK, DecisionOK, Advances
  <2>6. v.pc \notin Working => Distinct(w, v)'
    BY DEF Distinct, Working
  <2> QED
    BY <2>2, <2>3, <2>4, <2>5, <2>6 DEF JobOK
<1> QED
  BY <1>2, <1>3, <1>5, <1>6, <1>7, NearInv DEF TaskStep

\* One task changes that no other thread works on.
LEMMA TaskSetInv ==
  ASSUME Inv, NEW t \in Threads, NEW a \in Actions, NEW w \in Jobs,
         NEW k \in 1..Len(tasks[a]), NEW p \in TaskType,
         tasks' = [tasks EXCEPT ![a] = [tasks[a] EXCEPT ![k] = p]],
         UNCHANGED <<kind, live, cached, act, run, kept, db, begun, deleted, restarts>>,
         Moves(t, w), lock' \in Threads \cup {None},
         w # Idle => w.a = a, w.pc # "attach",
         Answerable(tasks[a], k) => p.approval # "none" /\ p.status \in {"needs_approval"} \cup TaskFinal,
         tasks[a][k].status \in TaskFinal => p.status \in TaskFinal,
         tasks'[a][k] = p /\ k \in DOMAIN tasks'[a] /\ Len(tasks'[a]) = Len(tasks[a]) => JobOK(w)',
         w.pc = "back" /\ w.out = "waiting_approval" => w.task = k,
         \A u \in Threads \ {t} : \A v \in {Job(u)} :
           v.pc \in Working /\ v.a = a => /\ v.pc = "work" => v.task # k
                                          /\ w # Idle => Distinct(w, v)'
  PROVE  Inv' /\ tasks'[a] \in TaskSeqs
<1>1. TypeInv
  BY DEF Inv
<1>2. /\ tasks[a] \in Seq(TaskType) /\ Len(tasks[a]) \in Nat /\ Len(tasks[a]) <= MaxTasks
      /\ DOMAIN tasks[a] = 1..Len(tasks[a]) /\ tasks \in Tasks
  BY <1>1, Typed, TasksTyped DEF TypeInv
<1>3. PICK q : q = [tasks[a] EXCEPT ![k] = p]
  OBVIOUS
<1>4. /\ q \in TaskSeqs /\ Len(q) = Len(tasks[a]) /\ DOMAIN q = DOMAIN tasks[a] /\ q[k] = p
      /\ \A j \in 1..Len(q) : j # k => q[j] = tasks[a][j]
  BY <1>2, <1>3 DEF TaskSeqs
<1>5. tasks' \in Tasks /\ tasks'[a] = q /\ \A b \in Actions \ {a} : tasks'[b] = tasks[b]
  BY <1>2, <1>3, <1>4 DEF Tasks
<1>6. TaskStep(t, a, w)
  BY <1>5 DEF TaskStep
<1>7. \A j \in DOMAIN tasks[a] : /\ Answerable(tasks[a], j) => Answerable(q, j)
                                 /\ tasks[a][j].status \in TaskFinal => q[j].status \in TaskFinal
  <2>1. SUFFICES ASSUME NEW j \in DOMAIN tasks[a]
                 PROVE  /\ Answerable(tasks[a], j) => Answerable(q, j)
                        /\ tasks[a][j].status \in TaskFinal => q[j].status \in TaskFinal
    OBVIOUS
  <2>2. CASE j = k
    BY <1>4, <2>2 DEF Answerable
  <2>3. CASE j # k
    BY <1>2, <1>4, <2>3 DEF Answerable
  <2> QED
    BY <2>2, <2>3
<1>8. Advances(tasks[a], tasks'[a])
  <2>1. Len(tasks[a]) <= Len(q) /\ \A j \in DOMAIN tasks[a] : j \in DOMAIN q
    BY <1>2, <1>4
  <2>2. Advances(tasks[a], q)
    BY <1>7, <2>1 DEF Advances
  <2> QED
    BY <1>5, <2>2
<1>9. AttachOK(a) => AttachOK(a)'
  <2>1. BothAnswerable(a, Len(tasks[a])) => BothAnswerable(a, Len(tasks[a]))'
    BY <1>4, <1>5, <1>7 DEF BothAnswerable, Answerable
  <2>2. Len(tasks'[a]) = Len(tasks[a])
    BY <1>4, <1>5
  <2> QED
    BY <2>1, <2>2 DEF AttachOK
<1>10. JobOK(w)'
  BY <1>2, <1>4, <1>5
<1>11. ASSUME NEW u \in Threads \ {t}, NEW v \in {Job(u)}, v.pc \in Working, v.a = a
       PROVE  WorkerOK(v)' /\ (w # Idle => Distinct(w, v)')
  <2>1. WorkerOK(v)
    BY <1>11, JobFacts
  <2>2. v.pc = "work" => v.task # k /\ v.task \in 1..Len(q)
    BY <1>2, <1>4, <1>11, <2>1 DEF WorkerOK
  <2>3. v.pc = "work" => tasks'[a][v.task] = tasks[a][v.task] /\ v.task \in DOMAIN tasks'[a]
    BY <1>2, <1>4, <1>5, <2>2
  <2>4. v.pc = "back" /\ v.out = "waiting_approval" => Answerable(q, v.task)
    BY <1>7, <1>11, <2>1 DEF WorkerOK, Answerable
  <2>5. Len(tasks'[a]) = Len(tasks[a]) /\ tasks'[a] = q
    BY <1>4, <1>5
  <2>6. WorkerOK(v)'
    BY <1>11, <2>1, <2>3, <2>4, <2>5 DEF WorkerOK
  <2> QED
    BY <1>11, <2>6
<1>12. w.pc = "back" /\ w.out = "waiting_approval" => w.task <= Len(tasks'[a])
  BY <1>2, <1>4, <1>5
<1> QED
  BY <1>4, <1>5, <1>6, <1>8, <1>9, <1>10, <1>11, <1>12, TaskStepInv

\* A step that leaves the tasks as they are.
LEMMA TasksKept ==
  ASSUME Inv, NEW t \in Threads, NEW a \in Actions, NEW w \in Jobs, UNCHANGED tasks,
         UNCHANGED <<kind, live, cached, act, run, kept, db, begun, deleted, restarts>>,
         Moves(t, w), lock' \in Threads \cup {None},
         w # Idle => w.a = a, w.pc # "attach", JobOK(w)',
         w.pc = "back" => w.out # "waiting_approval",
         \A u \in Threads \ {t} : \A v \in {Job(u)} :
           v.pc \in Working /\ v.a = a => (w # Idle => Distinct(w, v)')
  PROVE  Inv'
<1>1. TypeInv
  BY DEF Inv
<1>2. TaskStep(t, a, w)
  BY <1>1 DEF TaskStep, TypeInv
<1>3. Len(tasks[a]) \in Nat
  BY <1>1, Typed, TasksTyped
<1>4. Advances(tasks[a], tasks[a])
  BY <1>3 DEF Advances
<1>5. Advances(tasks[a], tasks'[a])
  BY <1>4
<1>6. AttachOK(a) => AttachOK(a)'
  BY DEF AttachOK, BothAnswerable, Answerable
<1>7. ASSUME NEW u \in Threads \ {t}, NEW v \in {Job(u)}, v.pc \in Working, v.a = a
      PROVE  WorkerOK(v)' /\ (w # Idle => Distinct(w, v)')
  <2>1. WorkerOK(v)
    BY <1>7, JobFacts
  <2> QED
    BY <1>7, <2>1 DEF WorkerOK, Answerable
<1> QED
  BY <1>2, <1>5, <1>6, <1>7, TaskStepInv

LEMMA CallFacts ==
  ASSUME Inv, NEW t \in Threads, th[t].pc \in {"call", "work"}, NEW a \in Actions, a = th[t].a,
         NEW w \in Jobs, w.pc \in {"work", "back"}, w.a = a, w.via = th[t].via,
         UNCHANGED <<kind, live, cached, act, run, deleted>>,
         WorkerOK(th[t]), SoleOK(th[t])
  PROVE  /\ kind'[a] # None /\ kind[a] # "agent" => w.via = "execute"
         /\ kind[a] = "agent" => run'[a] # None /\ Len(run'[a].steps) # 0
         /\ SoleOK(w)'
         /\ \A u \in Threads \ {t} : \A v \in {Job(u)} :
              v.pc \in Working /\ v.a = a => /\ ~Single(a) /\ ~Single(a)'
                                             /\ v.pc = "work" /\ th[t].pc = "work" =>
                                                  v.task # th[t].task
<1>1. th[t].pc \in Working /\ th[t].pc # "start"
  BY DEF Working
<1>2. TypeInv /\ Job(t) = th[t] /\ th[t] # Idle
  BY <1>1, IdleIs, WorkerFacts
<1>3. kind[a] # None /\ (kind[a] # "agent" => th[t].via = "execute")
  BY DEF WorkerOK
<1>4. kind[a] = "agent" => run'[a] # None /\ Len(run'[a].steps) # 0
  BY <1>1 DEF WorkerOK
<1>5. SoleOK(w)'
  BY <1>1 DEF SoleOK, Single, Open
<1>6. ASSUME NEW u \in Threads \ {t}, NEW v \in {Job(u)}, v.pc \in Working, v.a = a
      PROVE  /\ ~Single(a) /\ ~Single(a)'
             /\ v.pc = "work" /\ th[t].pc = "work" => v.task # th[t].task
  <2>1. PICK x \in {Job(t)} : x = th[t]
    BY <1>2
  <2>2. Distinct(x, v)
    BY <1>2, <1>6, <2>1, IdleIs DEF Inv, Working
  <2>3. ~Single(a)
    BY <1>1, <1>6, <2>1, <2>2 DEF Distinct
  <2>4. v.pc = "work" /\ th[t].pc = "work" => v.task # th[t].task
    BY <1>6, <2>1, <2>2 DEF Distinct
  <2> QED
    BY <2>3, <2>4 DEF Single
<1> QED
  BY <1>3, <1>4, <1>5, <1>6

LEMMA WorkInv ==
  ASSUME Inv, NEW t \in Threads, NEW out \in Outcomes, Work(t, out), UNCHANGED <<kind, deleted>>
  PROVE  Inv'
<1>1. th[t].pc \in Working /\ th[t].pc = "work"
  BY DEF Work, Working
<1>2. PICK a \in Actions : a = th[t].a
  BY <1>1, WorkerFacts
<1>3. /\ TypeInv /\ WorkerOK(th[t]) /\ SoleOK(th[t]) /\ th[t].via \in {"execute", "decide"}
      /\ kind[a] # None
  BY <1>1, <1>2, WorkerFacts
<1>4. /\ th[t].task \in DOMAIN tasks[a] /\ DOMAIN tasks[a] = 1..Len(tasks[a])
      /\ tasks[a][th[t].task] = [status |-> "executing", approval |-> "none"]
      /\ Len(tasks[a]) \in Nat
      /\ kind[a] # "agent" => th[t].task = Len(tasks[a])
  <2>1. DOMAIN tasks[a] = 1..Len(tasks[a]) /\ Len(tasks[a]) \in Nat
    BY <1>3, Typed, TasksTyped
  <2> QED
    BY <1>1, <1>2, <1>3, <2>1 DEF WorkerOK
<1>5. PICK k \in 1..Len(tasks[a]) : k = th[t].task
  BY <1>4
<1>6. PICK p \in TaskType : /\ p = Settles(out)
                            /\ p.status # "executing"
                            /\ out = "waiting_approval" =>
                                 p.status = "needs_approval" /\ p.approval = "pending"
  <2>1. /\ Settles(out) \in TaskType /\ Settles(out).status # "executing"
        /\ out = "waiting_approval" =>
             Settles(out).status = "needs_approval" /\ Settles(out).approval = "pending"
    BY DEF Settles, Outcomes, TaskType, TaskFinal
  <2> QED
    BY <2>1
<1>7. PICK w \in Jobs : w = [pc |-> "back", a |-> a, via |-> th[t].via, task |-> k, out |-> out]
  <2>1. [pc |-> "back", a |-> a, via |-> th[t].via, task |-> k, out |-> out] \in Jobs
    BY <1>3, <1>4, <1>5 DEF Jobs, BackJobs
  <2> QED
    BY <2>1
<1>8. w.pc = "back" /\ w.a = a /\ w.via = th[t].via /\ w.task = k /\ w.out = out /\ w # Idle
  BY <1>7 DEF Idle
<1>9. tasks' = [tasks EXCEPT ![a] = [tasks[a] EXCEPT ![k] = p]]
  BY <1>2, <1>5, <1>6 DEF Work
<1>10. /\ UNCHANGED <<kind, live, cached, act, run, kept, db, lock, begun, deleted, restarts>>
       /\ Goes(t, Sync(w))
  BY <1>2, <1>5, <1>7 DEF Work
<1>11. tasks' \in Tasks
  <2>1. PICK q : q = [tasks[a] EXCEPT ![k] = p]
    OBVIOUS
  <2>2. tasks[a] \in TaskSeqs /\ tasks \in Tasks
    BY <1>3, Typed DEF TypeInv
  <2>3. q \in TaskSeqs
    BY <2>1, <2>2 DEF TaskSeqs
  <2> QED
    BY <1>9, <2>1, <2>2, <2>3 DEF Tasks
<1>12. Moves(t, w) /\ lock' \in Threads \cup {None}
  BY <1>3, <1>10, <1>11, SyncMoves DEF TypeInv
<1>13. ~Answerable(tasks[a], k) /\ tasks[a][k].status \notin TaskFinal
  BY <1>4, <1>5 DEF Answerable, TaskFinal
<1>14. /\ kind'[a] # None /\ (kind[a] # "agent" => w.via = "execute")
       /\ kind[a] = "agent" => run'[a] # None /\ Len(run'[a].steps) # 0
       /\ SoleOK(w)'
       /\ \A u \in Threads \ {t} : \A v \in {Job(u)} :
            v.pc \in Working /\ v.a = a => ~Single(a)' /\ (v.pc = "work" => v.task # k)
  BY <1>1, <1>2, <1>3, <1>5, <1>8, <1>10, CallFacts
<1>15. ASSUME tasks'[a][k] = p, k \in DOMAIN tasks'[a], Len(tasks'[a]) = Len(tasks[a])
       PROVE  JobOK(w)'
  <2>1. WorkerOK(w)'
    BY <1>3, <1>4, <1>5, <1>6, <1>8, <1>10, <1>14, <1>15 DEF WorkerOK, Answerable
  <2> QED
    BY <1>8, <1>14, <2>1 DEF JobOK
<1>16. \A u \in Threads \ {t} : \A v \in {Job(u)} :
         v.pc \in Working /\ v.a = a => /\ v.pc = "work" => v.task # k
                                        /\ w # Idle => Distinct(w, v)'
  BY <1>8, <1>14 DEF Distinct, Working
<1>17. tasks'[a][k] = p /\ k \in DOMAIN tasks'[a] /\ Len(tasks'[a]) = Len(tasks[a]) => JobOK(w)'
  BY <1>15
<1>18. /\ w # Idle => w.a = a
       /\ w.pc # "attach"
       /\ w.pc = "back" /\ w.out = "waiting_approval" => w.task = k
       /\ Answerable(tasks[a], k) => p.approval # "none" /\ p.status \in {"needs_approval"} \cup TaskFinal
       /\ tasks[a][k].status \in TaskFinal => p.status \in TaskFinal
  BY <1>8, <1>13
<1> QED
  BY <1>9, <1>10, <1>12, <1>16, <1>17, <1>18, TaskSetInv

LEMMA CallInv ==
  ASSUME Inv, NEW t \in Threads, Call(t), UNCHANGED <<kind, deleted>>
  PROVE  Inv'
<1>1. th[t].pc \in Working /\ th[t].pc = "call"
  BY DEF Call, Working
<1>2. PICK a \in Actions : a = th[t].a
  BY <1>1, WorkerFacts
<1>3. /\ TypeInv /\ WorkerOK(th[t]) /\ SoleOK(th[t]) /\ th[t].via \in {"execute", "decide"}
      /\ kind[a] # None /\ tasks[a] \in TaskSeqs
  BY <1>1, <1>2, WorkerFacts, Typed
<1>4. UNCHANGED <<kind, live, cached, act, run, kept, db, lock, begun, deleted, restarts>>
  BY DEF Call
<1>5. CASE /\ kind[a] # "goal" /\ Len(tasks[a]) + 1 <= MaxTasks
           /\ tasks' = [tasks EXCEPT ![a] = Append(@, [status |-> "executing", approval |-> "none"])]
           /\ Goes(t, Sync([pc |-> "work", a |-> a, via |-> th[t].via, task |-> Len(tasks[a]) + 1]))
  <2>1. PICK n \in Nat : n = Len(tasks[a]) + 1 /\ n <= MaxTasks /\ n # 0
    BY <1>3, <1>5, TasksTyped
  <2>2. PICK w \in Jobs : w = [pc |-> "work", a |-> a, via |-> th[t].via, task |-> n]
    <3>1. [pc |-> "work", a |-> a, via |-> th[t].via, task |-> n] \in Jobs
      BY <1>3 DEF Jobs, WorkJobs
    <3> QED
      BY <3>1
  <2>3. w.pc = "work" /\ w.a = a /\ w.via = th[t].via /\ w.task = n /\ w # Idle
    BY <2>2 DEF Idle
  <2> DEFINE new == [status |-> "executing", approval |-> "none"]
  <2>4. new \in TaskType
    BY DEF TaskType
  <2>5. PICK q : q = Append(tasks[a], new)
    OBVIOUS
  <2>6. tasks' = [tasks EXCEPT ![a] = q]
    BY <1>5, <2>5
  <2>7. /\ q \in TaskSeqs /\ Len(q) = n /\ DOMAIN q = 1..n /\ q[n] = new
        /\ \A j \in DOMAIN tasks[a] : j \in DOMAIN q /\ j # n /\ q[j] = tasks[a][j]
    <3> HIDE DEF new
    <3> QED
      BY <1>3, <2>1, <2>4, <2>5 DEF TaskSeqs
  <2>8. tasks' \in Tasks /\ tasks'[a] = q /\ \A b \in Actions \ {a} : tasks'[b] = tasks[b]
    BY <1>3, <2>6, <2>7 DEF TypeInv, Tasks
  <2>9. Moves(t, w) /\ lock' \in Threads \cup {None}
    BY <1>3, <1>4, <1>5, <2>1, <2>2, <2>8, SyncMoves DEF TypeInv
  <2>10. TaskStep(t, a, w)
    BY <1>4, <2>8, <2>9 DEF TaskStep
  <2>11. Advances(tasks[a], tasks'[a])
    <3>1. Len(tasks[a]) <= Len(q)
      BY <1>3, <2>1, <2>7, TasksTyped
    <3>2. Advances(tasks[a], q)
      BY <2>7, <3>1 DEF Advances, Answerable
    <3> QED
      BY <2>8, <3>2
  <2>12. /\ kind'[a] # None /\ (kind[a] # "agent" => w.via = "execute")
         /\ kind[a] = "agent" => run'[a] # None /\ Len(run'[a].steps) # 0
         /\ SoleOK(w)'
         /\ \A u \in Threads \ {t} : \A v \in {Job(u)} :
              v.pc \in Working /\ v.a = a => ~Single(a) /\ ~Single(a)'
    BY <1>1, <1>2, <1>3, <1>4, <2>3, CallFacts
  <2>13. JobOK(w)'
    <3>1. kind'[a] = kind[a] /\ n \in 1..n /\ n \in 0..n
      BY <1>4, <2>1
    <3>2. WorkerOK(w)'
      BY <1>3, <2>3, <2>7, <2>8, <2>12, <3>1 DEF WorkerOK
    <3> QED
      BY <2>3, <2>12, <3>2 DEF JobOK
  <2>14. AttachOK(a) => AttachOK(a)'
    <3>1. AttachOK(a) => live[a] # "waiting_approval"
      BY <1>1, <1>2, <1>3 DEF AttachOK, SoleOK, Single
    <3> QED
      BY <1>4, <3>1 DEF AttachOK
  <2>15. ASSUME NEW u \in Threads \ {t}, NEW v \in {Job(u)}, v.pc \in Working, v.a = a
         PROVE  WorkerOK(v)' /\ (w # Idle => Distinct(w, v)')
    <3>1. WorkerOK(v) /\ kind[a] = "agent" /\ ~Single(a)'
      BY <2>12, <2>15, JobFacts DEF Single
    <3>2. DOMAIN tasks[a] = 1..Len(tasks[a]) /\ Len(tasks[a]) \in Nat /\ n = Len(tasks[a]) + 1
      BY <1>3, <2>1, TasksTyped
    <3>3. v.pc = "work" => /\ v.task \in DOMAIN tasks'[a] /\ v.task # n
                           /\ tasks'[a][v.task] = tasks[a][v.task]
      BY <2>7, <2>8, <2>15, <3>1 DEF WorkerOK
    <3>4. v.pc \in {"work", "back"} => v.task \in 0..Len(tasks'[a])
      BY <2>7, <2>8, <2>15, <3>1, <3>2 DEF WorkerOK
    <3>5. v.pc = "back" /\ v.out = "waiting_approval" => Answerable(tasks'[a], v.task)
      BY <2>11, <2>15, <3>1 DEF WorkerOK, Advances, Answerable
    <3>6. WorkerOK(v)'
      BY <1>4, <2>15, <3>1, <3>3, <3>4, <3>5 DEF WorkerOK
    <3>7. Distinct(w, v)'
      BY <2>3, <2>15, <3>1, <3>3 DEF Distinct
    <3> QED
      BY <3>6, <3>7
  <2> QED
    BY <2>3, <2>10, <2>11, <2>13, <2>14, <2>15, TaskStepInv
<1>6. CASE /\ kind[a] = "goal" /\ UNCHANGED tasks
           /\ Goes(t, Sync([pc |-> "back", a |-> a, via |-> th[t].via, task |-> 0, out |-> "completed"]))
  <2>1. PICK w \in Jobs : w = [pc |-> "back", a |-> a, via |-> th[t].via, task |-> 0, out |-> "completed"]
    <3>1. [pc |-> "back", a |-> a, via |-> th[t].via, task |-> 0, out |-> "completed"] \in Jobs
      BY <1>3 DEF Jobs, BackJobs, Outcomes
    <3> QED
      BY <3>1
  <2>2. /\ w.pc = "back" /\ w.a = a /\ w.via = th[t].via /\ w.task = 0 /\ w.out = "completed"
        /\ w # Idle
    BY <2>1 DEF Idle
  <2>3. Moves(t, w) /\ lock' \in Threads \cup {None}
    BY <1>3, <1>4, <1>6, <2>1, SyncMoves DEF TypeInv
  <2>4. /\ kind'[a] # None /\ (kind[a] # "agent" => w.via = "execute")
        /\ kind[a] = "agent" => run'[a] # None /\ Len(run'[a].steps) # 0
        /\ SoleOK(w)'
        /\ \A u \in Threads \ {t} : \A v \in {Job(u)} :
             v.pc \in Working /\ v.a = a => ~Single(a) /\ ~Single(a)'
    BY <1>1, <1>2, <1>3, <1>4, <2>2, CallFacts
  <2>5. JobOK(w)'
    <3>1. Len(tasks[a]) \in Nat
      BY <1>3, TasksTyped
    <3>2. WorkerOK(w)'
      BY <1>3, <1>4, <1>6, <2>2, <2>4, <3>1 DEF WorkerOK
    <3> QED
      BY <2>2, <2>4, <3>2 DEF JobOK
  <2>6. ASSUME NEW u \in Threads \ {t}, NEW v \in {Job(u)}, v.pc \in Working, v.a = a
        PROVE  w # Idle => Distinct(w, v)'
    BY <2>2, <2>4, <2>6 DEF Distinct
  <2> QED
    BY <1>4, <1>6, <2>2, <2>3, <2>5, <2>6, TasksKept
<1> QED
  BY <1>2, <1>5, <1>6 DEF Call

\* No thread works on a task that waits or has been decided.
LEMMA Unworked ==
  ASSUME Inv, NEW a \in Actions, NEW k \in 1..Len(tasks[a]),
         tasks[a][k].approval # "none" \/ tasks[a][k].status # "executing"
  PROVE  \A u \in Threads : \A v \in {Job(u)} : v.pc = "work" /\ v.a = a => v.task # k
<1>1. SUFFICES ASSUME NEW u \in Threads, NEW v \in {Job(u)}, v.pc = "work", v.a = a, v.task = k
               PROVE  FALSE
  OBVIOUS
<1>2. WorkerOK(v)
  BY <1>1, JobFacts DEF Working
<1> QED
  BY <1>1, <1>2 DEF WorkerOK

\* A decision or a resumption changes a task that nobody works on.
LEMMA DecidedInv ==
  ASSUME Inv, NEW t \in Threads, NEW a \in Actions, NEW w \in Jobs,
         NEW k \in 1..Len(tasks[a]), NEW p \in TaskType,
         tasks' = [tasks EXCEPT ![a] = [tasks[a] EXCEPT ![k] = p]],
         UNCHANGED <<kind, live, cached, act, run, kept, db, begun, deleted, restarts>>,
         tasks' \in Tasks => Moves(t, w), lock' \in Threads \cup {None},
         w = Idle \/ (w \in DecisionJobs /\ w.a = a /\ w.task = k
                      /\ (w.pc = "note" => p.status \in TaskFinal)),
         tasks[a][k].approval # "none" \/ tasks[a][k].status # "executing",
         Answerable(tasks[a], k) => p.approval # "none" /\ p.status \in {"needs_approval"} \cup TaskFinal,
         tasks[a][k].status \in TaskFinal => p.status \in TaskFinal
  PROVE  Inv'
<1>1. TypeInv
  BY DEF Inv
<1>2. tasks' \in Tasks
  <2>1. tasks[a] \in TaskSeqs /\ tasks \in Tasks
    BY <1>1, Typed DEF TypeInv
  <2>2. PICK q : q = [tasks[a] EXCEPT ![k] = p]
    OBVIOUS
  <2>3. q \in TaskSeqs
    BY <2>1, <2>2 DEF TaskSeqs
  <2> QED
    BY <2>1, <2>2, <2>3 DEF Tasks
<1>3. Moves(t, w)
  BY <1>2
<1>4. w.pc \notin Working /\ w.pc # "attach" /\ (w # Idle => w.a = a /\ w.pc \in {"resume", "note"})
  BY IdleIs DEF DecisionJobs, Working
<1>5. tasks'[a][k] = p /\ k \in DOMAIN tasks'[a] /\ Len(tasks'[a]) = Len(tasks[a]) => JobOK(w)'
  BY <1>4, IdleIs DEF JobOK, DecisionOK
<1>6. \A u \in Threads \ {t} : \A v \in {Job(u)} :
        v.pc \in Working /\ v.a = a => /\ v.pc = "work" => v.task # k
                                       /\ w # Idle => Distinct(w, v)'
  BY <1>4, Unworked DEF Distinct, Working
<1>7. /\ w # Idle => w.a = a
      /\ w.pc # "attach"
      /\ w.pc = "back" /\ w.out = "waiting_approval" => w.task = k
  BY <1>4 DEF Working
<1> QED
  BY <1>3, <1>5, <1>6, <1>7, TaskSetInv

\* The k-th task of an action, changed by a decision or a resumption.
LEMMA TaskPart ==
  ASSUME Inv, NEW a \in Actions, NEW k \in 1..Len(tasks[a])
  PROVE  /\ \A x \in {"approved", "rejected"} : \E p \in TaskType :
              /\ p = [tasks[a][k] EXCEPT !.approval = x]
              /\ p.approval = x /\ p.status = tasks[a][k].status
         /\ \A s \in TaskFinal : \E p \in TaskType :
              /\ p = [tasks[a][k] EXCEPT !.status = s]
              /\ p.status = s /\ p.approval = tasks[a][k].approval
<1>1. TypeInv
  BY DEF Inv
<1>2. PICK o \in TaskType : o = tasks[a][k]
  BY <1>1, Typed, TasksTyped
<1>3. \A x \in {"approved", "rejected"} :
        /\ [o EXCEPT !.approval = x] \in TaskType
        /\ [o EXCEPT !.approval = x].approval = x /\ [o EXCEPT !.approval = x].status = o.status
  BY DEF TaskType
<1>4. \A s \in TaskFinal :
        /\ [o EXCEPT !.status = s] \in TaskType
        /\ [o EXCEPT !.status = s].status = s /\ [o EXCEPT !.status = s].approval = o.approval
  BY DEF TaskType
<1> QED
  BY <1>2, <1>3, <1>4

LEMMA DecideInv ==
  ASSUME Inv, NEW t \in Threads, NEW a \in Actions, NEW k \in 1..MaxTasks,
         NEW x \in {"approved", "rejected"}, Decide(t, a, k, x), UNCHANGED <<kind, deleted>>
  PROVE  Inv'
<1>1. k \in 1..Len(tasks[a]) /\ tasks[a][k].approval # "none"
  BY DEF Decide
<1>2. PICK p \in TaskType : p = [tasks[a][k] EXCEPT !.approval = x] /\ p.approval = x
                            /\ p.status = tasks[a][k].status
  BY <1>1, TaskPart
<1>3. tasks' = [tasks EXCEPT ![a] = [tasks[a] EXCEPT ![k] = p]]
  BY <1>2 DEF Decide
<1>4. PICK w \in Jobs : /\ w = [pc |-> "resume", a |-> a, via |-> "decide", task |-> k, v |-> x]
                        /\ w \in DecisionJobs
  <2>1. [pc |-> "resume", a |-> a, via |-> "decide", task |-> k, v |-> x] \in DecisionJobs
    BY DEF DecisionJobs
  <2> QED
    BY <2>1 DEF Jobs
<1>5. w.pc = "resume" /\ w.a = a /\ w.task = k
  BY <1>4
<1>6. Goes(t, Sync(w)) \/ Goes(t, w)
  BY <1>4 DEF Decide
<1>7. UNCHANGED <<kind, live, cached, act, run, kept, db, begun, deleted, restarts>> /\ lock' = t
  BY DEF Decide
<1>8. tasks' \in Tasks => Moves(t, w)
  <2>1. TypeInv
    BY DEF Inv
  <2> QED
    BY <1>5, <1>6, <1>7, <2>1, SyncMoves, StepMoves DEF TypeInv
<1>9. /\ Answerable(tasks[a], k) => p.approval # "none" /\ p.status \in {"needs_approval"} \cup TaskFinal
      /\ tasks[a][k].status \in TaskFinal => p.status \in TaskFinal
  BY <1>2 DEF Answerable
<1> QED
  BY <1>1, <1>3, <1>4, <1>5, <1>7, <1>8, <1>9, DecidedInv

LEMMA DecideApprovalInv ==
  ASSUME Inv, NEW t \in Threads, NEW a \in Actions, NEW k \in 1..MaxTasks,
         NEW x \in {"approved", "rejected"}, DecideApproval(t, a, k, x), UNCHANGED <<kind, deleted>>
  PROVE  Inv'
<1>1. k \in 1..Len(tasks[a]) /\ tasks[a][k].approval # "none"
  BY DEF DecideApproval
<1>2. PICK p \in TaskType : p = [tasks[a][k] EXCEPT !.approval = x] /\ p.approval = x
                            /\ p.status = tasks[a][k].status
  BY <1>1, TaskPart
<1>3. tasks' = [tasks EXCEPT ![a] = [tasks[a] EXCEPT ![k] = p]]
  BY <1>2 DEF DecideApproval
<1>4. UNCHANGED <<kind, live, cached, act, run, kept, db, lock, begun, deleted, restarts>>
  BY DEF DecideApproval
<1>5. (tasks' \in Tasks => Moves(t, Idle)) /\ lock' \in Threads \cup {None}
  <2>1. TypeInv
    BY DEF Inv
  <2> QED
    BY <1>4, <2>1, IdleIs, SyncMoves DEF TypeInv, DecideApproval
<1>6. /\ Answerable(tasks[a], k) => p.approval # "none" /\ p.status \in {"needs_approval"} \cup TaskFinal
      /\ tasks[a][k].status \in TaskFinal => p.status \in TaskFinal
  BY <1>2 DEF Answerable
<1> QED
  BY <1>1, <1>3, <1>4, <1>5, <1>6, IdleIs, DecidedInv

LEMMA ResumeTaskInv ==
  ASSUME Inv, NEW t \in Threads, NEW a \in Actions, NEW k \in 1..MaxTasks,
         ResumeTask(t, a, k), UNCHANGED <<kind, deleted>>
  PROVE  Inv'
<1>1. k \in 1..Len(tasks[a]) /\ tasks[a][k].status = "needs_approval"
  BY DEF ResumeTask
<1>2. PICK s \in TaskFinal : tasks' = [tasks EXCEPT ![a][k].status = s]
  BY DEF ResumeTask, Resumed, TaskFinal
<1>3. PICK p \in TaskType : p = [tasks[a][k] EXCEPT !.status = s] /\ p.status = s
                            /\ p.approval = tasks[a][k].approval
  BY <1>1, TaskPart
<1>4. tasks' = [tasks EXCEPT ![a] = [tasks[a] EXCEPT ![k] = p]]
  BY <1>2, <1>3
<1>5. UNCHANGED <<kind, live, cached, act, run, kept, db, lock, begun, deleted, restarts>>
  BY DEF ResumeTask
<1>6. (tasks' \in Tasks => Moves(t, Idle)) /\ lock' \in Threads \cup {None}
  <2>1. TypeInv
    BY DEF Inv
  <2> QED
    BY <1>5, <2>1, IdleIs, SyncMoves DEF TypeInv, ResumeTask
<1>7. /\ Answerable(tasks[a], k) => p.approval # "none" /\ p.status \in {"needs_approval"} \cup TaskFinal
      /\ tasks[a][k].status \in TaskFinal => p.status \in TaskFinal
  BY <1>3 DEF Answerable
<1> QED
  BY <1>1, <1>4, <1>5, <1>6, <1>7, IdleIs, DecidedInv

LEMMA ResumeDecidedInv ==
  ASSUME Inv, NEW t \in Threads, ResumeDecided(t), UNCHANGED <<kind, deleted>>
  PROVE  Inv'
<1>1. TypeInv /\ Job(t) = th[t] /\ th[t] \in Jobs /\ th[t].pc = "resume"
  BY ThreadTyped DEF Inv, ResumeDecided
<1>2. /\ th[t] \in DecisionJobs /\ th[t].a \in Actions /\ DecisionOK(th[t])
      /\ th[t].v \in {"approved", "rejected"}
  BY <1>1, JobTyped, JobFacts
<1>3. PICK a \in Actions : a = th[t].a
  BY <1>2
<1>4. PICK k \in 1..Len(tasks[a]) : k = th[t].task
  BY <1>1, <1>2, <1>3, Typed, TasksTyped DEF DecisionOK
<1>5. PICK w \in Jobs : w = [th[t] EXCEPT !.pc = "note"] /\ w \in DecisionJobs
  <2>1. [th[t] EXCEPT !.pc = "note"] \in DecisionJobs
    BY <1>2 DEF DecisionJobs
  <2> QED
    BY <2>1 DEF Jobs
<1>6. w.pc = "note" /\ w.a = a /\ w.task = k /\ w # Idle
  BY <1>2, <1>3, <1>4, <1>5, IdleIs DEF DecisionJobs
<1>7. UNCHANGED <<kind, live, cached, act, run, kept, db, begun, deleted, restarts>>
  BY DEF ResumeDecided
<1>8. CASE /\ tasks[a][k].status = "needs_approval"
           /\ \E s \in Resumed(th[t].v) : tasks' = [tasks EXCEPT ![a][k].status = s]
           /\ Goes(t, Sync(w)) /\ UNCHANGED lock
  <2>1. PICK s \in TaskFinal : tasks' = [tasks EXCEPT ![a][k].status = s]
    BY <1>8 DEF Resumed, TaskFinal
  <2>2. PICK p \in TaskType : p = [tasks[a][k] EXCEPT !.status = s] /\ p.status = s
                              /\ p.approval = tasks[a][k].approval
    BY TaskPart
  <2>3. tasks' = [tasks EXCEPT ![a] = [tasks[a] EXCEPT ![k] = p]]
    BY <2>1, <2>2
  <2>4. (tasks' \in Tasks => Moves(t, w)) /\ lock' \in Threads \cup {None}
    BY <1>1, <1>7, <1>8, SyncMoves DEF TypeInv
  <2>5. /\ Answerable(tasks[a], k) => p.approval # "none" /\ p.status \in {"needs_approval"} \cup TaskFinal
        /\ tasks[a][k].status \in TaskFinal => p.status \in TaskFinal
    BY <2>2 DEF Answerable
  <2>6. tasks[a][k].approval # "none" \/ tasks[a][k].status # "executing"
    BY <1>8
  <2>7. w = Idle \/ (w \in DecisionJobs /\ w.a = a /\ w.task = k
                     /\ (w.pc = "note" => p.status \in TaskFinal))
    BY <1>5, <1>6, <2>2
  <2> QED
    BY <1>7, <2>3, <2>4, <2>5, <2>6, <2>7, DecidedInv
<1>9. CASE tasks[a][k].status \in TaskFinal /\ Goes(t, w) /\ UNCHANGED <<tasks, lock>>
  <2>1. Moves(t, w) /\ lock' \in Threads \cup {None}
    BY <1>1, <1>6, <1>9, StepMoves DEF TypeInv
  <2>2. DOMAIN tasks[a] = 1..Len(tasks[a])
    BY <1>1, Typed, TasksTyped
  <2>3. JobOK(w)'
    BY <1>6, <1>9, <2>2 DEF JobOK, DecisionOK, Working
  <2>4. \A u \in Threads \ {t} : \A v \in {Job(u)} : Distinct(w, v)'
    BY <1>6 DEF Distinct, Working
  <2> QED
    BY <1>6, <1>7, <1>9, <2>1, <2>3, <2>4, TasksKept
<1>10. CASE Ends(t) /\ UNCHANGED tasks
  BY <1>7, <1>10, UnnotedInv
<1> QED
  BY <1>3, <1>4, <1>5, <1>8, <1>9, <1>10 DEF ResumeDecided

-----------------------------------------------------------------------------
(* Syncs                                                                   *)

\* The first n tasks are written, the others stay as they were.
Written(new, old, n) == SubSeq(new, 1, n) \o SubSeq(old, n + 1, Len(old))

LEMMA SavedTasks ==
  ASSUME NEW new \in TaskSeqs, NEW old \in TaskSeqs, Len(old) <= Len(new),
         NEW n \in Nat, n <= Len(new),
         NEW q, q = Written(new, old, n)
  PROVE  /\ q \in TaskSeqs /\ Len(q) <= Len(new)
         /\ \A k \in DOMAIN q : k \in DOMAIN new /\ q[k] = IF k <= n THEN new[k] ELSE old[k]
         /\ \A k \in DOMAIN new : k <= n \/ k \in DOMAIN old => k \in DOMAIN q
<1>1. /\ new \in Seq(TaskType) /\ Len(new) \in Nat /\ Len(new) <= MaxTasks /\ DOMAIN new = 1..Len(new)
      /\ old \in Seq(TaskType) /\ Len(old) \in Nat /\ DOMAIN old = 1..Len(old)
  BY TasksTyped
<1>2. PICK x : x = SubSeq(new, 1, n)
  OBVIOUS
<1>3. x \in Seq(TaskType) /\ Len(x) = n /\ \A k \in 1..n : x[k] = new[k]
  <2>1. \A k \in 1..n : new[k] \in TaskType
    BY <1>1, TasksTyped
  <2>2. n \in Int /\ 1 \in Int
    OBVIOUS
  <2> QED
    BY <1>2, <2>1, <2>2, SubSeqProperties
<1>4. PICK y : y = SubSeq(old, n + 1, Len(old))
  OBVIOUS
<1>5. PICK l \in Nat, h \in Nat : l = Len(old) /\ h = Len(new) /\ l <= h /\ n <= h
  BY <1>1
<1>6. PICK m \in Nat : m = IF n < l THEN l - n ELSE 0
  <2>1. (IF n < l THEN l - n ELSE 0) \in Nat
    OBVIOUS
  <2> QED
    BY <2>1
<1>7. y \in Seq(TaskType) /\ Len(y) = m /\ \A k \in 1..m : y[k] = old[n + k]
  <2>1. n + 1 \in Int /\ l \in Int
    OBVIOUS
  <2>2. \A k \in (n + 1)..l : old[k] \in TaskType
    <3>1. \A k \in (n + 1)..l : k \in 1..l
      OBVIOUS
    <3> QED
      BY <1>5, <3>1, TasksTyped
  <2>3. /\ SubSeq(old, n + 1, l) \in Seq(TaskType)
        /\ Len(SubSeq(old, n + 1, l)) = IF n + 1 <= l THEN l - (n + 1) + 1 ELSE 0
        /\ \A k \in 1..(l - (n + 1) + 1) : SubSeq(old, n + 1, l)[k] = old[(n + 1) + k - 1]
    BY <2>1, <2>2, SubSeqProperties
  <2>4. y = SubSeq(old, n + 1, l)
    BY <1>4, <1>5
  <2>5. m = IF n + 1 <= l THEN l - (n + 1) + 1 ELSE 0
    BY <1>6
  <2>6. \A k \in 1..m : k \in 1..(l - (n + 1) + 1) /\ (n + 1) + k - 1 = n + k
    BY <1>6
  <2>7. Len(y) = m
    BY <2>3, <2>4, <2>5
  <2>8. \A k \in 1..m : y[k] = old[n + k]
    BY <2>3, <2>4, <2>6
  <2> QED
    BY <2>3, <2>4, <2>7, <2>8
<1>8. /\ q \in Seq(TaskType) /\ Len(q) = n + m
      /\ \A k \in 1..(n + m) : q[k] = IF k <= n THEN x[k] ELSE y[k - n]
  <2>1. q = x \o y
    BY <1>2, <1>4 DEF Written
  <2>2. /\ x \o y \in Seq(TaskType) /\ Len(x \o y) = Len(x) + Len(y)
        /\ \A k \in 1..(Len(x) + Len(y)) :
             (x \o y)[k] = IF k <= Len(x) THEN x[k] ELSE y[k - Len(x)]
    BY <1>3, <1>7, ConcatProperties
  <2>3. Len(x) = n /\ Len(y) = m
    BY <1>3, <1>7
  <2>4. PICK z : z = x \o y
    OBVIOUS
  <2>5. /\ z \in Seq(TaskType) /\ Len(z) = n + m
        /\ \A k \in 1..(n + m) : z[k] = IF k <= n THEN x[k] ELSE y[k - n]
    BY <2>2, <2>3, <2>4
  <2> QED
    BY <2>1, <2>4, <2>5
<1>9. DOMAIN q = 1..(n + m)
  BY <1>8
<1>10. ASSUME NEW k \in 1..(n + m)
       PROVE  q[k] = IF k <= n THEN new[k] ELSE old[k]
  <2>1. CASE k <= n
    BY <1>3, <1>8, <1>10, <2>1
  <2>2. CASE ~(k <= n)
    <3>1. k - n \in 1..m /\ n + (k - n) = k
      BY <2>2
    <3>2. y[k - n] = old[k]
      BY <1>7, <3>1
    <3> QED
      BY <1>8, <2>2, <3>2
  <2> QED
    BY <2>1, <2>2
<1>11. n + m <= h /\ n + m \in Nat
  BY <1>5, <1>6
<1>12. q \in TaskSeqs
  BY <1>1, <1>5, <1>8, <1>11, Bounds DEF TaskSeqs
<1>13. \A k \in DOMAIN q : k \in DOMAIN new
  BY <1>1, <1>5, <1>9, <1>11
<1>14. \A k \in DOMAIN new : k <= n \/ k \in DOMAIN old => k \in DOMAIN q
  <2>1. \A k \in 1..h : k <= n \/ k \in 1..l => k \in 1..(n + m)
    BY <1>6
  <2> QED
    BY <1>1, <1>5, <1>9, <2>1
<1> QED
  BY <1>5, <1>8, <1>9, <1>10, <1>11, <1>12, <1>13, <1>14

LEMMA SaveTasksInv ==
  ASSUME Inv, NEW t \in Threads, SaveTasks(t), UNCHANGED <<kind, deleted>>
  PROVE  Inv'
<1>1. TypeInv
  BY DEF Inv
<1>2. th[t].pc = "save_tasks" /\ th[t] \in Listings /\ Job(t) = th[t].next
  BY <1>1, ThreadTyped DEF SaveTasks
<1>3. PICK n \in [Actions -> Nat], w \in Jobs : n = th[t].tasks /\ w = th[t].next
  BY <1>2 DEF Listings
<1>4. \A b \in Actions : n[b] <= Len(tasks[b])
  BY <1>2, <1>3 DEF Inv, SyncOK
<1>5. PICK q : q = [b \in Actions |-> Written(tasks[b], db.tasks[b], n[b])]
  OBVIOUS
<1>6. ASSUME NEW b \in Actions
      PROVE  /\ q[b] \in TaskSeqs /\ Len(q[b]) <= Len(tasks[b])
             /\ \A k : BothAnswerable(b, k) => Answerable(q[b], k)
             /\ \A k : Answerable(tasks[b], k) /\ k <= n[b] => Answerable(q[b], k)
  <2>1. /\ tasks[b] \in TaskSeqs /\ db.tasks[b] \in TaskSeqs /\ Len(db.tasks[b]) <= Len(tasks[b])
        /\ n[b] \in Nat /\ n[b] <= Len(tasks[b])
    BY <1>1, <1>4, Typed DEF Inv, CardOK
  <2>2. q[b] = Written(tasks[b], db.tasks[b], n[b])
    BY <1>5
  <2>3. /\ q[b] \in TaskSeqs /\ Len(q[b]) <= Len(tasks[b])
        /\ \A k \in DOMAIN q[b] : /\ k \in DOMAIN tasks[b]
                                  /\ q[b][k] = IF k <= n[b] THEN tasks[b][k] ELSE db.tasks[b][k]
        /\ \A k \in DOMAIN tasks[b] : k <= n[b] \/ k \in DOMAIN db.tasks[b] => k \in DOMAIN q[b]
    <3>1. PICK new \in TaskSeqs, old \in TaskSeqs, m \in Nat :
            new = tasks[b] /\ old = db.tasks[b] /\ m = n[b]
      BY <2>1
    <3> QED
      BY <2>1, <2>2, <3>1, SavedTasks
  <2> QED
    BY <2>3 DEF BothAnswerable, Answerable
<1>7. db' = [db EXCEPT !.tasks = q]
  BY <1>3, <1>5 DEF SaveTasks, Written
<1>8. q \in Tasks
  <2>1. DOMAIN q = Actions /\ q = [b \in Actions |-> q[b]]
    BY <1>5
  <2> QED
    BY <1>6, <2>1 DEF Tasks
<1>9. /\ db' \in [act : Cards, run : Runs, kept : SUBSET Actions, tasks : Tasks]
      /\ db'.act = db.act /\ db'.run = db.run /\ db'.tasks = q /\ db'.kept = db.kept
  BY <1>1, <1>7, <1>8 DEF TypeInv
<1>10. UNCHANGED <<kind, live, cached, act, run, kept, tasks, lock, begun, deleted, restarts>>
  BY DEF SaveTasks
<1>11. /\ th' \in [Threads -> Jobs \cup Listings \cup Savings]
       /\ th'[t].pc = "save_chat" /\ th'[t].next = w
       /\ \A u \in Threads \ {t} : th'[u] = th[u]
  <2>1. PICK sv \in Savings : sv = [pc |-> "save_chat", next |-> th[t].next, chats |-> th[t].chats]
    <3>1. [pc |-> "save_chat", next |-> th[t].next, chats |-> th[t].chats] \in Savings
      BY <1>2 DEF Listings, Savings
    <3> QED
      BY <3>1
  <2>2. th' = [th EXCEPT ![t] = sv]
    BY <2>1 DEF SaveTasks, Goes
  <2>3. sv.pc = "save_chat" /\ sv.next = w
    BY <1>3, <2>1
  <2> QED
    BY <1>1, <2>2, <2>3 DEF TypeInv
<1>12. \A u \in Threads : Job(u)' = Job(u)
  BY <1>2, <1>3, <1>11 DEF Job
<1>13. TypeInv'
  BY <1>1, <1>9, <1>10, <1>11 DEF TypeInv
<1>14. \A b \in Actions : \A k : BothAnswerable(b, k) => BothAnswerable(b, k)'
  BY <1>6, <1>9, <1>10 DEF BothAnswerable, Answerable
<1>15. ASSUME NEW a \in Actions
       PROVE  CardOK(a)' /\ KeptOK(a)'
  <2>1. CardOK(a) /\ KeptOK(a)
    BY DEF Inv
  <2>2. CardOK(a)'
    BY <1>6, <1>9, <1>10, <1>14, <2>1 DEF CardOK
  <2>3. KeptOK(a)'
    BY <1>9, <1>10, <2>1 DEF KeptOK, Agree, NamesStep, Taskless, Follows
  <2> QED
    BY <2>2, <2>3
<1>16. ASSUME NEW u \in Threads, NEW v \in {Job(u)'}
       PROVE  JobOK(v)' /\ SyncOK(u, v)'
  <2>1. v \in {Job(u)}
    BY <1>12, <1>16
  <2>2. v \in Jobs /\ JobOK(v) /\ SyncOK(u, v)
    BY <2>1, JobFacts
  <2>3. v.pc = "attach" => AttachOK(v.a)'
    <3>1. v.pc = "attach" => v.a \in Actions /\ AttachOK(v.a)
      BY <2>1, JobFacts
    <3>2. v.pc = "attach" =>
            (BothAnswerable(v.a, Len(tasks[v.a])) => BothAnswerable(v.a, Len(tasks[v.a]))')
      BY <1>10, <1>14, <3>1
    <3> QED
      BY <1>10, <3>1, <3>2 DEF AttachOK
  <2>4. v.pc \in Working => WorkerOK(v)' /\ SoleOK(v)'
    BY <1>10, <2>2 DEF JobOK, WorkerOK, SoleOK, Single, Open, Answerable
  <2>5. v.pc \in {"resume", "note"} => DecisionOK(v)'
    BY <1>10, <2>2 DEF JobOK, DecisionOK
  <2>6. v.pc = "back" /\ v.out = "waiting_approval" => v.a \in Actions /\ Answerable(tasks[v.a], v.task)
    BY <2>1, JobFacts DEF WorkerOK, Working
  <2>7. SyncOK(u, v)'
    <3>1. CASE u = t
      <4>1. v.pc = "back" /\ v.out = "waiting_approval" => Answerable(q[v.a], v.task)
        BY <1>2, <1>3, <1>6, <2>2, <2>6, <3>1 DEF SyncOK
      <4> QED
        BY <1>9, <1>11, <3>1, <4>1 DEF SyncOK, Answerable
    <3>2. CASE u # t
      <4>1. v.pc = "back" /\ v.out = "waiting_approval" /\ th[u].pc # "save_tasks" =>
              Answerable(q[v.a], v.task)
        BY <1>6, <2>2, <2>6 DEF SyncOK, BothAnswerable
      <4> QED
        BY <1>9, <1>10, <1>11, <2>2, <3>2, <4>1 DEF SyncOK, Answerable
    <3> QED
      BY <3>1, <3>2
  <2> QED
    BY <2>3, <2>4, <2>5, <2>7 DEF JobOK
<1>17. ASSUME NEW u \in Threads, NEW x \in Threads, NEW v \in {Job(u)'}, NEW y \in {Job(x)'},
              u # x, v # Idle, y # Idle
       PROVE  Distinct(v, y)'
  <2>1. Distinct(v, y)
    BY <1>12, <1>17 DEF Inv
  <2> QED
    BY <1>10, <2>1 DEF Distinct, Single
<1> QED
  BY <1>13, <1>15, <1>16, <1>17 DEF Inv

LEMMA SaveChatInv ==
  ASSUME Inv, NEW t \in Threads, SaveChat(t), UNCHANGED <<kind, deleted>>
  PROVE  Inv'
<1>1. TypeInv
  BY DEF Inv
<1>2. th[t].pc = "save_chat" /\ th[t] \in Savings /\ Job(t) = th[t].next
  BY <1>1, ThreadTyped DEF SaveChat
<1>3. PICK w \in Jobs, s \in SUBSET Actions : w = th[t].next /\ s = th[t].chats
  BY <1>2 DEF Savings
<1>4. PICK c \in Cards, r \in Runs, k \in SUBSET Actions :
        /\ c = [a \in Actions |-> IF a \in s THEN act[a] ELSE db.act[a]]
        /\ r = [a \in Actions |-> IF a \in s THEN run[a] ELSE db.run[a]]
        /\ k = db.kept \cup s
  <2>1. [a \in Actions |-> IF a \in s THEN act[a] ELSE db.act[a]] \in Cards
    BY <1>1 DEF TypeInv, Cards
  <2>2. [a \in Actions |-> IF a \in s THEN run[a] ELSE db.run[a]] \in Runs
    BY <1>1 DEF TypeInv, Runs
  <2>3. db.kept \cup s \in SUBSET Actions
    BY <1>1 DEF TypeInv
  <2> QED
    BY <2>1, <2>2, <2>3
<1>5. db' = [db EXCEPT !.act = c, !.run = r, !.kept = k]
  BY <1>3, <1>4 DEF SaveChat
<1>6. /\ db' \in [act : Cards, run : Runs, kept : SUBSET Actions, tasks : Tasks]
      /\ db'.act = c /\ db'.run = r /\ db'.kept = k /\ db'.tasks = db.tasks
  BY <1>1, <1>4, <1>5 DEF TypeInv
<1>7. \A a \in Actions : /\ db'.act[a] = IF a \in s THEN act[a] ELSE db.act[a]
                         /\ db'.run[a] = IF a \in s THEN run[a] ELSE db.run[a]
                         /\ a \in db.kept => a \in db'.kept
  BY <1>4, <1>6
<1>8. UNCHANGED <<kind, live, cached, act, run, kept, tasks, begun, deleted, restarts>>
  BY DEF SaveChat
<1>9. /\ th' \in [Threads -> Jobs \cup Listings \cup Savings]
      /\ th'[t] = w /\ \A u \in Threads \ {t} : th'[u] = th[u]
  BY <1>1, <1>3 DEF SaveChat, Goes, TypeInv
<1>10. \A u \in Threads : Job(u)' = Job(u)
  BY <1>2, <1>3, <1>9, JobTyped DEF Job
<1>11. lock' \in Threads \cup {None}
  BY <1>1 DEF SaveChat, TypeInv
<1>12. TypeInv'
  BY <1>1, <1>6, <1>8, <1>9, <1>11 DEF TypeInv
<1>13. ASSUME NEW a \in Actions
       PROVE  CardOK(a)' /\ KeptOK(a)'
  <2>1. CardOK(a) /\ KeptOK(a)
    BY DEF Inv
  <2>2. \/ db'.act[a] = act[a] /\ db'.run[a] = run[a]
        \/ db'.act[a] = db.act[a] /\ db'.run[a] = db.run[a]
    BY <1>7
  <2>3. CardOK(a)'
    BY <1>6, <1>8, <2>1, <2>2 DEF CardOK, BothAnswerable, Answerable
  <2>4. KeptOK(a)'
    <3>1. a \in db.kept => a \in db'.kept
      BY <1>7
    <3>2. CASE db'.act[a] = act[a] /\ db'.run[a] = run[a]
      BY <1>8, <2>1, <3>1, <3>2 DEF KeptOK, Agree, NamesStep, Taskless
    <3>3. CASE db'.act[a] = db.act[a] /\ db'.run[a] = db.run[a]
      BY <1>8, <2>1, <3>1, <3>3 DEF KeptOK, Agree, NamesStep, Taskless, Follows
    <3> QED
      BY <2>2, <3>2, <3>3
  <2> QED
    BY <2>3, <2>4
<1>14. ASSUME NEW u \in Threads, NEW v \in {Job(u)'}
       PROVE  JobOK(v)' /\ SyncOK(u, v)'
  <2>1. v \in {Job(u)}
    BY <1>10, <1>14
  <2>2. v \in Jobs /\ JobOK(v) /\ SyncOK(u, v)
    BY <2>1, JobFacts
  <2>3. JobOK(v)'
    BY <1>6, <1>8, <2>2
       DEF JobOK, AttachOK, WorkerOK, SoleOK, DecisionOK, Single, Open, BothAnswerable, Answerable
  <2>4. SyncOK(u, v)'
    <3>1. th'[t].pc # "save_tasks"
      BY <1>9, JobTyped
    <3>2. CASE u = t
      BY <1>2, <1>6, <2>2, <3>1, <3>2 DEF SyncOK, Answerable
    <3>3. CASE u # t
      BY <1>6, <1>8, <1>9, <2>2, <3>3 DEF SyncOK, Answerable
    <3> QED
      BY <3>2, <3>3
  <2> QED
    BY <2>3, <2>4
<1>15. ASSUME NEW u \in Threads, NEW x \in Threads, NEW v \in {Job(u)'}, NEW y \in {Job(x)'},
              u # x, v # Idle, y # Idle
       PROVE  Distinct(v, y)'
  <2>1. Distinct(v, y)
    BY <1>10, <1>15 DEF Inv
  <2> QED
    BY <1>8, <2>1 DEF Distinct, Single
<1> QED
  BY <1>12, <1>13, <1>14, <1>15 DEF Inv

\* Threads that do nothing.
LEMMA AllIdle ==
  ASSUME \A t \in Threads : th[t] = Idle
  PROVE  /\ \A t \in Threads : \A w \in {Job(t)} : w = Idle /\ JobOK(w) /\ SyncOK(t, w)
         /\ \A t, u \in Threads : \A w \in {Job(t)}, v \in {Job(u)} :
              t # u /\ w # Idle /\ v # Idle => Distinct(w, v)
<1>1. \A t \in Threads : Job(t) = Idle
  BY IdleIs DEF Job
<1>2. JobOK(Idle)
  BY IdleIs DEF JobOK, Working
<1>3. \A t \in Threads : SyncOK(t, Idle)
  BY IdleIs DEF SyncOK
<1> QED
  BY <1>1, <1>2, <1>3

LEMMA InitInv == ASSUME Init PROVE Inv
<1>1. /\ act \in Cards /\ run \in Runs /\ tasks \in Tasks
      /\ \A a \in Actions : act[a] = None /\ run[a] = None /\ tasks[a] = << >>
  BY Bounds DEF Init, Cards, Runs, Tasks, TaskSeqs
<1>2. db = [act |-> act, run |-> run, kept |-> kept, tasks |-> tasks]
  BY DEF Init
<1>3. /\ db \in [act : Cards, run : Runs, kept : SUBSET Actions, tasks : Tasks]
      /\ db.act = act /\ db.run = run /\ db.tasks = tasks /\ db.kept = Actions
  BY <1>1, <1>2 DEF Init
<1>4. TypeInv
  BY <1>1, <1>3, IdleIs DEF Init, TypeInv
<1>5. ASSUME NEW a \in Actions PROVE CardOK(a) /\ KeptOK(a)
  BY <1>1, <1>3, NoneIsNothing
     DEF Init, CardOK, KeptOK, Agree, NamesStep, Taskless, BothAnswerable, Answerable
<1>6. \A t \in Threads : th[t] = Idle
  BY DEF Init
<1> QED
  BY <1>4, <1>5, <1>6, AllIdle DEF Inv

\* A restart offers again what the rows say has not come to its work.
LEMMA RestartInv ==
  ASSUME Inv, Restart, UNCHANGED <<kind, deleted>>
  PROVE  Inv'
<1>1. TypeInv
  BY DEF Inv
<1> DEFINE Offered(a) == a \in db.kept /\ db.act[a] # None /\ db.act[a].status \in Reoffered
           Again(a) == IF Offered(a) THEN [db.act[a] EXCEPT !.status = "pending"]
                      ELSE IF a \in db.kept THEN db.act[a] ELSE None
           Ran(a) == IF a \in db.kept THEN db.run[a] ELSE None
<1>2. /\ live' = [a \in Actions |-> IF Offered(a) THEN "pending" ELSE None]
      /\ act' = [a \in Actions |-> Again(a)]
      /\ run' = [a \in Actions |-> Ran(a)]
  BY <1>1 DEF Restart, TypeInv
<1>3. /\ restarts' = restarts + 1 /\ cached' = {} /\ kept' = db.kept /\ tasks' = db.tasks
      /\ th' = [t \in Threads |-> Idle] /\ lock' = None
      /\ UNCHANGED <<kind, db, begun, deleted>>
  BY DEF Restart
<1>4. ASSUME NEW a \in Actions
      PROVE  /\ Again(a) \in {None} \cup ActType /\ Ran(a) \in {None} \cup RunRecords
             /\ Offered(a) => /\ Again(a) # None /\ Again(a).status = "pending"
                              /\ Again(a).task = db.act[a].task
                              /\ db.act[a].status \in {"pending", "executing"}
             /\ ~Offered(a) => Again(a) = None \/ Again(a) = db.act[a]
             /\ a \in db.kept => /\ Again(a) = None <=> db.act[a] = None
                                 /\ ~Offered(a) => Again(a) = db.act[a]
             /\ a \notin db.kept => Again(a) = None /\ Ran(a) = None
  <2>1. db.act[a] \in {None} \cup ActType /\ db.run[a] \in {None} \cup RunRecords
    BY <1>1, Typed
  <2>2. CASE Offered(a)
    <3>1. db.act[a] \in ActType
      BY <2>1, <2>2
    <3>2. PICK c \in ActType : c = [db.act[a] EXCEPT !.status = "pending"]
                               /\ c.status = "pending" /\ c.task = db.act[a].task
      <4>1. PICK o \in ActType : o = db.act[a]
        BY <3>1
      <4>2. /\ [o EXCEPT !.status = "pending"] \in ActType
            /\ [o EXCEPT !.status = "pending"].status = "pending"
            /\ [o EXCEPT !.status = "pending"].task = o.task
        BY DEF ActType, Status
      <4> QED
        BY <4>1, <4>2
    <3>3. c # None
      BY NoneIsNothing
    <3> QED
      BY <2>1, <2>2, <3>2, <3>3 DEF Reoffered
  <2>3. CASE ~Offered(a)
    BY <2>1, <2>3
  <2> QED
    BY <2>2, <2>3
<1> HIDE DEF Again, Ran
<1>5. /\ act' \in Cards /\ run' \in Runs /\ live' \in [Actions -> {None, "message"} \cup Status]
      /\ \A a \in Actions : /\ act'[a] = Again(a) /\ run'[a] = Ran(a)
                            /\ live'[a] = IF Offered(a) THEN "pending" ELSE None
  <2>1. act' \in Cards /\ run' \in Runs
    BY <1>2, <1>4 DEF Cards, Runs
  <2>2. live' \in [Actions -> {None, "message"} \cup Status]
    BY <1>2 DEF Status
  <2> QED
    BY <1>2, <2>1, <2>2
<1>6. TypeInv'
  <2>1. th' \in [Threads -> Jobs \cup Listings \cup Savings]
    BY <1>3, IdleIs
  <2>2. db'.tasks = db.tasks /\ db.tasks \in Tasks /\ db.kept \subseteq Actions /\ restarts' \in Nat
    BY <1>1, <1>3 DEF TypeInv
  <2> QED
    BY <1>1, <1>3, <1>5, <2>1, <2>2 DEF TypeInv
<1>7. ASSUME NEW a \in Actions
      PROVE  CardOK(a)' /\ KeptOK(a)'
  <2>1. CardOK(a) /\ KeptOK(a)
    BY DEF Inv
  <2>2. PICK c \in {None} \cup ActType, r \in {None} \cup RunRecords :
          c = Again(a) /\ r = Ran(a)
    BY <1>4
  <2>3. act'[a] = c /\ run'[a] = r /\ live'[a] = IF Offered(a) THEN "pending" ELSE None
    BY <1>5, <2>2
  <2>4. /\ Offered(a) => /\ c # None /\ c.status = "pending" /\ c.task = db.act[a].task
                         /\ db.act[a].status \in {"pending", "executing"}
        /\ ~Offered(a) => c = None \/ c = db.act[a]
        /\ a \in db.kept => /\ c = None <=> db.act[a] = None
                            /\ ~Offered(a) => c = db.act[a]
                            /\ r = db.run[a]
        /\ a \notin db.kept => c = None /\ r = None
    BY <1>4, <2>2 DEF Ran
  <2>5. begun[a] \in Nat /\ restarts \in Nat /\ Len(db.tasks[a]) \in Nat
    BY <1>1, Typed, TasksTyped
  <2>6. \A k : Answerable(db.tasks[a], k) => BothAnswerable(a, k)'
    BY <1>3 DEF BothAnswerable, Answerable
  <2>7. CardOK(a)'
    <3>1. kind[a] = None => c = None /\ r = None /\ live'[a] = None
      BY <2>1, <2>3, <2>4 DEF CardOK
    <3>2. r # None => kind[a] = "agent" /\ c # None
      BY <2>1, <2>4 DEF CardOK
    <3>3. c # None /\ c.status = "waiting_approval" => BothAnswerable(a, c.task)'
      BY <2>1, <2>4, <2>6 DEF CardOK, BothAnswerable
    <3>4. PICK d : d = db.act[a] /\ (d # None /\ d.status = "waiting_approval" =>
                                      BothAnswerable(a, d.task)')
      BY <2>1, <2>6 DEF CardOK, BothAnswerable
    <3>5. begun'[a] <= restarts' /\ begun'[a] <= restarts' + 1
      BY <1>3, <2>1, <2>5 DEF CardOK
    <3>6. Len(db'.tasks[a]) <= Len(tasks'[a])
      BY <1>3, <2>5
    <3> QED
      BY <1>3, <2>1, <2>3, <3>1, <3>2, <3>3, <3>4, <3>5, <3>6, NoneIsNothing DEF CardOK
  <2>8. KeptOK(a)'
    <3>1. CASE a \in deleted
      BY <1>3, <3>1 DEF KeptOK
    <3>2. CASE a \notin deleted
      <4>1. /\ a \in db.kept /\ Agree(db.act[a], db.run[a])
            /\ NamesStep(kind[a], db.act[a], db.run[a]) /\ Taskless(db.act[a]) /\ r = db.run[a]
        BY <2>1, <2>4, <3>2 DEF KeptOK
      <4>2. CASE Offered(a)
        <5>1. /\ c # None /\ c.status = "pending" /\ c.task = db.act[a].task
              /\ db.act[a].status \in {"pending", "executing"} /\ db.act[a] # None
          BY <2>4, <4>2
        <5>2. r # None => /\ r.status = "running"
                          /\ \A i \in 1..Len(r.steps) : r.steps[i].status # "waiting_approval"
          <6>1. r # None => r.status = "running"
            BY <4>1, <5>1, StepsTyped DEF Agree, Settled
          <6> QED
            BY <4>1, <6>1, NoWaits
        <5>3. Agree(c, r)
          <6>1. CASE r = None
            BY <6>1 DEF Agree
          <6>2. CASE r # None
            BY <5>1, <5>2, <6>2, AgreeRunning DEF Settled
          <6> QED
            BY <6>1, <6>2
        <5>4. NamesStep(kind[a], c, r) /\ Taskless(c)
          BY <4>1, <5>1 DEF NamesStep, Taskless
        <5>5. "pending" \in {db.act[a].status} \cup Follows(db.act[a].status)
          BY <5>1 DEF Follows
        <5> QED
          BY <1>3, <2>3, <3>2, <4>1, <5>1, <5>2, <5>3, <5>4, <5>5
             DEF KeptOK, Agree, NamesStep, Taskless, Follows
      <4>3. CASE ~Offered(a)
        <5>1. c = db.act[a] /\ live'[a] # "pending"
          BY <2>3, <2>4, <4>1, <4>3, NoneIsNothing DEF Status
        <5> QED
          BY <1>3, <2>3, <3>2, <4>1, <5>1 DEF KeptOK, Agree, NamesStep, Taskless
      <4> QED
        BY <4>2, <4>3
    <3> QED
      BY <3>1, <3>2
  <2> QED
    BY <2>7, <2>8
<1>8. \A t \in Threads : th'[t] = Idle
  BY <1>3
<1>9. /\ \A t \in Threads : \A w \in {Job(t)'} : JobOK(w)' /\ SyncOK(t, w)'
      /\ \A t, u \in Threads : \A w \in {Job(t)'}, v \in {Job(u)'} :
           t # u /\ w # Idle /\ v # Idle => Distinct(w, v)'
  <2>1. (\A t \in Threads : th[t] = Idle)' =>
          (/\ \A t \in Threads : \A w \in {Job(t)} : w = Idle /\ JobOK(w) /\ SyncOK(t, w)
           /\ \A t, u \in Threads : \A w \in {Job(t)}, v \in {Job(u)} :
                t # u /\ w # Idle /\ v # Idle => Distinct(w, v))'
    BY AllIdle, PTL
  <2> QED
    BY <1>8, <2>1
<1> QED
  BY <1>6, <1>7, <1>9 DEF Inv

LEMMA StutterInv ==
  ASSUME Inv, UNCHANGED vars
  PROVE  Inv'
<1>1. UNCHANGED <<kind, live, cached, act, run, kept, tasks, db, th, lock, begun, deleted, restarts>>
  BY DEF vars
<1>2. TypeInv'
  BY <1>1 DEF Inv, TypeInv
<1>3. \A a \in Actions : CardOK(a)' /\ KeptOK(a)'
  BY <1>1 DEF Inv, CardOK, KeptOK, Agree, NamesStep, Taskless, Follows, BothAnswerable, Answerable
<1>4. \A t \in Threads : Job(t)' = Job(t)
  BY <1>1 DEF Job
<1>5. ASSUME NEW t \in Threads, NEW w \in {Job(t)'} PROVE JobOK(w)' /\ SyncOK(t, w)'
  <2>1. JobOK(w) /\ SyncOK(t, w)
    BY <1>4, <1>5 DEF Inv
  <2>2. JobOK(w)'
    BY <1>1, <2>1
       DEF JobOK, AttachOK, WorkerOK, SoleOK, DecisionOK, Single, Open, BothAnswerable, Answerable
  <2> QED
    BY <1>1, <2>1, <2>2 DEF SyncOK, Answerable
<1>6. ASSUME NEW t \in Threads, NEW u \in Threads, NEW w \in {Job(t)'}, NEW v \in {Job(u)'},
             t # u, w # Idle, v # Idle
      PROVE  Distinct(w, v)'
  <2>1. Distinct(w, v)
    BY <1>4, <1>6 DEF Inv
  <2> QED
    BY <1>1, <2>1 DEF Distinct, Single
<1> QED
  BY <1>2, <1>3, <1>5, <1>6 DEF Inv

LEMMA NextInv == Inv /\ [Next]_vars => Inv'
<1> SUFFICES ASSUME Inv, [Next]_vars PROVE Inv'
  OBVIOUS
<1>1. CASE UNCHANGED vars
  BY <1>1, StutterInv
<1>2. CASE \E t \in Threads, a \in Actions : Propose(t, a) /\ UNCHANGED deleted
  BY <1>2, ProposeInv
<1>3. CASE \E t \in Threads, a \in Actions : DeleteChatSession(t, a) /\ UNCHANGED kind
  BY <1>3, DeleteChatSessionInv
<1>4. CASE Restart /\ UNCHANGED <<kind, deleted>>
  BY <1>4, RestartInv
<1>5. ASSUME UNCHANGED <<kind, deleted>>, NEW t \in Threads, NEW a \in Actions,
             \/ CancelChatAction(t, a) \/ Execute(t, a)
             \/ \E k \in 1..MaxTasks :
                  \/ \E v \in {"approved", "rejected"} :
                       Decide(t, a, k, v) \/ DecideApproval(t, a, k, v)
                  \/ ResumeTask(t, a, k)
      PROVE  Inv'
  BY <1>5, CancelChatActionInv, ExecuteInv, DecideInv, DecideApprovalInv, ResumeTaskInv
<1>6. ASSUME UNCHANGED <<kind, deleted>>, NEW t \in Threads,
             \/ Attach(t) \/ Call(t) \/ CallRaises(t) \/ Record(t)
             \/ \E out \in Outcomes : Work(t, out)
             \/ StartAgentRun(t) \/ DecideTool(t) \/ CompleteAgentRun(t) \/ FailAgentRun(t)
      PROVE  Inv'
  BY <1>6, AttachInv, CallInv, CallRaisesInv, RecordInv, WorkInv, StartAgentRunInv, DecideToolInv,
     CompleteAgentRunInv, FailAgentRunInv
<1>7. ASSUME UNCHANGED <<kind, deleted>>, NEW t \in Threads,
             \/ ModelRaises(t) \/ StepRaises(t) \/ StepWaits(t) \/ StepEnds(t)
             \/ ResumeDecided(t) \/ NoteOnCard(t) \/ NoteOnRun(t)
             \/ SaveTasks(t) \/ SaveChat(t)
      PROVE  Inv'
  BY <1>7, ModelRaisesInv, StepRaisesInv, StepWaitsInv, StepEndsInv, ResumeDecidedInv, NoteOnCardInv,
     NoteOnRunInv, SaveTasksInv, SaveChatInv
<1> QED
  BY <1>1, <1>2, <1>3, <1>4, <1>5, <1>6, <1>7 DEF Next

LEMMA InvAlways == Spec => []Inv
<1>1. Init => Inv
  BY InitInv
<1>2. Inv /\ [Next]_vars => Inv'
  BY NextInv
<1> QED
  BY <1>1, <1>2, PTL DEF Spec

-----------------------------------------------------------------------------
(* What the runs check                                                     *)

LEMMA InvTypes == Inv => TypeOK
<1> SUFFICES ASSUME Inv PROVE TypeOK
  OBVIOUS
<1>1. TypeInv
  BY DEF Inv
<1>2. PICK mem : mem = [act |-> act, run |-> run, kept |-> kept, tasks |-> tasks]
  OBVIOUS
<1>3. ASSUME NEW r \in {mem, db}, NEW a \in Actions
      PROVE  /\ r.act[a] \in {None} \cup ActType /\ r.run[a] \in {None} \cup RunType
             /\ r.tasks[a] \in UNION {[1..n -> TaskType] : n \in 0..MaxTasks}
             /\ r.kept \subseteq Actions
  <2>1. /\ r.act[a] \in {None} \cup ActType /\ r.run[a] \in {None} \cup RunRecords
        /\ r.tasks[a] \in TaskSeqs /\ r.kept \subseteq Actions
    <3>1. CASE r = mem
      BY <1>1, <1>2, <3>1, Typed DEF TypeInv
    <3>2. CASE r = db
      BY <1>1, <3>2, Typed
    <3> QED
      BY <1>3, <3>1, <3>2
  <2>2. r.run[a] \in {None} \cup RunType
    BY <2>1, RunTyped
  <2>3. r.tasks[a] \in UNION {[1..n -> TaskType] : n \in 0..MaxTasks}
    BY <2>1, TasksTyped, Bounds, SeqIsFunction
  <2> QED
    BY <2>1, <2>2, <2>3
<1> QED
  BY <1>1, <1>2, <1>3 DEF TypeOK, TypeInv

LEMMA InvAnswerable == Inv => WaitingIsAnswerable
<1> SUFFICES ASSUME Inv PROVE WaitingIsAnswerable
  OBVIOUS
<1>1. TypeInv
  BY DEF Inv
<1>2. PICK mem, row : /\ mem = [act |-> act, kept |-> kept, tasks |-> tasks]
                      /\ row = [act |-> db.act, kept |-> db.kept, tasks |-> db.tasks]
  OBVIOUS
<1>3. ASSUME NEW r \in {mem, row}, NEW a \in r.kept,
             r.act[a] # None, r.act[a].status = "waiting_approval"
      PROVE  /\ r.act[a].task \in 1..Len(r.tasks[a])
             /\ r.tasks[a][r.act[a].task].approval # "none"
             /\ r.tasks[a][r.act[a].task].status \in {"needs_approval"} \cup TaskFinal
  <2>1. \/ r.act = act /\ r.kept = kept /\ r.tasks = tasks
        \/ r.act = db.act /\ r.kept = db.kept /\ r.tasks = db.tasks
    BY <1>2, <1>3
  <2>2. a \in Actions
    BY <1>1, <1>3, <2>1 DEF TypeInv
  <2>3. CardOK(a) /\ tasks[a] \in TaskSeqs /\ db.tasks[a] \in TaskSeqs
    BY <1>1, <2>2, Typed DEF Inv
  <2>4. Answerable(r.tasks[a], r.act[a].task) /\ r.tasks[a] \in TaskSeqs
    BY <1>3, <2>1, <2>3 DEF CardOK, BothAnswerable
  <2> QED
    BY <2>4, TasksTyped DEF Answerable
<1> QED
  BY <1>2, <1>3 DEF WaitingIsAnswerable

LEMMA InvAgrees == Inv => RunAgreesWithCard
<1> SUFFICES ASSUME Inv PROVE RunAgreesWithCard
  OBVIOUS
<1>1. ASSUME NEW a \in kept \ deleted, run[a] # None
      PROVE  LET waits == {i \in 1..LastStep(a) : run[a].steps[i].status = "waiting_approval"} IN
             /\ run[a].status = "waiting_approval" <=> act[a].status = "waiting_approval"
             /\ run[a].status = "waiting_approval" <=> waits # {}
             /\ waits \subseteq {LastStep(a)}
             /\ run[a].status \in Settled => act[a].status = run[a].status
             /\ a \in cached => run[a].status \in Settled
  <2>1. KeptOK(a)
    BY <1>1 DEF Inv, TypeInv
  <2> QED
    BY <1>1, <2>1 DEF KeptOK, Agree, LastStep
<1> QED
  BY <1>1 DEF RunAgreesWithCard

\* Cards, runs and tasks have the statuses their records allow, in memory and in
\* the rows, whatever requests are interleaved and whenever a restart comes.
THEOREM CardsTyped == Spec => []TypeOK
BY InvAlways, InvTypes, PTL

\* A card that waits names a task that can be decided or has been, in memory and
\* after a restart: the task was stored before the card that waits for it was.
THEOREM WaitingAnswered == Spec => []WaitingIsAnswerable
BY InvAlways, InvAnswerable, PTL

\* As long as its session is kept, an agent run says what its card says: only its
\* last step waits, with the run and the card, and it settles with the card.
THEOREM RunsAgree == Spec => []RunAgreesWithCard
BY InvAlways, InvAgrees, PTL

-----------------------------------------------------------------------------
(* The stored card is an ActionCard                                        *)

Stored == [a \in Actions |-> IF a \in deleted \/ db.act[a] = None THEN "none" ELSE db.act[a].status]

LEMMA StoredIs ==
  \A a \in Actions :
    Stored[a] = IF a \in deleted \/ db.act[a] = None THEN "none" ELSE db.act[a].status
BY DEF Stored

LEMMA CardInitially == Init => Card!CardInit
<1> SUFFICES ASSUME Init PROVE Card!CardInit
  OBVIOUS
<1>1. \A a \in Actions : db.act[a] = None
  BY DEF Init
<1>2. Stored = [a \in Actions |-> "none"]
  BY <1>1 DEF Stored
<1>3. begun = [a \in Actions |-> 0] /\ restarts + 1 = 1
  BY DEF Init
<1> QED
  BY <1>2, <1>3 DEF Card!CardInit, Stored

\* A step that changes no stored card.
LEMMA CardStays ==
  ASSUME db'.act = db.act, UNCHANGED <<deleted, begun, restarts>>
  PROVE  UNCHANGED Card!cardVars
<1>1. UNCHANGED Stored
  BY DEF Stored
<1> QED
  BY <1>1 DEF Card!cardVars, Stored

LEMMA CardConfirmed ==
  ASSUME Inv, NEW t \in Threads, NEW a \in Actions, Execute(t, a), UNCHANGED <<kind, deleted>>
  PROVE  Card!Confirm(a)
<1>1. /\ TypeInv /\ KeptOK(a) /\ live[a] = "pending"
      /\ begun[a] <= restarts /\ begun[a] \in Nat /\ restarts \in Nat
  BY OfferedFacts DEF Execute, Confirmable
<1>2. Stored[a] \notin {"completed", "cancelled", "failed"} \cup {"waiting_approval"}
  <2>1. CASE a \in deleted \/ db.act[a] = None
    BY <2>1, StoredIs
  <2>2. CASE ~(a \in deleted \/ db.act[a] = None)
    <3>1. /\ act[a].status = "pending"
          /\ act[a].status \in {db.act[a].status} \cup Follows(db.act[a].status)
      BY <1>1, <2>2 DEF KeptOK
    <3>2. db.act[a].status \in {"pending", "executing"}
      BY <1>1, <2>2, <3>1, Typed, CardTyped DEF Follows, Status, Settled
    <3> QED
      BY <2>2, <3>2, StoredIs
  <2> QED
    BY <2>1, <2>2
<1>3. begun[a] < restarts + 1
  BY <1>1
<1>4. begun' = [begun EXCEPT ![a] = begun[a] + 1] /\ UNCHANGED <<db, restarts, deleted>>
  BY DEF Execute
<1>5. UNCHANGED Stored
  BY <1>4 DEF Stored
<1> QED
  BY <1>2, <1>3, <1>4, <1>5 DEF Card!Confirm, Card!Settled, Stored

LEMMA CardWritten ==
  ASSUME Inv, NEW t \in Threads, SaveChat(t), UNCHANGED <<kind, deleted>>
  PROVE  Card!Write
<1>1. TypeInv
  BY DEF Inv
<1>2. UNCHANGED <<begun, restarts, act, deleted>>
  BY DEF SaveChat
<1>3. \A a \in Actions : db'.act[a] \in {act[a], db.act[a]}
  BY <1>1 DEF SaveChat, TypeInv
<1>4. ASSUME NEW a \in Actions
      PROVE  /\ Stored'[a] \in {"none"} \cup Status
             /\ Stored'[a] \in {"none", Stored[a]} \cup Card!Follows(Stored[a])
  <2>1. /\ Stored[a] = IF a \in deleted \/ db.act[a] = None THEN "none" ELSE db.act[a].status
        /\ Stored'[a] = IF a \in deleted' \/ db'.act[a] = None THEN "none" ELSE db'.act[a].status
    BY DEF Stored
  <2>2. CASE a \in deleted \/ db'.act[a] = None
    BY <1>2, <2>1, <2>2
  <2>3. CASE a \notin deleted /\ db'.act[a] # None /\ db'.act[a] = db.act[a]
    <3>1. db.act[a].status \in Status
      BY <1>1, <2>3, Typed, CardTyped
    <3> QED
      BY <1>2, <2>1, <2>3, <3>1
  <2>4. CASE a \notin deleted /\ db'.act[a] # None /\ db'.act[a] = act[a]
    <3>1. act[a].status \in Status /\ KeptOK(a)
      BY <1>1, <2>4, Typed, CardTyped DEF Inv
    <3>2. Stored'[a] = act[a].status
      BY <1>2, <2>1, <2>4
    <3>3. CASE db.act[a] = None
      BY <2>1, <3>1, <3>2, <3>3 DEF Card!Follows, Card!Settled, Status, Settled
    <3>4. CASE db.act[a] # None
      <4>1. /\ act[a].status \in {db.act[a].status} \cup Follows(db.act[a].status)
            /\ Stored[a] = db.act[a].status /\ db.act[a].status \in Status
        BY <1>1, <2>1, <2>4, <3>1, <3>4, Typed, CardTyped DEF KeptOK
      <4> QED
        BY <3>1, <3>2, <4>1 DEF Card!Follows, Card!Settled, Follows, Status, Settled
    <3> QED
      BY <3>3, <3>4
  <2> QED
    BY <1>3, <2>2, <2>3, <2>4
<1>5. Stored' \in [Actions -> {"none"} \cup Status]
  <2>1. Stored' = [a \in Actions |-> Stored'[a]]
    BY DEF Stored
  <2> QED
    BY <1>4, <2>1
<1>6. {"none"} \cup Status = {"none", "pending", "executing", "waiting_approval"} \cup Card!Settled
  BY DEF Status, Settled, Card!Settled
<1>7. Stored' \in [Actions -> {"none", "pending", "executing", "waiting_approval"} \cup Card!Settled]
  BY <1>5, <1>6
<1>8. \A a \in Actions : Stored'[a] \in {"none", Stored[a]} \cup Card!Follows(Stored[a])
  BY <1>4
<1> QED
  BY <1>2, <1>7, <1>8 DEF Card!Write, Stored

LEMMA CardTaken ==
  ASSUME Inv, NEW t \in Threads, NEW d \in Actions, DeleteChatSession(t, d), UNCHANGED kind
  PROVE  Card!Write
<1>1. TypeInv
  BY DEF Inv
<1>2. deleted' = deleted \cup {d} /\ db'.act = db.act /\ UNCHANGED <<begun, restarts>>
  BY <1>1 DEF DeleteChatSession, TypeInv
<1>3. ASSUME NEW a \in Actions
      PROVE  Stored'[a] \in {"none"} \cup Status /\ Stored'[a] \in {"none", Stored[a]}
  <2>1. /\ Stored[a] = IF a \in deleted \/ db.act[a] = None THEN "none" ELSE db.act[a].status
        /\ Stored'[a] = IF a \in deleted' \/ db'.act[a] = None THEN "none" ELSE db'.act[a].status
    BY DEF Stored
  <2>2. db.act[a] # None => db.act[a].status \in Status
    BY <1>1, Typed, CardTyped
  <2> QED
    BY <1>2, <2>1, <2>2
<1>4. Stored' \in [Actions -> {"none"} \cup Status]
  <2>1. Stored' = [a \in Actions |-> Stored'[a]]
    BY DEF Stored
  <2> QED
    BY <1>3, <2>1
<1>5. {"none"} \cup Status = {"none", "pending", "executing", "waiting_approval"} \cup Card!Settled
  BY DEF Status, Settled, Card!Settled
<1>6. Stored' \in [Actions -> {"none", "pending", "executing", "waiting_approval"} \cup Card!Settled]
  BY <1>4, <1>5
<1>7. \A a \in Actions : Stored'[a] \in {"none", Stored[a]} \cup Card!Follows(Stored[a])
  BY <1>3
<1> QED
  BY <1>2, <1>6, <1>7 DEF Card!Write, Stored

\* Each step is a step of the card or leaves it as it is.
LEMMA CardSteps == Inv /\ [Next]_vars => [Card!CardNext]_Card!cardVars
<1> SUFFICES ASSUME Inv, [Next]_vars PROVE [Card!CardNext]_Card!cardVars
  OBVIOUS
<1>1. CASE UNCHANGED vars
  BY <1>1, CardStays DEF vars
<1>2. CASE \E t \in Threads, a \in Actions : Propose(t, a) /\ UNCHANGED deleted
  BY <1>2, CardStays DEF Propose
<1>3. CASE \E t \in Threads, a \in Actions : DeleteChatSession(t, a) /\ UNCHANGED kind
  BY <1>3, CardTaken DEF Card!CardNext
<1>4. CASE Restart /\ UNCHANGED <<kind, deleted>>
  <2>1. restarts \in Nat
    BY DEF Inv, TypeInv
  <2>2. UNCHANGED Stored /\ UNCHANGED begun /\ restarts' + 1 = (restarts + 1) + 1
    BY <1>4, <2>1 DEF Restart, Stored
  <2> QED
    BY <2>2 DEF Card!CardNext, Card!Restart, Stored
<1>5. ASSUME UNCHANGED <<kind, deleted>>, NEW t \in Threads, NEW a \in Actions, Execute(t, a)
      PROVE  Card!CardNext
  BY <1>5, CardConfirmed DEF Card!CardNext
<1>6. ASSUME UNCHANGED <<kind, deleted>>, NEW t \in Threads, SaveChat(t)
      PROVE  Card!CardNext
  BY <1>6, CardWritten DEF Card!CardNext
<1>7. ASSUME UNCHANGED <<kind, deleted>>, NEW t \in Threads, SaveTasks(t)
      PROVE  UNCHANGED Card!cardVars
  <2>1. db'.act = db.act /\ UNCHANGED <<deleted, begun, restarts>>
    BY <1>7 DEF SaveTasks, Inv, TypeInv
  <2> QED
    BY <2>1, CardStays
<1>8. ASSUME UNCHANGED <<kind, deleted>>, NEW t \in Threads, NEW a \in Actions,
             \/ CancelChatAction(t, a)
             \/ \E k \in 1..MaxTasks :
                  \/ \E v \in {"approved", "rejected"} :
                       Decide(t, a, k, v) \/ DecideApproval(t, a, k, v)
                  \/ ResumeTask(t, a, k)
      PROVE  UNCHANGED Card!cardVars
  <2>1. UNCHANGED <<db, deleted, begun, restarts>>
    BY <1>8 DEF CancelChatAction, Decide, DecideApproval, ResumeTask
  <2> QED
    BY <2>1, CardStays
<1>9. ASSUME UNCHANGED <<kind, deleted>>, NEW t \in Threads,
             \/ Attach(t) \/ Call(t) \/ CallRaises(t) \/ Record(t)
             \/ \E out \in Outcomes : Work(t, out)
             \/ StartAgentRun(t) \/ DecideTool(t) \/ CompleteAgentRun(t) \/ FailAgentRun(t)
      PROVE  UNCHANGED Card!cardVars
  <2>1. UNCHANGED <<db, deleted, begun, restarts>>
    BY <1>9 DEF Attach, Call, CallRaises, Record, Work, StartAgentRun, DecideTool,
         CompleteAgentRun, FailAgentRun, RunEnds, Raises
  <2> QED
    BY <2>1, CardStays
<1>10. ASSUME UNCHANGED <<kind, deleted>>, NEW t \in Threads,
              \/ ModelRaises(t) \/ StepRaises(t) \/ StepWaits(t) \/ StepEnds(t)
              \/ ResumeDecided(t) \/ NoteOnCard(t) \/ NoteOnRun(t)
       PROVE  UNCHANGED Card!cardVars
  <2>1. UNCHANGED <<db, deleted, begun, restarts>>
    BY <1>10 DEF ModelRaises, StepRaises, StepWaits, StepEnds, ResumeDecided, NoteOnCard, NoteOnRun,
         Noting, RunEnds, Raises
  <2> QED
    BY <2>1, CardStays
<1> QED
  BY <1>1, <1>2, <1>3, <1>4, <1>5, <1>6, <1>7, <1>8, <1>9, <1>10 DEF Next

\* The stored cards are ActionCards: confirmed at most once in each process, offered
\* again after a restart only before they came to anything, settled for good.
THEOREM ChatImplementsCard == Spec => ImplementsCard
<1>1. Init => Card!CardInit
  BY CardInitially
<1>2. Inv /\ [Next]_vars => [Card!CardNext]_Card!cardVars
  BY CardSteps
<1> QED
  BY <1>1, <1>2, InvAlways, PTL DEF Spec, ImplementsCard, Card!CardSpec

=============================================================================
