------------------------- MODULE ToolRuntime_proofs -------------------------
(***************************************************************************)
(* Proofs about ToolRuntime, for every set of threads, runs, tools and     *)
(* agents, any number of restarts, reconfigurations and edits.             *)
(***************************************************************************)
EXTENDS ToolRuntime, TLAPS

-----------------------------------------------------------------------------
(* The shapes of the records                                               *)

Acting == [pc : {"act", "replace", "record"}, run : Runs, held : RunRecords]
Saving == [pc : {"save_approvals", "save_runs"},
           listed : SUBSET Runs, approvals : SUBSET Runs]

LEMMA States == ThreadStates = {Idle} \cup Acting \cup Saving
BY DEF ThreadStates, Acting, Saving

LEMMA CatalogShape ==
  ASSUME catalog \in Catalogs,
         NEW k \in DOMAIN catalog.tools, NEW a \in DOMAIN catalog.agents
  PROVE  catalog.tools[k] \in Tools /\ a \in Actors
BY DEF Tools, Actors

LEMMA NewRunShape ==
  ASSUME NEW a \in Actors, NEW tool \in Tools, NEW pinned \in BOOLEAN,
         NEW status \in RunStatus, file \in Nat
  PROVE  /\ NewRun(a, tool, pinned, status) \in RunRecords
         /\ NewRun(a, tool, pinned, status) # None
BY NoneAssumption DEF NewRun, RunRecords

LEMMA RequestShape ==
  ASSUME NEW run \in RunRecords, file \in Nat
  PROVE  Request(run, file) \in Requested
BY DEF Request, ApprovalInput, RunRecords, Requested

LEMMA PendingShape ==
  ASSUME NEW q \in Requested
  PROVE  /\ [status |-> "pending", by |-> None, request |-> q] \in ApprovalRecords
         /\ [status |-> "pending", by |-> None, request |-> q] # None
BY NoneAssumption DEF ApprovalRecords, Undecided

\* A run or an approval takes another status and is otherwise what it was.
LEMMA StatusChange ==
  ASSUME NEW run \in RunRecords, NEW status \in RunStatus
  PROVE  /\ [run EXCEPT !.status = status] \in RunRecords
         /\ [run EXCEPT !.status = status] # None
         /\ [run EXCEPT !.status = status].tool = run.tool
         /\ [run EXCEPT !.status = status].actor = run.actor
         /\ [run EXCEPT !.status = status].status = status
BY NoneAssumption DEF RunRecords

LEMMA DecisionShape ==
  ASSUME NEW p \in ApprovalRecords, NEW d \in Decisions, NEW by \in Deciders
  PROVE  /\ [p EXCEPT !.status = d, !.by = by] \in ApprovalRecords
         /\ [p EXCEPT !.status = d, !.by = by] # None
BY NoneAssumption DEF ApprovalRecords, Decisions, Undecided

-----------------------------------------------------------------------------
(* The invariant                                                           *)

\* The threads that hold the run r, on the way to its adapter or back.
Holds(t, r) == th[t].pc \in {"act", "replace", "record"} /\ th[t].run = r

SameWork(run, other) == run.tool = other.tool /\ run.actor = other.actor

\* Two threads that hold a run agree on what it does and for whom.
HoldersAgree(t, u) ==
  \A r \in Runs : Holds(t, r) /\ Holds(u, r) => SameWork(th[u].held, th[t].held)

\* A thread that holds a run agrees with the run that is registered, and acts
\* only if the run is harmless, or allowed and approved.
HoldsOK(t) ==
  \A r \in Runs : Holds(t, r) =>
    /\ runs[r] # None => SameWork(runs[r], th[t].held)
    /\ th[t].pc = "record" => th[t].held.status \in {"completed", "failed"}
    /\ th[t].pc # "record" =>
         Harmless(th[t].held) \/ (runs[r] # None /\ approvals[r] # None /\ Authorized(r))

\* What a sync has listed is there, and a listed run that waits has an approval
\* that is listed, or by then stored.
SyncOK(t) ==
  /\ th[t].pc = "save_approvals" =>
       /\ \A r \in th[t].approvals : approvals[r] # None
       /\ \A r \in th[t].listed :
            runs[r] # None /\ (runs[r].status = "waiting_approval" => r \in th[t].approvals)
  /\ th[t].pc = "save_runs" =>
       \A r \in th[t].listed :
         runs[r] # None /\ (runs[r].status = "waiting_approval" => db.approvals[r] # None)

\* A stored decision that is final is the decision in memory.
FinalIsShared ==
  \A r \in Runs : db.approvals[r] # None /\ db.approvals[r].status \in Final =>
    approvals[r] = db.approvals[r]

Inv ==
  /\ TypeOK
  /\ \A t \in Threads : HoldsOK(t) /\ SyncOK(t) /\ \A u \in Threads : HoldersAgree(t, u)
  /\ FinalIsShared
  /\ WaitingHasApproval

-----------------------------------------------------------------------------
(* One step of one thread                                                  *)

\* A new run is known to nobody.
LEMMA FreshIsUnknown ==
  ASSUME Inv, NEW t \in Threads, NEW r \in Runs, Fresh(t, r)
  PROVE  /\ \A u \in Threads : ~Holds(u, r)
         /\ db.approvals[r] # None => db.approvals[r].status \notin Final
<1>1. ASSUME NEW u \in Threads, Holds(u, r) PROVE FALSE
  <2>1. th[u] \in Acting
    BY <1>1, States DEF Inv, TypeOK, Holds, Idle, Saving
  <2> QED
    BY <1>1, <2>1 DEF Fresh, Holds, Acting
<1> QED
  BY <1>1 DEF Fresh, Inv, FinalIsShared

\* Runs and approvals are never taken back, a run keeps its work and does not
\* return to waiting, a final decision stands, and a run that appears is the one
\* the other threads hold.
Monotone(t) ==
  \A r \in Runs :
    /\ runs[r] # None => /\ runs'[r] # None /\ SameWork(runs'[r], runs[r])
                         /\ runs'[r].status = "waiting_approval"
                              => runs[r].status = "waiting_approval"
    /\ approvals[r] # None => /\ approvals'[r] # None
                              /\ approvals[r].status \in Final => approvals'[r] = approvals[r]
    /\ db.approvals[r] # None => db'.approvals[r] # None
    /\ runs[r] = None =>
         \/ runs'[r] = None
         \/ \A u \in Threads : u # t /\ Holds(u, r) => SameWork(runs'[r], th[u].held)

LEMMA OthersStay ==
  ASSUME Inv, NEW t \in Threads, NEW u \in Threads, u # t, th'[u] = th[u],
         catalog' = catalog, Monotone(t)
  PROVE  HoldsOK(u)' /\ SyncOK(u)'
<1>1. HoldsOK(u) /\ SyncOK(u) /\ th[u] \in ThreadStates
  BY DEF Inv, TypeOK
<1>2. HoldsOK(u)'
  <2> SUFFICES ASSUME NEW r \in Runs, Holds(u, r)
               PROVE  /\ runs'[r] # None => SameWork(runs'[r], th[u].held)
                      /\ th[u].pc = "record" => th[u].held.status \in {"completed", "failed"}
                      /\ th[u].pc # "record" =>
                           \/ Harmless(th[u].held)
                           \/ runs'[r] # None /\ approvals'[r] # None /\ Authorized(r)'
    BY DEF HoldsOK, Holds, Harmless
  <2>1. runs'[r] # None => SameWork(runs'[r], th[u].held)
    BY <1>1 DEF HoldsOK, Monotone, SameWork
  <2>2. ASSUME runs[r] # None, approvals[r] # None, Authorized(r)
        PROVE  runs'[r] # None /\ approvals'[r] # None /\ Authorized(r)'
    <3>1. approvals'[r] = approvals[r] /\ runs'[r] # None /\ SameWork(runs'[r], runs[r])
      BY <2>2 DEF Authorized, Monotone, Final
    <3> QED
      BY <2>2, <3>1 DEF Authorized, SameWork, LiveTool, LiveAgent
  <2> QED
    BY <1>1, <2>1, <2>2 DEF HoldsOK
<1>3. SyncOK(u)'
  <2>1. th[u].pc \in {"save_approvals", "save_runs"} =>
          th[u].listed \subseteq Runs /\ th[u].approvals \subseteq Runs
    BY <1>1, States DEF Idle, Acting, Saving
  <2> QED
    BY <1>1, <2>1 DEF SyncOK, Monotone
<1> QED
  BY <1>2, <1>3

LEMMA OneThreadSteps ==
  ASSUME Inv, NEW t \in Threads, TypeOK', catalog' = catalog, Monotone(t),
         \A u \in Threads : u # t => th'[u] = th[u],
         HoldsOK(t)', SyncOK(t)', \A u \in Threads : u # t => HoldersAgree(t, u)',
         FinalIsShared', WaitingHasApproval'
  PROVE  Inv'
<1>1. \A u \in Threads : HoldsOK(u)' /\ SyncOK(u)'
  BY OthersStay
<1>2. ASSUME NEW u \in Threads, NEW v \in Threads PROVE HoldersAgree(u, v)'
  <2>1. CASE u = v
    BY <2>1 DEF HoldersAgree, SameWork
  <2>2. CASE u = t /\ v # t
    BY <2>2
  <2>3. CASE v = t /\ u # t
    BY <2>3 DEF HoldersAgree, SameWork
  <2>4. CASE u # t /\ v # t
    BY <2>4 DEF HoldersAgree, Holds, Inv
  <2> QED
    BY <2>1, <2>2, <2>3, <2>4
<1> QED
  BY <1>1, <1>2 DEF Inv

\* A sync that begins lists what there is, so it is in order.
LEMMA SyncBegins ==
  ASSUME Inv, NEW t \in Threads, WaitingHasApproval', th' = [th EXCEPT ![t] = Sync]
  PROVE  /\ th' \in [Threads -> ThreadStates]
         /\ \A u \in Threads : u # t => th'[u] = th[u]
         /\ HoldsOK(t)' /\ SyncOK(t)' /\ \A u \in Threads : u # t => HoldersAgree(t, u)'
<1>1. Sync \in Saving /\ th \in [Threads -> ThreadStates]
  BY DEF Inv, TypeOK, Sync, Saving
<1>2. th'[t] = Sync /\ \A u \in Threads : u # t => th'[u] = th[u]
  BY <1>1
<1>3. th' \in [Threads -> ThreadStates]
  BY <1>1, States
<1>4. \A r \in Runs : ~Holds(t, r)'
  BY <1>2 DEF Holds, Sync
<1>5. SyncOK(t)'
  BY <1>2 DEF SyncOK, Sync, WaitingHasApproval, Waiting
<1> QED
  BY <1>2, <1>3, <1>4, <1>5 DEF HoldsOK, HoldersAgree

-----------------------------------------------------------------------------
(* The actions                                                             *)

LEMMA InvInit == Init => Inv
BY DEF Init, Inv, TypeOK, HoldsOK, SyncOK, HoldersAgree, FinalIsShared,
       WaitingHasApproval, Waiting, Holds, Idle, ThreadStates

LEMMA RequestTypes ==
  ASSUME Inv, NEW a \in DOMAIN catalog.agents, NEW k \in DOMAIN catalog.tools,
         NEW pinned \in BOOLEAN, NEW status \in RunStatus
  PROVE  LET run == NewRun(a, catalog.tools[k], pinned, status) IN
         /\ run \in RunRecords /\ run # None
         /\ run.tool = catalog.tools[k] /\ run.actor = a /\ run.status = status
         /\ Request(run, file) \in Requested
         /\ Request(run, file).tool = catalog.tools[k].id
<1>1. catalog \in Catalogs /\ file \in Nat
  BY DEF Inv, TypeOK
<1> QED
  BY <1>1, CatalogShape, NewRunShape, RequestShape DEF NewRun, Request

\* A refused request, or one that waits for its approval, is registered.
LEMMA RegisterStep ==
  ASSUME Inv, NEW t \in Threads, NEW r \in Runs, Fresh(t, r),
         NEW run \in RunRecords, run # None, NEW p \in {None} \cup ApprovalRecords,
         run.status = "waiting_approval" => p # None,
         runs' = [runs EXCEPT ![r] = run], approvals' = [approvals EXCEPT ![r] = p],
         th' = [th EXCEPT ![t] = Sync]
  PROVE  Inv'
<1>1. UNCHANGED <<catalog, db, file, executed>> /\ runs[r] = None /\ approvals[r] = None
  BY DEF Fresh
<1>2. /\ runs \in [Runs -> {None} \cup RunRecords]
      /\ approvals \in [Runs -> {None} \cup ApprovalRecords]
  BY DEF Inv, TypeOK
<1>3. /\ runs' \in [Runs -> {None} \cup RunRecords]
      /\ approvals' \in [Runs -> {None} \cup ApprovalRecords]
      /\ runs'[r] = run /\ approvals'[r] = p
      /\ \A q \in Runs : q # r => runs'[q] = runs[q] /\ approvals'[q] = approvals[q]
  BY <1>2
<1>4. WaitingHasApproval'
  <2>1. \A q \in Runs : Waiting(q)' => approvals'[q] # None
    BY <1>3 DEF Inv, WaitingHasApproval, Waiting
  <2> QED
    BY <1>1, <2>1 DEF Inv, WaitingHasApproval
<1>5. FinalIsShared'
  BY <1>1, <1>3, FreshIsUnknown DEF Inv, FinalIsShared
<1>6. Monotone(t)
  BY <1>1, <1>3, FreshIsUnknown DEF Monotone, SameWork
<1>7. TypeOK'
  BY <1>1, <1>3, <1>4, SyncBegins DEF Inv, TypeOK
<1> QED
  BY <1>1, <1>4, <1>5, <1>6, <1>7, SyncBegins, OneThreadSteps

LEMMA RequestStep ==
  ASSUME Inv, NEW t \in Threads, NEW r \in Runs, NEW a \in DOMAIN catalog.agents,
         NEW k \in DOMAIN catalog.tools, NEW pinned \in BOOLEAN,
         RequestRefused(t, r, a, k, pinned) \/ RequestWaits(t, r, a, k, pinned)
  PROVE  Inv'
<1>1. CASE RequestRefused(t, r, a, k, pinned)
  <2> DEFINE run == NewRun(a, catalog.tools[k], pinned, "blocked")
  <2>1. run \in RunRecords /\ run # None /\ run.status # "waiting_approval"
    BY RequestTypes DEF RunStatus, Settled
  <2>2. approvals' = [approvals EXCEPT ![r] = None]
    BY <1>1 DEF RequestRefused, Fresh, Inv, TypeOK
  <2>3. /\ Fresh(t, r) /\ runs' = [runs EXCEPT ![r] = run] /\ th' = [th EXCEPT ![t] = Sync]
    BY <1>1 DEF RequestRefused
  <2> HIDE DEF run
  <2> QED
    BY <2>1, <2>2, <2>3, RegisterStep
<1>2. CASE RequestWaits(t, r, a, k, pinned)
  <2> DEFINE run == NewRun(a, catalog.tools[k], pinned, "waiting_approval")
             p == [status |-> "pending", by |-> None, request |-> Request(run, file)]
  <2>1. run \in RunRecords /\ run # None /\ Request(run, file) \in Requested
    BY RequestTypes DEF RunStatus
  <2>2. p \in ApprovalRecords /\ p # None
    BY <2>1, PendingShape
  <2>3. /\ Fresh(t, r) /\ runs' = [runs EXCEPT ![r] = run] /\ th' = [th EXCEPT ![t] = Sync]
        /\ approvals' = [approvals EXCEPT ![r] = p]
    BY <1>2 DEF RequestWaits
  <2> HIDE DEF run, p
  <2> QED
    BY <2>1, <2>2, <2>3, RegisterStep
<1> QED
  BY <1>1, <1>2

LEMMA AssessedRisk ==
  ASSUME NEW action, NEW level
  PROVE  Assess(action, level).level \in RiskLevels
BY DEF Assess, RiskLevels, Low, Medium, High, Forbidden

\* A tool whose assessment does not require approval has the lowest risk.
LEMMA ToolAssessed ==
  ASSUME NEW tool, ~AssessTool(tool).requires
  PROVE  LET level == Assess(tool.action, tool.level).level
         IN  (IF level > tool.risk THEN level ELSE tool.risk) = Low
<1> DEFINE level == Assess(tool.action, tool.level).level
           risk == IF level > tool.risk THEN level ELSE tool.risk
           needs == Assess(tool.action, tool.level).requires \/ tool.requires \/ risk # Low
           blocks == Assess(tool.action, tool.level).blocked \/ risk = Forbidden
<1>1. AssessTool(tool) = [level |-> risk, requires |-> needs, blocked |-> blocks]
  BY DEF AssessTool
<1>2. ~needs
  <2> HIDE DEF needs, blocks, risk
  <2> QED
    BY <1>1
<1> QED
  BY <1>2

\* Neither engine asks for approval only if tool and action are harmless.
LEMMA UnapprovedIsHarmless ==
  ASSUME catalog \in Catalogs, NEW a \in DOMAIN catalog.agents,
         NEW k \in DOMAIN catalog.tools,
         ~ToolRefused(catalog.agents[a], catalog.tools[k]),
         ~ToolNeedsApproval(catalog.agents[a], catalog.tools[k]),
         NEW run, run.tool = catalog.tools[k], run.actor = a
  PROVE  Harmless(run)
<1> DEFINE tool == catalog.tools[k]
           agent == catalog.agents[a]
           assessed == Assess(tool.action, tool.level)
<1>1. /\ tool.id = k /\ tool.level \in Levels /\ tool.risk \in RiskLevels
      /\ agent.permissions \subseteq Levels \ {5}
  BY CatalogAssumption
<1>2. /\ ~tool.requires /\ assessed.level \in RiskLevels
      /\ (IF assessed.level > tool.risk THEN assessed.level ELSE tool.risk) = Low
  BY AssessedRisk, ToolAssessed DEF ToolNeedsApproval
<1>3. assessed.level = Low /\ tool.risk = Low
  BY <1>1, <1>2 DEF RiskLevels, Low
<1>4. /\ tool.action \notin HighRiskActions \cup MediumRiskActions
      /\ tool.level \notin {L3, L4}
  BY <1>3 DEF Assess, Low, Medium, High, Forbidden
<1>5. PICK own \in agent.permissions : ~(tool.level > own)
  BY DEF ToolRefused, Evaluate
<1>6. tool.level < L3
  BY <1>1, <1>4, <1>5 DEF Levels, L3, L4
<1>7. catalog.tools[run.tool.id] = tool /\ catalog.agents[run.actor] = agent
  BY <1>1
<1> HIDE DEF tool, agent, assessed
<1> QED
  BY <1>2, <1>3, <1>4, <1>6, <1>7 DEF Harmless, tool, agent

LEMMA RequestRunsStep ==
  ASSUME Inv, NEW t \in Threads, NEW r \in Runs, NEW a \in DOMAIN catalog.agents,
         NEW k \in DOMAIN catalog.tools, NEW pinned \in BOOLEAN,
         RequestRuns(t, r, a, k, pinned)
  PROVE  Inv'
<1> DEFINE run == NewRun(a, catalog.tools[k], pinned, "requested")
<1>1. run \in RunRecords /\ run.tool = catalog.tools[k] /\ run.actor = a
  BY RequestTypes DEF RunStatus
<1>2. Harmless(run)
  BY <1>1, UnapprovedIsHarmless DEF RequestRuns, Inv, TypeOK
<1>3. /\ Fresh(t, r) /\ UNCHANGED <<catalog, runs, approvals, db, file, executed>>
      /\ th' = [th EXCEPT ![t] = [pc |-> "act", run |-> r, held |-> run]]
  BY DEF RequestRuns, Fresh
<1> HIDE DEF run
<1>4. /\ th'[t] = [pc |-> "act", run |-> r, held |-> run]
      /\ \A u \in Threads : u # t => th'[u] = th[u]
      /\ th' \in [Threads -> ThreadStates]
  BY <1>1, <1>3, States DEF Inv, TypeOK, Acting
<1>5. \A u \in Threads : u # t => ~Holds(u, r)'
  BY <1>3, <1>4, FreshIsUnknown DEF Holds
<1>6. TypeOK' /\ WaitingHasApproval' /\ FinalIsShared' /\ Monotone(t)
  BY <1>3, <1>4 DEF Inv, TypeOK, WaitingHasApproval, Waiting, FinalIsShared, Monotone, SameWork
<1>7. HoldsOK(t)' /\ SyncOK(t)'
  BY <1>2, <1>3, <1>4 DEF HoldsOK, SyncOK, Holds, Harmless, Fresh
<1>8. \A u \in Threads : u # t => HoldersAgree(t, u)'
  BY <1>4, <1>5 DEF HoldersAgree, Holds
<1> QED
  BY <1>3, <1>4, <1>6, <1>7, <1>8, OneThreadSteps

\* Only an open approval is decided.
LEMMA DecideStep ==
  ASSUME Inv, NEW t \in Threads, NEW r \in Runs, NEW d \in Decisions, NEW by \in Deciders,
         Decide(t, r, d, by)
  PROVE  Inv'
<1> DEFINE p == [approvals[r] EXCEPT !.status = d, !.by = by]
<1>1. /\ UNCHANGED <<catalog, runs, db, file, executed>> /\ th' = [th EXCEPT ![t] = Sync]
      /\ approvals[r] # None /\ approvals[r].status \in Undecided
      /\ approvals \in [Runs -> {None} \cup ApprovalRecords]
  BY DEF Decide, Inv, TypeOK
<1>2. p \in ApprovalRecords /\ p # None
  BY <1>1, DecisionShape
<1>3. approvals' = [approvals EXCEPT ![r] = p]
  BY <1>1 DEF Decide, ApprovalRecords
<1> HIDE DEF p
<1>4. /\ approvals' \in [Runs -> {None} \cup ApprovalRecords] /\ approvals'[r] = p
      /\ \A q \in Runs : q # r => approvals'[q] = approvals[q]
  BY <1>1, <1>2, <1>3
<1>5. approvals[r].status \notin Final
  BY <1>1 DEF Undecided, Final
<1>6. WaitingHasApproval'
  <2>1. \A q \in Runs : Waiting(q)' => approvals'[q] # None
    BY <1>1, <1>2, <1>4 DEF Inv, WaitingHasApproval, Waiting
  <2> QED
    BY <1>1, <2>1 DEF Inv, WaitingHasApproval
<1>7. FinalIsShared'
  BY <1>1, <1>4, <1>5 DEF Inv, FinalIsShared
<1>8. Monotone(t)
  BY <1>1, <1>2, <1>4, <1>5 DEF Monotone, SameWork
<1>9. TypeOK'
  BY <1>1, <1>4, <1>6, SyncBegins DEF Inv, TypeOK
<1> QED
  BY <1>1, <1>6, <1>7, <1>8, <1>9, SyncBegins, OneThreadSteps

\* A run that waits is blocked, by a denial or by a failed revalidation.
LEMMA BlockStep ==
  ASSUME Inv, NEW t \in Threads, NEW r \in Runs, Deny(t, r) \/ CompleteBlocks(t, r)
  PROVE  Inv'
<1> DEFINE run == [runs[r] EXCEPT !.status = "blocked"]
<1>1. /\ UNCHANGED <<catalog, approvals, db, file, executed>>
      /\ th' = [th EXCEPT ![t] = Sync] /\ Waiting(r)
      /\ runs \in [Runs -> {None} \cup RunRecords]
      /\ runs' = [runs EXCEPT ![r] = [runs[r] EXCEPT !.status = "blocked"]]
  BY DEF Deny, CompleteBlocks, Completable, Inv, TypeOK
<1>2. runs[r] \in RunRecords /\ runs[r] # None
  BY <1>1 DEF Waiting
<1>3. /\ run \in RunRecords /\ run # None /\ SameWork(run, runs[r])
      /\ run.status # "waiting_approval"
  <2>1. "blocked" \in RunStatus
    BY DEF RunStatus, Settled
  <2> QED
    BY <1>2, <2>1, StatusChange DEF SameWork
<1>4. runs' = [runs EXCEPT ![r] = run]
  BY <1>1, Zenon
<1> HIDE DEF run
<1>5. /\ runs' \in [Runs -> {None} \cup RunRecords] /\ runs'[r] = run
      /\ \A q \in Runs : q # r => runs'[q] = runs[q]
  BY <1>1, <1>3, <1>4
<1>6. WaitingHasApproval'
  <2>1. \A q \in Runs : Waiting(q)' => approvals'[q] # None
    BY <1>1, <1>3, <1>5 DEF Inv, WaitingHasApproval, Waiting
  <2> QED
    BY <1>1, <2>1 DEF Inv, WaitingHasApproval
<1>7. FinalIsShared' /\ Monotone(t)
  BY <1>1, <1>2, <1>3, <1>5 DEF Inv, FinalIsShared, Monotone, SameWork
<1>8. TypeOK'
  BY <1>1, <1>5, <1>6, SyncBegins DEF Inv, TypeOK
<1> QED
  BY <1>1, <1>6, <1>7, <1>8, SyncBegins, OneThreadSteps

\* complete_tool_run acts on what it has just revalidated.
LEMMA CompleteRunsStep ==
  ASSUME Inv, NEW t \in Threads, NEW r \in Runs, CompleteRuns(t, r)
  PROVE  Inv'
<1>1. /\ UNCHANGED <<catalog, runs, approvals, db, file, executed>>
      /\ Completable(r) /\ Revalidated(r) /\ th \in [Threads -> ThreadStates]
      /\ th' = [th EXCEPT ![t] = [pc |-> "act", run |-> r, held |-> runs[r]]]
  BY DEF CompleteRuns, Inv, TypeOK
<1>2. runs[r] \in RunRecords /\ runs[r] # None /\ approvals[r] # None
  BY <1>1 DEF Completable, Waiting, Inv, TypeOK, WaitingHasApproval
<1>3. /\ th'[t] = [pc |-> "act", run |-> r, held |-> runs[r]]
      /\ \A u \in Threads : u # t => th'[u] = th[u]
      /\ th' \in [Threads -> ThreadStates]
  BY <1>1, <1>2, States DEF Acting
<1>4. Authorized(r)
  <2>1. LiveTool(r).id = runs[r].tool.id
    <3>1. runs[r].tool.id \in DOMAIN catalog.tools
      <4>1. runs[r].tool \in Tools
        BY <1>2 DEF RunRecords
      <4>2. PICK c \in Catalogs : \E k \in DOMAIN c.tools : runs[r].tool = c.tools[k]
        BY <4>1 DEF Tools
      <4>3. PICK k \in DOMAIN c.tools : runs[r].tool = c.tools[k]
        BY <4>2
      <4>4. c.tools[k].id = k /\ DOMAIN c.tools = DOMAIN catalog.tools
        BY CatalogAssumption DEF Inv, TypeOK
      <4> QED
        BY <4>3, <4>4
    <3> QED
      BY <3>1, CatalogAssumption DEF LiveTool, Inv, TypeOK
  <2> QED
    BY <1>1, <2>1 DEF Authorized, Completable, Revalidated, ApprovalMatches, Request
<1>5. TypeOK' /\ WaitingHasApproval' /\ FinalIsShared' /\ Monotone(t)
  BY <1>1, <1>3 DEF Inv, TypeOK, WaitingHasApproval, Waiting, FinalIsShared, Monotone, SameWork
<1>6. HoldsOK(t)' /\ SyncOK(t)'
  BY <1>1, <1>2, <1>3, <1>4 DEF HoldsOK, SyncOK, Holds, SameWork, Authorized, LiveTool, LiveAgent
<1>7. \A u \in Threads : u # t => HoldersAgree(t, u)'
  <2> SUFFICES ASSUME NEW u \in Threads, u # t, Holds(u, r)
               PROVE  SameWork(th[u].held, runs[r])
    BY <1>3 DEF HoldersAgree, Holds
  <2> QED
    BY <1>2 DEF Inv, HoldsOK, SameWork
<1> QED
  BY <1>1, <1>3, <1>5, <1>6, <1>7, OneThreadSteps

\* A thread goes on with the run it holds: only the status of its copy changes.
LEMMA HeldStep ==
  ASSUME Inv, NEW t \in Threads, NEW w \in Acting, th[t] \in Acting,
         th' = [th EXCEPT ![t] = w], w.run = th[t].run, SameWork(w.held, th[t].held),
         UNCHANGED <<catalog, runs, approvals, db>>, file' \in Nat,
         executed' \in [Runs -> Nat],
         \/ w.pc = "record" /\ w.held.status \in {"completed", "failed"}
         \/ w.pc = "replace" /\ th[t].pc = "act"
  PROVE  Inv'
<1>1. /\ th'[t] = w /\ \A u \in Threads : u # t => th'[u] = th[u]
      /\ th' \in [Threads -> ThreadStates]
  BY States DEF Inv, TypeOK
<1>2. TypeOK' /\ WaitingHasApproval' /\ FinalIsShared' /\ Monotone(t)
  BY <1>1 DEF Inv, TypeOK, WaitingHasApproval, Waiting, FinalIsShared, Monotone, SameWork
<1>3. \A r \in Runs : Holds(t, r)' => Holds(t, r)
  BY <1>1 DEF Holds, Acting
<1>4. HoldsOK(t)'
  <2> SUFFICES ASSUME NEW r \in Runs, Holds(t, r)'
               PROVE  /\ runs[r] # None => SameWork(runs[r], w.held)
                      /\ w.pc = "record" => w.held.status \in {"completed", "failed"}
                      /\ w.pc # "record" =>
                           \/ Harmless(w.held)
                           \/ runs[r] # None /\ approvals[r] # None /\ Authorized(r)
    BY <1>1 DEF HoldsOK, Harmless, Authorized, LiveTool, LiveAgent, SameWork
  <2>1. HoldsOK(t) /\ Holds(t, r)
    BY <1>3 DEF Inv
  <2>2. Harmless(th[t].held) => Harmless(w.held)
    BY DEF Harmless, SameWork
  <2> QED
    BY <2>1, <2>2 DEF HoldsOK, SameWork
<1>5. SyncOK(t)'
  BY <1>1 DEF SyncOK, Acting
<1>6. \A u \in Threads : u # t => HoldersAgree(t, u)'
  <2> SUFFICES ASSUME NEW u \in Threads, u # t, NEW r \in Runs, Holds(t, r)', Holds(u, r)'
               PROVE  SameWork(th[u].held, w.held)
    BY <1>1 DEF HoldersAgree, SameWork
  <2>1. Holds(t, r) /\ Holds(u, r)
    BY <1>1, <1>3 DEF Holds
  <2>2. SameWork(th[u].held, th[t].held)
    BY <2>1 DEF Inv, HoldersAgree
  <2> QED
    BY <2>2 DEF SameWork
<1> QED
  BY <1>1, <1>2, <1>4, <1>5, <1>6, OneThreadSteps

\* _execute_tool_run returns.
LEMMA ReturnStep ==
  ASSUME Inv, NEW t \in Threads, NEW status \in {"completed", "failed"},
         th[t].pc \in {"act", "replace"}, Returned(t, status),
         UNCHANGED <<catalog, runs, approvals, db>>, file' \in Nat,
         executed' \in [Runs -> Nat]
  PROVE  Inv'
<1> DEFINE held == [th[t].held EXCEPT !.status = status]
           w == [pc |-> "record", run |-> th[t].run, held |-> held]
<1>1. th[t] \in Acting
  BY States DEF Inv, TypeOK, Idle, Saving
<1>2. status \in RunStatus /\ th[t].held \in RunRecords /\ th[t].run \in Runs
  BY <1>1 DEF RunStatus, Settled, Acting
<1>3. held \in RunRecords /\ SameWork(held, th[t].held) /\ held.status = status
  BY <1>2, StatusChange DEF SameWork
<1>4. th' = [th EXCEPT ![t] = w]
  BY DEF Returned
<1> HIDE DEF held
<1>5. w \in Acting
  BY <1>2, <1>3 DEF Acting
<1> QED
  BY <1>1, <1>3, <1>4, <1>5, HeldStep

LEMMA ExecutedCounts ==
  ASSUME Inv, NEW t \in Threads, th[t].pc \in {"act", "replace"}
  PROVE  /\ executed \in [Runs -> Nat]
         /\ [executed EXCEPT ![th[t].run] = @ + 1] \in [Runs -> Nat]
<1>1. th[t] \in Acting /\ executed \in [Runs -> Nat]
  BY States DEF Inv, TypeOK, Idle, Saving
<1> QED
  BY <1>1 DEF Acting

LEMMA AdapterStep ==
  ASSUME Inv, NEW t \in Threads,
         \/ \E status \in {"completed", "failed"} : AdapterActs(t, status)
         \/ PatchRefused(t) \/ PatchReplaces(t)
  PROVE  Inv'
<1>1. file \in Nat /\ file + 1 \in Nat
  BY DEF Inv, TypeOK
<1>2. ASSUME NEW status \in {"completed", "failed"}, AdapterActs(t, status) PROVE Inv'
  BY <1>1, <1>2, ExecutedCounts, ReturnStep DEF AdapterActs
<1>3. CASE PatchRefused(t)
  BY <1>1, <1>3, ExecutedCounts, ReturnStep DEF PatchRefused
<1>4. CASE PatchReplaces(t)
  BY <1>1, <1>4, ExecutedCounts, ReturnStep DEF PatchReplaces
<1> QED
  BY <1>2, <1>3, <1>4

LEMMA PrepareStep ==
  ASSUME Inv, NEW t \in Threads, PatchPrepares(t)
  PROVE  Inv'
<1> DEFINE w == [pc |-> "replace", run |-> th[t].run, held |-> th[t].held]
<1>1. th[t] \in Acting /\ th[t].pc = "act"
  BY States DEF Inv, TypeOK, Idle, Saving, PatchPrepares
<1>2. [th[t] EXCEPT !.pc = "replace"] = w /\ w \in Acting
  BY <1>1 DEF Acting
<1>3. th' = [th EXCEPT ![t] = [th[t] EXCEPT !.pc = "replace"]]
  BY DEF PatchPrepares
<1>4. th' = [th EXCEPT ![t] = w]
  BY <1>2, <1>3
<1> QED
  BY <1>1, <1>2, <1>4, HeldStep DEF PatchPrepares, SameWork, Inv, TypeOK

\* The thread's copy becomes the registered run.
LEMMA RecordStep ==
  ASSUME Inv, NEW t \in Threads, Record(t)
  PROVE  Inv'
<1> DEFINE r == th[t].run
           held == th[t].held
<1>1. /\ UNCHANGED <<catalog, approvals, db, file, executed>> /\ th[t] \in Acting
      /\ th' = [th EXCEPT ![t] = Sync] /\ runs' = [runs EXCEPT ![r] = held]
      /\ runs \in [Runs -> {None} \cup RunRecords] /\ th[t].pc = "record"
  BY States DEF Record, Inv, TypeOK, Idle, Saving
<1>2. r \in Runs /\ held \in RunRecords /\ held # None /\ Holds(t, r)
  BY <1>1, NoneAssumption DEF Acting, Holds
<1>3. /\ held.status # "waiting_approval"
      /\ runs[r] # None => SameWork(held, runs[r])
  BY <1>1, <1>2 DEF Inv, HoldsOK, SameWork
<1>4. \A u \in Threads : Holds(u, r) => SameWork(held, th[u].held)
  BY <1>2 DEF Inv, HoldersAgree, SameWork
<1> HIDE DEF r, held
<1>5. /\ runs' \in [Runs -> {None} \cup RunRecords] /\ runs'[r] = held
      /\ \A q \in Runs : q # r => runs'[q] = runs[q]
  BY <1>1, <1>2
<1>6. WaitingHasApproval'
  <2>1. \A q \in Runs : Waiting(q)' => approvals'[q] # None
    BY <1>1, <1>3, <1>5 DEF Inv, WaitingHasApproval, Waiting
  <2> QED
    BY <1>1, <2>1 DEF Inv, WaitingHasApproval
<1>7. FinalIsShared' /\ Monotone(t)
  BY <1>1, <1>2, <1>3, <1>4, <1>5 DEF Inv, FinalIsShared, Monotone, SameWork
<1>8. TypeOK'
  BY <1>1, <1>5, <1>6, SyncBegins DEF Inv, TypeOK
<1> QED
  BY <1>1, <1>6, <1>7, <1>8, SyncBegins, OneThreadSteps

LEMMA SaveApprovalsStep ==
  ASSUME Inv, NEW t \in Threads, SaveApprovals(t)
  PROVE  Inv'
<1> DEFINE w == th[t]
           next == [pc |-> "save_runs", listed |-> w.listed, approvals |-> w.approvals]
           rows == [r \in Runs |-> IF r \in w.approvals THEN approvals[r] ELSE db.approvals[r]]
<1>1. /\ UNCHANGED <<catalog, runs, approvals, file, executed>> /\ w \in Saving
      /\ w.pc = "save_approvals" /\ th \in [Threads -> ThreadStates]
      /\ db \in [runs : [Runs -> {None} \cup RunRecords],
                 approvals : [Runs -> {None} \cup ApprovalRecords]]
      /\ approvals \in [Runs -> {None} \cup ApprovalRecords]
      /\ db' = [db EXCEPT !.approvals = rows]
      /\ th' = [th EXCEPT ![t] = [th[t] EXCEPT !.pc = "save_runs"]]
  BY States DEF SaveApprovals, Inv, TypeOK, Idle, Acting
<1>2. [th[t] EXCEPT !.pc = "save_runs"] = next /\ next \in Saving
  BY <1>1 DEF Saving
<1>3. SyncOK(t) /\ w.listed \subseteq Runs /\ w.approvals \subseteq Runs
  BY <1>1 DEF Inv, Saving
<1>4. rows \in [Runs -> {None} \cup ApprovalRecords]
      /\ \A r \in Runs : rows[r] = IF r \in w.approvals THEN approvals[r] ELSE db.approvals[r]
  BY <1>1
<1> HIDE DEF rows
<1>5. /\ db'.approvals = rows /\ db'.runs = db.runs
      /\ db' \in [runs : [Runs -> {None} \cup RunRecords],
                  approvals : [Runs -> {None} \cup ApprovalRecords]]
  BY <1>1, <1>4
<1>6. /\ th'[t] = next /\ \A u \in Threads : u # t => th'[u] = th[u]
      /\ th' \in [Threads -> ThreadStates]
  BY <1>1, <1>2, States
<1>7. \A r \in w.approvals : approvals[r] # None
  BY <1>1, <1>3 DEF SyncOK
<1>8. \A r \in Runs : db.approvals[r] # None => db'.approvals[r] # None
  BY <1>4, <1>5, <1>7
<1>9. Monotone(t)
  BY <1>1, <1>8 DEF Monotone, SameWork
<1>10. WaitingHasApproval'
  BY <1>1, <1>5, <1>8 DEF Inv, WaitingHasApproval, Waiting
<1>11. FinalIsShared'
  BY <1>1, <1>4, <1>5 DEF Inv, FinalIsShared
<1>12. HoldsOK(t)' /\ \A u \in Threads : u # t => HoldersAgree(t, u)'
  BY <1>6 DEF HoldsOK, HoldersAgree, Holds
<1>13. SyncOK(t)'
  BY <1>1, <1>3, <1>4, <1>5, <1>6, <1>7 DEF SyncOK
<1>14. TypeOK'
  BY <1>1, <1>5, <1>6 DEF Inv, TypeOK
<1> QED
  BY <1>1, <1>6, <1>9, <1>10, <1>11, <1>12, <1>13, <1>14, OneThreadSteps

LEMMA SaveRunsStep ==
  ASSUME Inv, NEW t \in Threads, SaveRuns(t)
  PROVE  Inv'
<1> DEFINE w == th[t]
           rows == [r \in Runs |-> IF r \in w.listed THEN runs[r] ELSE db.runs[r]]
<1>1. /\ UNCHANGED <<catalog, runs, approvals, file, executed>>
      /\ w.pc = "save_runs" /\ th \in [Threads -> ThreadStates]
      /\ db \in [runs : [Runs -> {None} \cup RunRecords],
                 approvals : [Runs -> {None} \cup ApprovalRecords]]
      /\ runs \in [Runs -> {None} \cup RunRecords] /\ SyncOK(t)
      /\ db' = [db EXCEPT !.runs = rows] /\ th' = [th EXCEPT ![t] = Idle]
  BY DEF SaveRuns, Inv, TypeOK
<1>2. rows \in [Runs -> {None} \cup RunRecords]
      /\ \A r \in Runs : rows[r] = IF r \in w.listed THEN runs[r] ELSE db.runs[r]
  BY <1>1
<1> HIDE DEF rows
<1>3. /\ db'.runs = rows /\ db'.approvals = db.approvals
      /\ db' \in [runs : [Runs -> {None} \cup RunRecords],
                  approvals : [Runs -> {None} \cup ApprovalRecords]]
  BY <1>1, <1>2
<1>4. /\ th'[t] = Idle /\ \A u \in Threads : u # t => th'[u] = th[u]
      /\ th' \in [Threads -> ThreadStates]
  BY <1>1, States
<1>5. WaitingHasApproval'
  BY <1>1, <1>2, <1>3 DEF Inv, WaitingHasApproval, Waiting, SyncOK
<1>6. FinalIsShared' /\ Monotone(t)
  BY <1>1, <1>3 DEF Inv, FinalIsShared, Monotone, SameWork
<1>7. HoldsOK(t)' /\ SyncOK(t)' /\ \A u \in Threads : u # t => HoldersAgree(t, u)'
  BY <1>4 DEF HoldsOK, HoldersAgree, Holds, SyncOK, Idle
<1>8. TypeOK'
  BY <1>1, <1>3, <1>4 DEF Inv, TypeOK
<1> QED
  BY <1>1, <1>4, <1>5, <1>6, <1>7, <1>8, OneThreadSteps

\* A crash leaves what was stored, and no thread.
LEMMA RestartStep ==
  ASSUME Inv, NEW c \in Catalogs, Restart(c)
  PROVE  Inv'
<1>1. /\ catalog' = c /\ runs' = db.runs /\ approvals' = db.approvals
      /\ UNCHANGED <<db, file, executed>> /\ th' = [t \in Threads |-> Idle]
  BY DEF Restart
<1>2. \A t \in Threads : th'[t] = Idle
  BY <1>1
<1>3. TypeOK'
  BY <1>1, States DEF Inv, TypeOK
<1>4. \A t \in Threads : HoldsOK(t)' /\ SyncOK(t)' /\ \A u \in Threads : HoldersAgree(t, u)'
  BY <1>2 DEF HoldsOK, SyncOK, HoldersAgree, Holds, Idle
<1>5. FinalIsShared' /\ WaitingHasApproval'
  BY <1>1 DEF Inv, FinalIsShared, WaitingHasApproval, Waiting
<1> QED
  BY <1>3, <1>4, <1>5 DEF Inv

LEMMA UnchangedStep ==
  ASSUME Inv, UNCHANGED <<catalog, runs, approvals, db, th, executed>>, file' \in Nat
  PROVE  Inv'
BY DEF Inv, TypeOK, HoldsOK, SyncOK, HoldersAgree, Holds, FinalIsShared, WaitingHasApproval,
       Waiting, Harmless, Authorized, LiveTool, LiveAgent

LEMMA InvStep == Inv /\ [Next]_vars => Inv'
<1> SUFFICES ASSUME Inv, [Next]_vars PROVE Inv'
  OBVIOUS
<1>1. ASSUME NEW t \in Threads, Requests(t) PROVE Inv'
  <2>1. ASSUME NEW r \in Runs, NEW a \in DOMAIN catalog.agents,
               NEW k \in DOMAIN catalog.tools, NEW pinned \in BOOLEAN,
               \/ RequestRefused(t, r, a, k, pinned) \/ RequestWaits(t, r, a, k, pinned)
               \/ RequestRuns(t, r, a, k, pinned)
        PROVE  Inv'
    BY <2>1, RequestStep, RequestRunsStep
  <2>2. ASSUME NEW r \in Runs,
               \/ \E d \in Decisions, by \in Deciders : Decide(t, r, d, by)
               \/ Deny(t, r) \/ CompleteBlocks(t, r) \/ CompleteRuns(t, r)
        PROVE  Inv'
    BY <2>2, DecideStep, BlockStep, CompleteRunsStep
  <2> QED
    BY <1>1, <2>1, <2>2 DEF Requests
<1>2. ASSUME NEW t \in Threads, Continues(t) PROVE Inv'
  BY <1>2, AdapterStep, PrepareStep, RecordStep, SaveApprovalsStep, SaveRunsStep DEF Continues
<1>3. ASSUME NEW c \in Catalogs, Restart(c) PROVE Inv'
  BY <1>3, RestartStep
<1>4. CASE Edit \/ UNCHANGED vars
  BY <1>4, UnchangedStep DEF Edit, vars, Inv, TypeOK
<1> QED
  BY <1>1, <1>2, <1>3, <1>4 DEF Next

LEMMA InvAlways == Spec => []Inv
BY InvInit, InvStep, PTL DEF Spec

-----------------------------------------------------------------------------
(* What the invariant gives                                                *)

\* Runs, approvals, rows and threads keep their shape.
THEOREM TypesAlways == Spec => []TypeOK
<1>1. Inv => TypeOK
  BY DEF Inv
<1> QED
  BY <1>1, InvAlways, PTL

\* A run that waits for an approval has one, in memory and in the rows that any
\* crash leaves behind.
THEOREM WaitingIsBacked == Spec => []WaitingHasApproval
<1>1. Inv => WaitingHasApproval
  BY DEF Inv
<1> QED
  BY <1>1, InvAlways, PTL

\* An adapter acts only for a run that is harmless under the live catalog, or
\* that the live catalog allows and human_root has approved.
THEOREM ActsOnlyAuthorized == Spec => AuthorizedExecution
<1>1. Inv /\ [Next]_vars =>
        [\A t \in Threads, r \in Runs :
           Acts(t, r) => Harmless(th[t].held) \/ (approvals[r] # None /\ Authorized(r))]_vars
  BY DEF Inv, HoldsOK, Holds, Acts
<1> QED
  BY <1>1, InvAlways, PTL DEF Spec, AuthorizedExecution

\* No step changes a final decision that is stored.
THEOREM DecisionsStand == Spec => StoredDecisionStands
<1>1. ASSUME Inv, Next, NEW r \in Runs, db.approvals[r] # None,
             db.approvals[r].status \in Final
      PROVE  db'.approvals[r] = db.approvals[r]
  <2>1. approvals[r] = db.approvals[r]
    BY <1>1 DEF Inv, FinalIsShared
  <2>2. ASSUME NEW t \in Threads, SaveApprovals(t) PROVE db'.approvals[r] = db.approvals[r]
    BY <2>1, <2>2, <1>1 DEF SaveApprovals, Inv, TypeOK
  <2>3. ASSUME NEW t \in Threads, SaveRuns(t) PROVE db'.approvals[r] = db.approvals[r]
    BY <2>3, <1>1 DEF SaveRuns, Inv, TypeOK
  <2>4. ASSUME NEW t \in Threads, Requests(t) PROVE UNCHANGED db
    <3>1. ASSUME NEW q \in Runs, NEW a, NEW k, NEW pinned,
                 \/ RequestRefused(t, q, a, k, pinned) \/ RequestWaits(t, q, a, k, pinned)
                 \/ RequestRuns(t, q, a, k, pinned)
          PROVE  UNCHANGED db
      <4>1. Fresh(t, q)
        BY <3>1 DEF RequestRefused, RequestWaits, RequestRuns
      <4> QED
        BY <4>1 DEF Fresh
    <3>2. ASSUME NEW q \in Runs, NEW d, NEW by, Decide(t, q, d, by) PROVE UNCHANGED db
      BY <3>2 DEF Decide
    <3>3. ASSUME NEW q \in Runs, Deny(t, q) \/ CompleteBlocks(t, q) \/ CompleteRuns(t, q)
          PROVE  UNCHANGED db
      BY <3>3 DEF Deny, CompleteBlocks, CompleteRuns
    <3> QED
      BY <2>4, <3>1, <3>2, <3>3 DEF Requests
  <2>5. ASSUME NEW t \in Threads, Continues(t)
        PROVE  SaveApprovals(t) \/ SaveRuns(t) \/ UNCHANGED db
    BY <2>5 DEF Continues, AdapterActs, PatchRefused, PatchPrepares, PatchReplaces, Record
  <2>6. (\E c \in Catalogs : Restart(c)) \/ Edit => UNCHANGED db
    BY DEF Restart, Edit
  <2> QED
    BY <1>1, <2>2, <2>3, <2>4, <2>5, <2>6 DEF Next
<1>2. Inv /\ [Next]_vars =>
        [\A r \in Runs :
           db.approvals[r] # None /\ db.approvals[r].status \in Final =>
             db'.approvals[r] = db.approvals[r]]_vars
  BY <1>1
<1> QED
  BY <1>2, InvAlways, PTL DEF Spec, StoredDecisionStands
=============================================================================
