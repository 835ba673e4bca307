----------------------------- MODULE ToolRuntime -----------------------------
(***************************************************************************)
(* The Tool Runtime and the approval center of one API process.  Request   *)
(* threads share the tool runs and approvals without a lock; an adapter    *)
(* call and a sync let other threads run.  A sync lists the records, then  *)
(* writes approvals and then tool runs; a crash keeps what was written.    *)
(* The patch adapter reads and checks the file before it replaces it.      *)
(***************************************************************************)
EXTENDS Policy, FiniteSets

CONSTANTS Threads, Runs,
          Catalogs,      \* the tools and agents a process may be started with
          Deciders,      \* who may be named in decided_by
          None,
          MaxRestarts, MaxEdits   \* bounds on restarts and on outside edits

ASSUME RootDecides == "human_root" \in Deciders
ASSUME BoundsAssumption == MaxRestarts \in Nat /\ MaxEdits \in Nat

\* Both registries key what they hold by its id, a configuration enables tools
\* and bounds agents but registers the same ones; no agent is given L5_ROOT.
ASSUME CatalogAssumption ==
  \A c \in Catalogs :
    /\ \A d \in Catalogs : DOMAIN c.tools = DOMAIN d.tools /\ DOMAIN c.agents = DOMAIN d.agents
    /\ \A k \in DOMAIN c.tools : c.tools[k].id = k /\ c.tools[k].level \in Levels
                                                /\ c.tools[k].risk \in RiskLevels
    /\ \A a \in DOMAIN c.agents : c.agents[a].permissions \subseteq Levels \ {5}

VARIABLES
  catalog,     \* registered tools and agents
  runs,        \* tool_runs, None before the request
  approvals,   \* the approval of each run, None when it needs none
  db,          \* what is stored of both
  th,          \* what each request thread is doing
  file,        \* version of the workspace file the patch tool edits
  executed,    \* times an adapter has acted for each run
  restarts, edits

vars == <<catalog, runs, approvals, db, th, file, executed, restarts, edits>>

Final == {"approved", "rejected", "modified", "blocked"}
Undecided == {"pending", "need_more_info"}
Decisions == Final \cup {"need_more_info"}
Settled == {"completed", "failed", "blocked"}
RunStatus == {"requested", "waiting_approval"} \cup Settled

Tools == UNION {{c.tools[k] : k \in DOMAIN c.tools} : c \in Catalogs}
Actors == UNION {DOMAIN c.agents : c \in Catalogs}

\* ToolRun, and the ApprovalRequest a run waits for.
RunRecords == [tool : Tools, actor : Actors, status : RunStatus, input : [sha : Nat]]
Requested == [action : {k.action : k \in Tools}, level : {k.level : k \in Tools},
              actor : Actors, tool : {k.id : k \in Tools},
              input : [input : [sha : Nat], preview : Nat]]
ApprovalRecords == [status : Final \cup Undecided, by : Deciders \cup {None},
                    request : Requested]

ASSUME NoneAssumption == None \notin RunRecords /\ None \notin ApprovalRecords

Idle == [pc |-> "idle"]
\* Mutated: the approvals are left out of the sync.
SyncNoApprovals == [pc |-> "save_runs",
                    listed |-> {r \in Runs : runs'[r] # None},
                    approvals |-> {r \in Runs : approvals'[r] # None}]

\* sync_state is handed the records that exist when it starts.
Sync == [pc |-> "save_approvals",
         listed |-> {r \in Runs : runs'[r] # None},
         approvals |-> {r \in Runs : approvals'[r] # None}]

IsPatch(tool) == tool.action = "modify_workspace"

\* What an approval shows of a run: of a patch also its diff against the file.
ApprovalInput(run, v) ==
  [input |-> run.input, preview |-> IF IsPatch(run.tool) THEN v ELSE 0]

Request(run, v) ==
  [action |-> run.tool.action, level |-> run.tool.level, actor |-> run.actor,
   tool |-> run.tool.id, input |-> ApprovalInput(run, v)]

Init ==
  /\ catalog \in Catalogs
  /\ runs = [r \in Runs |-> None]
  /\ approvals = [r \in Runs |-> None]
  /\ db = [runs |-> runs, approvals |-> approvals]
  /\ th = [t \in Threads |-> Idle]
  /\ file = 1
  /\ executed = [r \in Runs |-> 0]
  /\ restarts = 0 /\ edits = 0

-----------------------------------------------------------------------------
(* request_tool_run *)

NewRun(a, tool, pinned, status) ==
  [tool |-> tool, actor |-> a, status |-> status,
   input |-> [sha |-> IF pinned THEN file ELSE 0]]

Fresh(t, r) ==
  /\ th[t].pc = "idle"
  /\ runs[r] = None /\ approvals[r] = None /\ executed[r] = 0    \* a new id
  /\ \A u \in Threads : "run" \in DOMAIN th[u] => th[u].run # r
  /\ UNCHANGED <<catalog, db, file, executed, restarts, edits>>

RequestRefused(t, r, a, k, pinned) ==
  /\ Fresh(t, r)
  /\ ToolRefused(catalog.agents[a], catalog.tools[k])
  /\ runs' = [runs EXCEPT ![r] = NewRun(a, catalog.tools[k], pinned, "blocked")]
  /\ UNCHANGED approvals
  /\ th' = [th EXCEPT ![t] = Sync]

RequestWaits(t, r, a, k, pinned) ==
  LET run == NewRun(a, catalog.tools[k], pinned, "waiting_approval") IN
  /\ Fresh(t, r)
  /\ ~ToolRefused(catalog.agents[a], run.tool)
  /\ ToolNeedsApproval(catalog.agents[a], run.tool)
  /\ runs' = [runs EXCEPT ![r] = run]
  /\ approvals' = [approvals EXCEPT ![r] =
                     [status |-> "pending", by |-> None, request |-> Request(run, file)]]
  /\ th' = [th EXCEPT ![t] = Sync]

\* The run is registered only after the adapter has returned.
RequestRuns(t, r, a, k, pinned) ==
  LET run == NewRun(a, catalog.tools[k], pinned, "requested") IN
  /\ Fresh(t, r)
  /\ ~ToolRefused(catalog.agents[a], run.tool)
  /\ ~ToolNeedsApproval(catalog.agents[a], run.tool)
  /\ th' = [th EXCEPT ![t] = [pc |-> "act", run |-> r, held |-> run]]
  /\ UNCHANGED <<runs, approvals>>

-----------------------------------------------------------------------------
(* decide_approval, deny_tool_run and complete_tool_run *)

\* Mutated: a decision may be taken again.
DecideAgain(t, r, decision, by) ==
  /\ th[t].pc = "idle"
  /\ approvals[r] # None
  /\ approvals' = [approvals EXCEPT ![r].status = decision, ![r].by = by]
  /\ UNCHANGED <<catalog, runs, db, file, executed, restarts, edits>>
  /\ th' = [th EXCEPT ![t] = Sync]

Decide(t, r, decision, by) ==
  /\ th[t].pc = "idle"
  /\ approvals[r] # None
  /\ approvals[r].status \in Undecided
  /\ approvals' = [approvals EXCEPT ![r].status = decision, ![r].by = by]
  /\ UNCHANGED <<catalog, runs, db, file, executed, restarts, edits>>
  /\ th' = [th EXCEPT ![t] = Sync]

Waiting(r) == runs[r] # None /\ runs[r].status = "waiting_approval"

\* Mutated: the run takes the status of its approval.
DenyAsDecided(t, r) ==
  /\ th[t].pc = "idle"
  /\ Waiting(r)
  /\ approvals[r].status \in {"rejected", "blocked", "modified"}
  /\ runs' = [runs EXCEPT ![r].status = approvals[r].status]
  /\ UNCHANGED <<catalog, approvals, db, file, executed, restarts, edits>>
  /\ th' = [th EXCEPT ![t] = Sync]

Deny(t, r) ==
  /\ th[t].pc = "idle"
  /\ Waiting(r)
  /\ approvals[r].status \in {"rejected", "blocked", "modified"}
  /\ runs' = [runs EXCEPT ![r].status = "blocked"]
  /\ UNCHANGED <<catalog, approvals, db, file, executed, restarts, edits>>
  /\ th' = [th EXCEPT ![t] = Sync]

\* _tool_approval_matches_run, against the registered tool and the file as they are.
ApprovalMatches(r, tool) ==
  /\ approvals[r].by = "human_root"
  /\ approvals[r].request = Request([runs[r] EXCEPT !.tool = tool], file)

Completable(r) == Waiting(r) /\ approvals[r].status = "approved"

LiveTool(r) == catalog.tools[runs[r].tool.id]
LiveAgent(r) == catalog.agents[runs[r].actor]

\* Mutated: tool and agent are not looked at again.
RevalidatedByApproval(r) == ApprovalMatches(r, LiveTool(r))

Revalidated(r) ==
  /\ ApprovalMatches(r, LiveTool(r))
  /\ ~ToolRefused(LiveAgent(r), LiveTool(r))

CompleteBlocks(t, r) ==
  /\ th[t].pc = "idle"
  /\ Completable(r)
  /\ ~Revalidated(r)
  /\ runs' = [runs EXCEPT ![r].status = "blocked"]
  /\ UNCHANGED <<catalog, approvals, db, file, executed, restarts, edits>>
  /\ th' = [th EXCEPT ![t] = Sync]

CompleteRuns(t, r) ==
  /\ th[t].pc = "idle"
  /\ Completable(r)
  /\ Revalidated(r)
  /\ th' = [th EXCEPT ![t] = [pc |-> "act", run |-> r, held |-> runs[r]]]
  /\ UNCHANGED <<catalog, runs, approvals, db, file, executed, restarts, edits>>

-----------------------------------------------------------------------------
(* _execute_tool_run *)

Returned(t, status) ==
  th' = [th EXCEPT ![t] = [pc |-> "record", run |-> @.run,
                           held |-> [@.held EXCEPT !.status = status]]]

\* Any adapter but the patch one; the process it starts may report failure.
AdapterActs(t, status) ==
  /\ th[t].pc = "act"
  /\ ~IsPatch(th[t].held.tool)
  /\ executed' = [executed EXCEPT ![th[t].run] = @ + 1]
  /\ Returned(t, status)
  /\ UNCHANGED <<catalog, runs, approvals, db, file, restarts, edits>>

\* _prepare_workspace_patch: the text to replace may not match exactly once.
PatchRefused(t) ==
  /\ th[t].pc = "act"
  /\ IsPatch(th[t].held.tool)
  /\ Returned(t, "failed")
  /\ UNCHANGED <<catalog, runs, approvals, db, file, executed, restarts, edits>>

\* A file that is not the one whose sha256 the input pins is always refused.
PatchPrepares(t) ==
  LET sha == th[t].held.input.sha IN
  /\ th[t].pc = "act"
  /\ IsPatch(th[t].held.tool)
  /\ sha \in {0, file}
  /\ th' = [th EXCEPT ![t].pc = "replace"]
  /\ UNCHANGED <<catalog, runs, approvals, db, file, executed, restarts, edits>>

\* os.replace.
PatchReplaces(t) ==
  /\ th[t].pc = "replace"
  /\ file' = file + 1
  /\ executed' = [executed EXCEPT ![th[t].run] = @ + 1]
  /\ Returned(t, "completed")
  /\ UNCHANGED <<catalog, runs, approvals, db, restarts, edits>>

Record(t) ==
  /\ th[t].pc = "record"
  /\ runs' = [runs EXCEPT ![th[t].run] = th[t].held]
  /\ UNCHANGED <<catalog, approvals, db, file, executed, restarts, edits>>
  /\ th' = [th EXCEPT ![t] = Sync]

-----------------------------------------------------------------------------
(* sync, the process and the workspace *)

SaveApprovals(t) ==
  /\ th[t].pc = "save_approvals"
  /\ db' = [db EXCEPT !.approvals =
               [r \in Runs |-> IF r \in th[t].approvals THEN approvals[r] ELSE @[r]]]
  /\ th' = [th EXCEPT ![t].pc = "save_runs"]
  /\ UNCHANGED <<catalog, runs, approvals, file, executed, restarts, edits>>

SaveRuns(t) ==
  /\ th[t].pc = "save_runs"
  /\ db' = [db EXCEPT !.runs =
               [r \in Runs |-> IF r \in th[t].listed THEN runs[r] ELSE @[r]]]
  /\ th' = [th EXCEPT ![t] = Idle]
  /\ UNCHANGED <<catalog, runs, approvals, file, executed, restarts, edits>>

\* The process dies; the next one may be configured differently.
Restart(c) ==
  /\ restarts < MaxRestarts
  /\ restarts' = restarts + 1
  /\ runs' = db.runs
  /\ approvals' = db.approvals
  /\ th' = [t \in Threads |-> Idle]
  /\ catalog' = c
  /\ UNCHANGED <<db, file, executed, edits>>

\* Someone else edits the file.
Edit ==
  /\ edits < MaxEdits
  /\ edits' = edits + 1
  /\ file' = file + 1
  /\ UNCHANGED <<catalog, runs, approvals, db, th, executed, restarts>>

-----------------------------------------------------------------------------
Requests(t) ==
  \/ \E r \in Runs, a \in DOMAIN catalog.agents, k \in DOMAIN catalog.tools, pinned \in BOOLEAN :
       \/ RequestRefused(t, r, a, k, pinned)
       \/ RequestWaits(t, r, a, k, pinned)
       \/ RequestRuns(t, r, a, k, pinned)
  \/ \E r \in Runs :
       \/ \E decision \in Decisions, by \in Deciders : Decide(t, r, decision, by)
       \/ Deny(t, r)
       \/ CompleteBlocks(t, r)
       \/ CompleteRuns(t, r)

Continues(t) ==
  \/ \E status \in {"completed", "failed"} : AdapterActs(t, status)
  \/ PatchRefused(t)
  \/ PatchPrepares(t)
  \/ PatchReplaces(t)
  \/ Record(t)
  \/ SaveApprovals(t)
  \/ SaveRuns(t)

Next ==
  \/ \E t \in Threads : Requests(t) \/ Continues(t)
  \/ \E c \in Catalogs : Restart(c)
  \/ Edit

Spec == Init /\ [][Next]_vars

-----------------------------------------------------------------------------
ThreadStates ==
  {Idle} \cup [pc : {"act", "replace", "record"}, run : Runs, held : RunRecords]
         \cup [pc : {"save_approvals", "save_runs"},
               listed : SUBSET Runs, approvals : SUBSET Runs]

\* Runs, approvals and threads keep their shape.
TypeOK ==
  /\ catalog \in Catalogs
  /\ runs \in [Runs -> {None} \cup RunRecords]
  /\ approvals \in [Runs -> {None} \cup ApprovalRecords]
  /\ db \in [runs : [Runs -> {None} \cup RunRecords],
            approvals : [Runs -> {None} \cup ApprovalRecords]]
  /\ th \in [Threads -> ThreadStates]
  /\ file \in Nat /\ executed \in [Runs -> Nat]

\* What the registered tool and agent say about a run that acts now.
Harmless(run) ==
  LET tool == catalog.tools[run.tool.id]
      agent == catalog.agents[run.actor]
  IN  /\ ~ToolRefused(agent, tool)
      /\ tool.level < L3 /\ tool.risk = Low /\ ~tool.requires
      /\ tool.action \notin HighRiskActions \cup MediumRiskActions

Authorized(r) ==
  /\ approvals[r].status = "approved"
  /\ approvals[r].by = "human_root"
  /\ approvals[r].request.tool = runs[r].tool.id
  /\ ~ToolRefused(LiveAgent(r), LiveTool(r))

Acts(t, r) == executed'[r] > executed[r] /\ th[t].pc \in {"act", "replace"} /\ th[t].run = r

\* Whatever requests, decisions, restarts and reconfigurations came before: when
\* an adapter acts, the run is harmless under the live catalog, or an approval
\* by human_root for that tool stands and the live catalog still allows it.
AuthorizedExecution ==
  [][\A t \in Threads, r \in Runs :
       Acts(t, r) => Harmless(th[t].held) \/ (approvals[r] # None /\ Authorized(r))]_vars

\* A final decision that was stored stands for ever, across crashes and the
\* interleaved syncs of several requests.
StoredDecisionStands ==
  [][\A r \in Runs :
       db.approvals[r] # None /\ db.approvals[r].status \in Final =>
         db'.approvals[r] = db.approvals[r]]_vars

\* A run that waits always has the approval it waits for, in memory and in the
\* rows a crash leaves behind: approvals are written before tool runs.
WaitingHasApproval ==
  \A r \in Runs :
    /\ Waiting(r) => approvals[r] # None
    /\ db.runs[r] # None /\ db.runs[r].status = "waiting_approval" => db.approvals[r] # None

\* docs/API.md: "Pending, rejected, blocked, or non-waiting Tool Runs cannot be
\* completed": an approved run that acts is still waiting.
OnlyWaitingRunsComplete ==
  [][\A t \in Threads, r \in Runs :
       Acts(t, r) /\ approvals[r] # None => Waiting(r)]_vars
=============================================================================
