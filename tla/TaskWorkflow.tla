---------------------------- MODULE TaskWorkflow ----------------------------
(***************************************************************************)
(* The ten registered workflows, the tasks they move and the requests that *)
(* run, decide, resume, pause and cancel a task.  Request threads share    *)
(* the records without a lock, except that decide-and-resume calls exclude *)
(* each other.  Each Skill run, Tool run, approval request or proposal     *)
(* ends in a sync, where other threads run; what a workflow does between   *)
(* two of them is one step.  The records of one process: nothing is stored *)
(* or reloaded here.                                                       *)
(***************************************************************************)
EXTENDS Integers, Sequences

CONSTANTS Threads, Tasks,
          Kinds,       \* the workflows that requests start
          MaxRuns,     \* bound on the workflow runs of a task
          NoThread

ASSUME KindsAssumption ==
  Kinds \subseteq {"document", "planning", "collaboration", "skill_missing",
                   "agent_missing", "approval", "quality", "retrospective",
                   "github", "tool_call"}
ASSUME MaxRunsAssumption == MaxRuns \in Nat
ASSUME NoThreadAssumption == NoThread \notin Threads

VARIABLES
  task,        \* status and approval_id (0: none) of each task
  runs,        \* the workflow runs of each task, oldest first
  approvals,   \* the status of each approval asked for a task
  inner,       \* the Tool or Skill run a task waits for
  th,          \* what each request thread is doing
  lock,        \* _task_decision_lock
  disturbed,   \* tasks that were paused, cancelled or run again
  resumed      \* whether /resume was ever called

vars == <<task, runs, approvals, inner, th, lock, disturbed, resumed>>

Final == {"approved", "rejected", "modified", "blocked"}
Undecided == {"pending", "need_more_info"}
TaskStatus == {"created", "planned", "assigned", "in_progress", "waiting_skill",
               "waiting_agent", "waiting_tool", "needs_approval", "executing",
               "quality_checking", "completed", "reviewed", "blocked", "failed",
               "paused", "cancelled"}
RunStatus == {"running", "waiting_approval", "completed", "blocked", "failed"}

Idle == [pc |-> "idle"]

-----------------------------------------------------------------------------
(* What a workflow can do when a call returns: go on to another call, wait *)
(* for a decision, end, or raise.                                          *)

Go(stage, s) ==
  [to |-> stage, task |-> s, run |-> "same", inner |-> "same",
   asks |-> FALSE, links |-> FALSE]
\* Ask for an approval; the sync of that request comes before it is linked.
Ask(stage, s) == [Go(stage, s) EXCEPT !.asks = TRUE]
With(out, i) == [out EXCEPT !.inner = i]
End(s, r) == [Go("idle", s) EXCEPT !.run = r]
Raise(s) == Go("idle", s)
Wait == [End("needs_approval", "waiting_approval") EXCEPT !.links = TRUE]
AskAndWait == [Wait EXCEPT !.asks = TRUE]

Blocked == End("blocked", "blocked")
\* Mutated: complete_run is forgotten.
DoneUnrecorded == Raise("completed")

Done == End("completed", "completed")

\* Mutated: the run gets a status that only tasks have.
FailedCancelled == End("failed", "cancelled")

Failed == End("failed", "failed")

\* A formal proposal is created: an approval is asked for, none is needed, or
\* policy refuses it.  Its status follows that approval when the request has
\* synced, and may be refreshed again while the proposal itself is stored.
Propose(s) == {Ask("proposed", s), Go("free", s), Go("refused", s)}
Proposed(v) == {CASE v = "blocked" -> Go("refused", "same")
                  [] v \in {"approved", "rejected"} -> Go("free", "same")
                  [] OTHER -> Go("under_review", "same")}
UnderReview(v) ==
  {[End("needs_approval", "completed") EXCEPT !.links = TRUE]}
    \cup (CASE v = "blocked" -> {Blocked}
            [] v \in {"approved", "rejected"} -> {Done}
            [] OTHER -> {})

Document ==
  [begin   |-> {Go("plan", "same"), Blocked, Raise("same")},
   plan    |-> {Go("assign", "planned"), Blocked},
   assign  |-> {Go("write", "executing"), AskAndWait, Blocked, Raise("assigned")},
   write   |-> {Go("risk", "same"), Blocked, Raise("same")},
   risk    |-> {Go("quality", "quality_checking"), Blocked},
   quality |-> {Done, Failed, End("blocked", "failed")}]

Planning ==
  [begin      |-> {Go("understand", "same"), Blocked},
   understand |-> {Go("decompose", "same"), Blocked},
   decompose  |-> {Go("risk", "same"), Blocked},
   risk       |-> {End("planned", "completed"), Blocked}]

Collaboration ==
  [begin      |-> {Go("coordinate", "in_progress"), Blocked},
   coordinate |-> {Go("handoff", "same"), Blocked},
   handoff    |-> {Go("audit", "same"), Blocked},
   audit      |-> {Done, Blocked}]

SkillMissing ==
  [begin    |-> {Go("search", "waiting_skill"), Blocked},
   search   |-> {Done, Go("compose", "same"), Blocked},
   compose  |-> {Done, Blocked, With(Ask("gate", "same"), "waiting")} \cup Propose("same"),
   continue |-> Propose("waiting_skill")]

AgentMissing ==
  [begin  |-> {Go("detect", "waiting_agent"), Blocked},
   detect |-> {Done, Go("plan", "same"), Blocked},
   plan   |-> {Go("risk", "same"), Blocked},
   risk   |-> {Blocked} \cup Propose("same")]

\* The audit stage carries what was decided.
Approval ==
  [begin          |-> {Go("prepare", "in_progress"), Blocked},
   prepare        |-> {Go("risk", "same"), Blocked},
   risk           |-> {Ask("gate", "same"), Go("audit_allowed", "same"),
                       Go("audit_blocked", "same"), Blocked},
   audit_allowed  |-> {Done, Blocked},
   audit_approved |-> {Done, Blocked},
   audit_rejected |-> {End("cancelled", "completed"), Blocked},
   audit_blocked  |-> {Blocked}]

\* Later stages carry whether the quality check passed.
Quality ==
  [begin        |-> {Go("check", "quality_checking")},
   check        |-> {Go("risk_passed", "same"), Go("risk_failed", "same"), Blocked},
   risk_passed  |-> {Go("audit_passed", "same"), Blocked},
   risk_failed  |-> {Go("audit_failed", "same"), Blocked},
   audit_passed |-> {Done, Blocked},
   audit_failed |-> {Failed, Blocked}]

Retrospective ==
  [begin  |-> {Go("review", "in_progress")},
   review |-> {Go("memory", "same"), Failed, Blocked},
   memory |-> {Go("audit", "same"), Blocked},
   audit  |-> {End("reviewed", "completed"), Blocked}]

Github ==
  [begin    |-> {Ask("gate", "same"), Blocked},
   analyze  |-> {Go("risk", "same"), Blocked},
   risk     |-> {Go("propose", "same"), Blocked},
   propose  |-> {Go("curate", "same"), Blocked},
   curate   |-> {Go("sandbox", "same"), Blocked},
   sandbox  |-> {Go("register", "same"), Blocked},
   register |-> {Done, Blocked}]

\* The audit stage carries how the Tool Run ended.
Audits == {Go("audit_completed", "same"), Go("audit_failed", "same"),
           Go("audit_blocked", "same")}
ToolCall ==
  [begin           |-> {Go("prepare", "waiting_tool")},
   prepare         |-> {Go("risk", "same"), Blocked},
   risk            |-> {With(Ask("gate", "same"), "waiting"), Blocked} \cup Audits,
   adapter         |-> {With(out, "done") : out \in Audits},
   audit_completed |-> {Done, Blocked},
   audit_failed    |-> {Failed, Blocked},
   audit_rejected  |-> {End("cancelled", "completed"), Blocked},
   audit_blocked   |-> {Blocked}]

Flow ==
  [document |-> Document, planning |-> Planning, collaboration |-> Collaboration,
   skill_missing |-> SkillMissing, agent_missing |-> AgentMissing,
   approval |-> Approval, quality |-> Quality, retrospective |-> Retrospective,
   github |-> Github, tool_call |-> ToolCall]

\* The request of an approval has synced: its Skill or Tool Run may have been
\* completed and the approval decided meanwhile.
Gate(kind, v, i) ==
  CASE kind = "skill_missing" /\ i = "done" -> Propose("same")
    [] kind = "skill_missing" /\ i = "refused" -> {Blocked}
    [] kind = "tool_call" /\ i = "done" -> Audits
    [] kind = "github" /\ v = "blocked" -> {Blocked}
    [] OTHER -> {Wait}

\* A call of a workflow returns and finds approval v and inner run i.
Outcomes(kind, stage, v, i) ==
  CASE stage = "proposed" -> Proposed(v)
    [] stage = "under_review" -> UnderReview(v)
    [] stage = "free" -> {Done}
    [] stage = "refused" -> {Blocked}
    [] stage = "gate" -> Gate(kind, v, i)
    [] OTHER -> Flow[kind][stage]

-----------------------------------------------------------------------------
Init ==
  /\ task = [k \in Tasks |-> [status |-> "created", approval |-> 0]]
  /\ runs = [k \in Tasks |-> << >>]
  /\ approvals = [k \in Tasks |-> << >>]
  /\ inner = [k \in Tasks |-> [status |-> "none", approval |-> 0]]
  /\ th = [t \in Threads |-> Idle]
  /\ lock = NoThread
  /\ disturbed = {}
  /\ resumed = FALSE

Keep(old, new) == IF new = "same" THEN old ELSE new
Ends(out) == out.run \in {"completed", "blocked", "failed"}

\* start_run
NewRun(kind) ==
  [kind |-> kind, status |-> "running", gate |-> 0, ends |-> 0, left |-> "none"]

\* complete_run; `gate' is the approval a run waits for, `ends' and `left' tell
\* how often it ended and which status its task then got.
RunAfter(r, out, asked) ==
  [r EXCEPT !.status = Keep(@, out.run),
            !.gate = IF out.run = "waiting_approval" THEN asked ELSE @,
            !.ends = IF Ends(out) THEN @ + 1 ELSE @,
            !.left = IF Ends(out) THEN out.task ELSE @]

\* Thread t, on run i of task k's runs `rs', goes on with `out'; a is the
\* approval it has asked for.
Takes(t, k, rs, i, a, out) ==
  LET asked == IF out.asks THEN Len(approvals[k]) + 1 ELSE a IN
  /\ approvals' = [approvals EXCEPT ![k] = IF out.asks THEN Append(@, "pending") ELSE @]
  /\ runs' = [runs EXCEPT ![k] = [rs EXCEPT ![i] = RunAfter(@, out, asked)]]
  /\ inner' = [inner EXCEPT ![k] =
                 [status |-> Keep(@.status, out.inner),
                  approval |-> IF out.inner = "waiting" THEN asked ELSE @.approval]]
  /\ task' = [task EXCEPT ![k] =
                [status |-> Keep(@.status, out.task),
                 approval |-> IF out.links THEN asked ELSE @.approval]]
  /\ th' = [th EXCEPT ![t] =
              IF out.to = "idle" THEN Idle
              ELSE [pc |-> "call", task |-> k, run |-> i, at |-> out.to, asked |-> asked]]
  /\ lock' = IF out.to = "idle" /\ lock = t THEN NoThread ELSE lock

-----------------------------------------------------------------------------
(* Starting a workflow.  A registered workflow runs on the task its request *)
(* created; the document workflow is also run on any task, in any status.   *)

NeedsNewTask(kind) == kind # "document"

Begin(t, k, kind) ==
  /\ th[t].pc = "idle"
  /\ Len(runs[k]) < MaxRuns
  /\ NeedsNewTask(kind) =>
       /\ task[k].status = "created"
       /\ \A i \in DOMAIN runs[k] : runs[k][i].kind = "document"
  /\ \E out \in Flow[kind]["begin"] :
       Takes(t, k, Append(runs[k], NewRun(kind)), Len(runs[k]) + 1, 0, out)
  /\ disturbed' = IF runs[k] = << >> THEN disturbed ELSE disturbed \cup {k}
  /\ UNCHANGED resumed

\* A call of the workflow returns.
Continue(t) ==
  /\ th[t].pc = "call"
  /\ LET w == th[t]
         v == IF w.asked = 0 THEN "none" ELSE approvals[w.task][w.asked]
     IN
     \E out \in Outcomes(runs[w.task][w.run].kind, w.at, v, inner[w.task].status) :
       Takes(t, w.task, runs[w.task], w.run, w.asked, out)
  /\ UNCHANGED <<disturbed, resumed>>

-----------------------------------------------------------------------------
(* Resuming *)

\* Mutated: no dispatch on the kind of the latest run.
ResumableDocument(k) ==
  LET docs == {i \in DOMAIN runs[k] : runs[k][i].kind = "document"}
  IN  IF docs = {} THEN 0 ELSE CHOOSE i \in docs : \A j \in docs : j <= i

\* resume_task: the latest run decides which workflow resumes; any other kind
\* falls through to the latest document run.  0 when there is none.
Resumable(k) ==
  LET last == Len(runs[k])
      docs == {i \in DOMAIN runs[k] : runs[k][i].kind = "document"}
  IN  IF last # 0 /\ runs[k][last].kind \in {"skill_missing", "approval", "github", "tool_call"}
        THEN last
      ELSE IF docs = {} THEN 0
      ELSE CHOOSE i \in docs : \A j \in docs : j <= i

\* Mutated: the linked approval is not looked at.
ResumeDocumentAlways(v) == {Go("write", "executing")}

ResumeDocument(v) == {out \in {Go("write", "executing")} : v = "approved"}

\* The temporary Skill Run is completed, or was completed by /skills/runs.
ResumeSkillMissing(k) ==
  CASE /\ inner[k].status = "waiting"
       /\ approvals[k][inner[k].approval] = "approved" ->
         {With(Go("continue", "same"), "done"), With(Go("refused", "same"), "refused")}
    [] inner[k].status = "done" -> Propose("waiting_skill")
    [] OTHER -> {}

ResumeApproval(v) ==
  CASE v \in {"approved", "modified"} -> {Go("audit_approved", "same"), Blocked}
    [] v = "rejected" -> {Go("audit_rejected", "same"), Blocked}
    [] v = "blocked" -> {Go("audit_blocked", "same"), Blocked}
    [] OTHER -> {}

ResumeGithub(v) ==
  CASE v = "approved" -> {Go("analyze", "executing")}
    [] v = "rejected" -> {End("cancelled", "completed")}
    [] v \in {"modified", "blocked"} -> {Blocked}
    [] OTHER -> {}

\* A refused Tool Run is denied, an approved one completed; both need it waiting.
ResumeToolCall(k, v) ==
  LET waiting == inner[k].status = "waiting" IN
  CASE v = "approved" -> {IF waiting THEN Go("adapter", "executing") ELSE Blocked}
    [] v = "rejected" /\ waiting -> {With(Go("audit_rejected", "same"), "refused")}
    [] v \in {"modified", "blocked"} /\ waiting ->
         {With(Go("audit_blocked", "same"), "refused")}
    [] OTHER -> {}

\* What resuming task k does; nothing when it raises.
ResumeOutcomes(k) ==
  LET i == Resumable(k)
      a == task[k].approval
      v == approvals[k][a]
  IN
  IF \/ task[k].status # "needs_approval" \/ a = 0
     \/ i = 0 \/ runs[k][i].status # "waiting_approval"
  THEN {}
  ELSE CASE runs[k][i].kind = "document" -> ResumeDocument(v)
         [] runs[k][i].kind = "skill_missing" -> ResumeSkillMissing(k)
         [] runs[k][i].kind = "approval" -> ResumeApproval(v)
         [] runs[k][i].kind = "github" -> ResumeGithub(v)
         [] runs[k][i].kind = "tool_call" -> ResumeToolCall(k, v)

Resumes(t, k) ==
  \E out \in ResumeOutcomes(k) : Takes(t, k, runs[k], Resumable(k), 0, out)

\* POST /tasks/{id}/resume
ResumeTask(t, k) ==
  /\ th[t].pc = "idle"
  /\ Resumes(t, k)
  /\ resumed' = TRUE
  /\ UNCHANGED disturbed

\* Mutated: the lock is not taken.
DecideAndResumeUnlocked(t, k, d) ==
  LET a == task[k].approval IN
  /\ th[t].pc = "idle"
  /\ a # 0
  /\ approvals[k][a] \in Undecided \cup {d}
  /\ approvals' = [approvals EXCEPT ![k][a] = d]
  /\ th' = [th EXCEPT ![t] = [pc |-> "decided", task |-> k]]
  /\ UNCHANGED <<task, runs, inner, lock, disturbed, resumed>>

\* POST /tasks/{id}/decision stores its decision under the lock, unless the
\* same one is already there, and syncs.
DecideAndResume(t, k, d) ==
  LET a == task[k].approval IN
  /\ th[t].pc = "idle"
  /\ lock = NoThread
  /\ a # 0
  /\ approvals[k][a] \in Undecided \cup {d}
  /\ approvals' = [approvals EXCEPT ![k][a] = d]
  /\ lock' = t
  /\ th' = [th EXCEPT ![t] = [pc |-> "decided", task |-> k]]
  /\ UNCHANGED <<task, runs, inner, disturbed, resumed>>

\* ... then resumes a waiting task, reports a resolved one, or raises.
ResumeDecided(t) ==
  /\ th[t].pc = "decided"
  /\ LET k == th[t].task IN
     \/ Resumes(t, k)
     \/ /\ ResumeOutcomes(k) = {}
        /\ th' = [th EXCEPT ![t] = Idle]
        /\ lock' = NoThread
        /\ UNCHANGED <<task, runs, approvals, inner>>
  /\ UNCHANGED <<disturbed, resumed>>

-----------------------------------------------------------------------------
(* Other requests *)

DecideApproval(k, a, d) ==
  /\ a \in DOMAIN approvals[k]
  /\ approvals[k][a] \in Undecided
  /\ approvals' = [approvals EXCEPT ![k][a] = d]
  /\ UNCHANGED <<task, runs, inner, th, lock, disturbed, resumed>>

\* pause_task and cancel_task look at nothing and touch nothing else.
SetStatus(k, s) ==
  /\ task' = [task EXCEPT ![k].status = s]
  /\ disturbed' = disturbed \cup {k}
  /\ UNCHANGED <<runs, approvals, inner, th, lock, resumed>>

PauseTask(k) == SetStatus(k, "paused")
CancelTask(k) == SetStatus(k, "cancelled")

InnerApproved(k, kind) ==
  /\ inner[k].status = "waiting"
  /\ approvals[k][inner[k].approval] = "approved"
  /\ \E i \in DOMAIN runs[k] : runs[k][i].kind = kind

\* POST /skills/runs/{id}/complete
CompleteSkillRun(k) ==
  /\ InnerApproved(k, "skill_missing")
  /\ \E s \in {"done", "refused"} : inner' = [inner EXCEPT ![k].status = s]
  /\ UNCHANGED <<task, runs, approvals, th, lock, disturbed, resumed>>

\* POST /tools/runs/{id}/complete: the adapter acts before the status changes.
CompleteToolRun(t, k) ==
  /\ th[t].pc = "idle"
  /\ InnerApproved(k, "tool_call")
  /\ th' = [th EXCEPT ![t] = [pc |-> "tool", task |-> k]]
  /\ UNCHANGED <<task, runs, approvals, inner, lock, disturbed, resumed>>

ToolRunCompletes(t) ==
  /\ th[t].pc = "tool"
  /\ inner' = [inner EXCEPT ![th[t].task].status = "done"]
  /\ th' = [th EXCEPT ![t] = Idle]
  /\ UNCHANGED <<task, runs, approvals, lock, disturbed, resumed>>

Next ==
  \/ \E t \in Threads, k \in Tasks :
       \/ \E kind \in Kinds : Begin(t, k, kind)
       \/ ResumeTask(t, k)
       \/ \E d \in {"approved", "rejected"} : DecideAndResume(t, k, d)
       \/ CompleteToolRun(t, k)
  \/ \E t \in Threads : Continue(t) \/ ResumeDecided(t) \/ ToolRunCompletes(t)
  \/ \E k \in Tasks :
       \/ \E a \in 1 .. Len(approvals[k]), d \in Final \cup {"need_more_info"} :
            DecideApproval(k, a, d)
       \/ PauseTask(k)
       \/ CancelTask(k)
       \/ CompleteSkillRun(k)

Spec == Init /\ [][Next]_vars

-----------------------------------------------------------------------------
(* Properties *)

\* Every variable has its type, and threads name runs that exist.
TypeOK ==
  /\ \A k \in Tasks :
       /\ task[k].status \in TaskStatus
       /\ task[k].approval \in 0 .. Len(approvals[k])
       /\ \A i \in DOMAIN runs[k] :
            /\ runs[k][i].status \in RunStatus
            /\ runs[k][i].gate \in 0 .. Len(approvals[k])
       /\ \A a \in DOMAIN approvals[k] : approvals[k][a] \in Final \cup Undecided
       /\ inner[k].status \in {"none", "waiting", "done", "refused"}
       /\ inner[k].approval \in 0 .. Len(approvals[k])
  /\ \A t \in Threads :
       th[t].pc = "call" =>
         /\ th[t].run \in DOMAIN runs[th[t].task]
         /\ th[t].asked \in 0 .. Len(approvals[th[t].task])
  /\ lock \in Threads \cup {NoThread}
  /\ disturbed \subseteq Tasks
  /\ resumed \in BOOLEAN

Quiet(k) == k \notin disturbed /\ \A t \in Threads : th[t].pc = "idle" \/ th[t].task # k
Latest(k) == runs[k][Len(runs[k])]

\* The task statuses a run leaves behind, by its own status.
StatusUnder(r) ==
  CASE r.status = "running" -> {"created", "assigned", "executing"}
    [] r.status = "waiting_approval" ->
         {"needs_approval"} \cup (IF r.kind = "document" THEN {"executing"} ELSE {})
    [] r.status = "completed" ->
         {"completed", "planned", "reviewed", "cancelled", "needs_approval"}
    [] r.status = "blocked" -> {"blocked"}
    [] r.status = "failed" -> {"failed", "blocked"}

\* However requests interleave, a task nobody paused, cancelled or ran again is
\* left in a status its workflow run accounts for (complete_run follows every
\* transition, and a second resumption reaches the verdict of the first).
TaskAgreesWithRun ==
  \A k \in Tasks : Quiet(k) /\ runs[k] # << >> => task[k].status \in StatusUnder(Latest(k))

\* The approval run i of task k waited for allows it to go on.  A task that is
\* run again while it waits has two runs but links one approval.
Consented(k, i) ==
  LET yes == IF runs[k][i].kind = "approval" THEN {"approved", "modified"} ELSE {"approved"}
      asked == IF Len(runs[k]) = 1 THEN {runs[k][i].gate} ELSE DOMAIN approvals[k]
  IN  \E a \in asked : approvals[k][a] \in yes

Refusals == {"gate", "audit_rejected", "audit_blocked", "refused"}

\* docs/WORKFLOWS.md: "Approval-gated workflows must resume only after the
\* linked approval is approved": past its gate a run works, and ends well, only
\* with consent, whoever resumes it and whatever else decides, pauses or cancels.
GatedWork ==
  /\ \A t \in Threads :
       LET w == th[t] IN
       w.pc = "call" =>
         (runs[w.task][w.run].gate # 0 /\ w.at \notin Refusals => Consented(w.task, w.run))
  /\ \A k \in Tasks : \A i \in DOMAIN runs[k] :
       LET r == runs[k][i] IN
       r.gate # 0 /\ r.left \in {"completed", "needs_approval"} => Consented(k, i)

\* docs/API.md: "Repeating the same final decision returns the already-resolved
\* task without executing it twice": without calls of /resume, which does not
\* take the lock, no run ends twice.
FinishedOnce ==
  ~resumed => \A k \in Tasks : \A i \in DOMAIN runs[k] : runs[k][i].ends <= 1

\* An approved task that waits undisturbed can be resumed, unless the Skill it
\* waits for was refused: task, run, approval and Skill or Tool Run fit together.
ApprovedCanResume ==
  \A k \in Tasks :
    /\ Quiet(k)
    /\ runs[k] # << >> /\ Latest(k).status = "waiting_approval"
    /\ task[k].status = "needs_approval" /\ task[k].approval # 0
    /\ approvals[k][task[k].approval] = "approved"
    /\ inner[k].status # "refused"
    => ResumeOutcomes(k) # {}
=============================================================================
