---------------------------- MODULE ChatActions -----------------------------
(***************************************************************************)
(* The action cards of the chat: proposed, confirmed or cancelled, run as  *)
(* a workflow, a goal or an agent run of several tool steps, paused for an *)
(* approval and resumed by a decision.  An action has a live record that   *)
(* confirmation consumes, a copy of it in a message of its session, and,   *)
(* for an agent run, a run record beside the messages; only sessions are   *)
(* stored, and a restart makes live records again from what they say.      *)
(* Request threads interleave at syncs, model calls and workflow calls.    *)
(***************************************************************************)
EXTENDS Naturals, Sequences

CONSTANTS Threads, Actions,
          None,
          MaxSteps,    \* max_steps of an agent run
          MaxTasks, MaxRestarts   \* bounds on tasks of an action, on restarts

ASSUME BoundsAssumption ==
  MaxSteps \in Nat \ {0} /\ MaxTasks \in Nat /\ MaxRestarts \in Nat

\* What _build_chat_action_proposal and the planner can offer.
Kinds == {"workflow", "goal", "agent"}

Settled == {"completed", "cancelled", "failed"}
Status == {"pending", "executing", "waiting_approval"} \cup Settled
TaskFinal == {"completed", "cancelled", "failed"}

ActType == [status : Status, task : 0..MaxTasks]
StepType == [status : {"running", "waiting_approval", "completed", "failed", "cancelled"},
             task : 0..MaxTasks]
RunType == [status : {"running", "waiting_approval"} \cup Settled,
            steps : UNION {[1..n -> StepType] : n \in 0..MaxSteps}]
TaskType == [status : {"executing", "needs_approval"} \cup TaskFinal,
             approval : {"none", "pending", "approved", "rejected"}]

ASSUME NoneAssumption ==
  None \notin Threads \cup Kinds \cup Status \cup {"message"} \cup ActType \cup RunType

VARIABLES
  kind,     \* what each action does: a workflow, a goal, an agent run
  live,     \* _chat_action_proposals: a status, or "message" for the card's own record
  cached,   \* actions with an entry in _chat_action_results
  act,      \* the action record of the message: status and task (0: none)
  run,      \* the agent run of the action's session
  kept,     \* actions whose session has not been deleted
  tasks,    \* the tasks run for each action, with their approvals
  db,       \* the stored act, run, kept and tasks
  th,       \* what each request thread is doing
  lock,     \* _task_decision_lock
  begun,    \* confirmations of each action
  deleted,  \* actions whose session has been deleted at some time
  restarts

vars == <<kind, live, cached, act, run, kept, tasks, db, th, lock, begun, deleted, restarts>>

\* What a restart offers again.
Reoffered == {"pending", "executing"}

Idle == [pc |-> "idle"]
At(pc, a, via) == [pc |-> pc, a |-> a, via |-> via]

\* sync: the tasks and sessions that exist are listed when it starts.
Sync(next) ==
  [pc |-> "save_tasks", next |-> next,
   tasks |-> [a \in Actions |-> Len(tasks'[a])], chats |-> kept']

Goes(t, to) == th' = [th EXCEPT ![t] = to]

\* The thread ends its request; a decision gives the lock back.
Ends(t) ==
  /\ Goes(t, Idle)
  /\ lock' = IF lock = t THEN None ELSE lock

EndsWithSync(t) ==
  /\ Goes(t, Sync(Idle))
  /\ UNCHANGED lock

Init ==
  /\ kind = [a \in Actions |-> None]
  /\ live = [a \in Actions |-> None]
  /\ cached = {}
  /\ act = [a \in Actions |-> None]
  /\ run = [a \in Actions |-> None]
  /\ kept = Actions
  /\ tasks = [a \in Actions |-> << >>]
  /\ db = [act |-> act, run |-> run, kept |-> kept, tasks |-> tasks]
  /\ th = [t \in Threads |-> Idle]
  /\ lock = None
  /\ begun = [a \in Actions |-> 0]
  /\ deleted = {}
  /\ restarts = 0

LiveStatus(a) == IF live[a] = "message" THEN act[a].status ELSE live[a]

-----------------------------------------------------------------------------
(* respond_to_chat and send_chat_session_message, cancel and delete        *)

\* respond_to_chat: the proposal is live before it is in a message, and stays
\* so when the caller asked without a session.  An action has a new id.
Propose(t, a) ==
  /\ th[t].pc = "idle"
  /\ kind[a] = None
  /\ kind' \in {[kind EXCEPT ![a] = k] : k \in Kinds}
  /\ live' = [live EXCEPT ![a] = "pending"]
  /\ UNCHANGED <<cached, act, run, kept, tasks, db, lock, begun, restarts>>
  /\ \E next \in {Idle, At("attach", a, "send")} : Goes(t, Sync(next))

\* The audit trail names the proposal before a message does: the record may have
\* been confirmed, and have its task, when it is copied.
LiveCopy(a) == [status |-> live[a], task |-> IF a \in cached THEN Len(tasks[a]) ELSE 0]

\* The message gets a copy; append_message fails when the session is gone.
Attach(t) ==
  LET a == th[t].a IN
  /\ th[t].pc = "attach"
  /\ UNCHANGED <<live, cached, run, kept, tasks, db, lock, begun, restarts>>
  /\ IF a \in kept
     THEN /\ act' = [act EXCEPT ![a] = LiveCopy(a)]
          /\ Goes(t, Sync(Idle))
     ELSE Goes(t, Idle) /\ UNCHANGED act

\* update_action writes the card of a session that still exists.
Carded(a) == a \in kept /\ act[a] # None
WithStatus(a, s) == IF Carded(a) THEN [act EXCEPT ![a].status = s] ELSE act

CancelChatAction(t, a) ==
  /\ th[t].pc = "idle"
  /\ live[a] # None /\ LiveStatus(a) = "pending"
  /\ live' = [live EXCEPT ![a] = "cancelled"]
  /\ act' = WithStatus(a, "cancelled")
  /\ UNCHANGED <<cached, run, kept, tasks, db, lock, begun, restarts>>
  /\ Goes(t, Sync(Idle))

\* The row goes at once; the live record and a running thread know nothing.
DeleteChatSession(t, a) ==
  /\ th[t].pc = "idle"
  /\ a \in kept
  /\ kept' = kept \ {a}
  /\ db' = [db EXCEPT !.kept = @ \ {a}]
  /\ deleted' = deleted \cup {a}
  /\ UNCHANGED <<live, cached, act, run, tasks, lock, begun, restarts>>
  /\ Goes(t, Sync(Idle))

-----------------------------------------------------------------------------
(* execute_chat_action                                                     *)

\* Mutated: an action that is already executing may be confirmed.
ConfirmableAgain == {"pending", "executing"}

Confirmable == {"pending"}

\* Under _chat_action_lock; a cached result is returned as it is.
Execute(t, a) ==
  /\ th[t].pc = "idle"
  /\ a \notin cached
  /\ live[a] # None /\ LiveStatus(a) \in Confirmable
  /\ live' = [live EXCEPT ![a] = "executing"]
  /\ begun' = [begun EXCEPT ![a] = @ + 1]
  /\ Goes(t, IF kind[a] = "agent" THEN At("start", a, "execute") ELSE At("call", a, "execute"))
  /\ UNCHANGED <<cached, act, run, kept, tasks, db, lock, restarts>>

\* An exception marks the live record and leaves the card as it is.
Raises(t, a) ==
  /\ live' = IF th[t].via = "execute" THEN [live EXCEPT ![a] = "failed"] ELSE live
  /\ Ends(t)
  /\ UNCHANGED <<cached, db, begun, restarts>>

\* run_registered_workflow creates the task and syncs before it works on it.
Call(t) ==
  LET a == th[t].a
      n == Len(tasks[a]) + 1 IN
  /\ th[t].pc = "call"
  /\ \/ /\ kind[a] # "goal"
        /\ n <= MaxTasks
        /\ tasks' = [tasks EXCEPT ![a] = Append(@, [status |-> "executing", approval |-> "none"])]
        /\ UNCHANGED <<live, cached, act, run, kept, db, lock, begun, restarts>>
        /\ Goes(t, Sync([pc |-> "work", a |-> a, via |-> th[t].via, task |-> n]))
     \/ /\ kind[a] = "goal"          \* create_strategic_goal
        /\ UNCHANGED <<live, cached, act, run, kept, tasks, db, lock, begun, restarts>>
        /\ Goes(t, Sync([pc |-> "back", a |-> a, via |-> th[t].via, task |-> 0, out |-> "completed"]))

\* The work ends in some way, or asks for an approval and waits; it may raise.
Outcomes == {"completed", "failed", "waiting_approval"}

Settles(out) ==
  IF out = "waiting_approval" THEN [status |-> "needs_approval", approval |-> "pending"]
  ELSE [status |-> out, approval |-> "none"]

Work(t, out) ==
  LET a == th[t].a IN
  /\ th[t].pc = "work"
  /\ tasks' = [tasks EXCEPT ![a][th[t].task] = Settles(out)]
  /\ UNCHANGED <<live, cached, act, run, kept, db, lock, begun, restarts>>
  /\ Goes(t, Sync([pc |-> "back", a |-> a, via |-> th[t].via, task |-> th[t].task, out |-> out]))

\* Before its task exists or while it works, a workflow or goal may raise.
CallRaises(t) ==
  /\ th[t].pc \in {"call", "work"}
  /\ kind[th[t].a] # "agent"
  /\ Raises(t, th[t].a)
  /\ UNCHANGED <<act, run, kept, tasks>>

\* _record_chat_action_result
Record(t) ==
  LET a == th[t].a
      out == th[t].out IN
  /\ th[t].pc = "back" /\ kind[a] # "agent"
  /\ live' = [live EXCEPT ![a] = out]
  /\ act' = IF Carded(a) THEN [act EXCEPT ![a] = [status |-> out, task |-> th[t].task]] ELSE act
  /\ cached' = cached \cup {a}
  /\ UNCHANGED <<run, kept, tasks, db, begun, restarts>>
  /\ EndsWithSync(t)

-----------------------------------------------------------------------------
(* Agent runs                                                              *)

\* _start_chat_agent_run: a restart may have left a run to go on with.
StartAgentRun(t) ==
  LET a == th[t].a IN
  /\ th[t].pc = "start"
  /\ IF Carded(a) /\ (run[a] = None \/ run[a].status \in {"running", "failed"})
     THEN /\ run' = [run EXCEPT ![a] = IF @ = None THEN [status |-> "running", steps |-> << >>]
                                       ELSE [@ EXCEPT !.status = "running"]]
          /\ act' = [act EXCEPT ![a].status = "executing"]
          /\ UNCHANGED <<live, cached, kept, tasks, db, lock, begun, restarts>>
          /\ Goes(t, Sync(At("model", a, "execute")))
     ELSE Raises(t, a) /\ UNCHANGED <<act, run, kept, tasks>>

\* The record a thread holds is the live one, or the card after a decision.
HeldStatus(t, a, s) ==
  /\ live' = IF th[t].via = "execute" THEN [live EXCEPT ![a] = s] ELSE live
  /\ act' = IF th[t].via = "decide" \/ Carded(a) THEN [act EXCEPT ![a].status = s] ELSE act

LastStep(a) == Len(run[a].steps)

\* The statuses change; then the message fails if the session is gone.
RunEnds(t, a, ended, s) ==
  /\ run' = [run EXCEPT ![a] = [ended EXCEPT !.status = s]]
  /\ UNCHANGED <<kept, tasks>>
  /\ IF a \in kept
     THEN /\ HeldStatus(t, a, s)
          /\ cached' = cached \cup {a}
          /\ UNCHANGED <<db, begun, restarts>>
          /\ EndsWithSync(t)
     ELSE /\ act' = IF th[t].via = "decide" THEN [act EXCEPT ![a].status = s] ELSE act
          /\ Raises(t, a)

\* The model's next decision: a tool, the end, or nothing that can be used.
DecideTool(t) ==
  LET a == th[t].a IN
  /\ th[t].pc = "model"
  /\ LastStep(a) < MaxSteps
  /\ run' = [run EXCEPT ![a].steps = Append(@, [status |-> "running", task |-> 0])]
  /\ UNCHANGED <<live, cached, act, kept, tasks, db, lock, begun, restarts>>
  /\ Goes(t, Sync(At("call", a, th[t].via)))

CompleteAgentRun(t) ==
  /\ th[t].pc = "model"
  /\ LastStep(th[t].a) < MaxSteps
  /\ RunEnds(t, th[t].a, run[th[t].a], "completed")

\* Blocked by the budget, not a decision, or no steps left.
FailAgentRun(t) ==
  /\ th[t].pc \in {"model", "fail"}
  /\ RunEnds(t, th[t].a, run[th[t].a], "failed")

\* ModelProviderError passes through: the run and the card stay executing.
ModelRaises(t) ==
  /\ th[t].pc = "model"
  /\ LastStep(th[t].a) < MaxSteps
  /\ Raises(t, th[t].a)
  /\ UNCHANGED <<act, run, kept, tasks>>

\* The tool workflow raised: the step and the run fail.
StepRaises(t) ==
  LET a == th[t].a IN
  /\ th[t].pc \in {"call", "work"} /\ kind[a] = "agent"
  /\ RunEnds(t, a, [run[a] EXCEPT !.steps[LastStep(a)].status = "failed"], "failed")

\* Mutated: the card does not get the task it waits for.
CardWaitsTaskless(t, a) == WithStatus(a, "waiting_approval")

CardWaits(t, a) ==
  IF Carded(a) THEN [act EXCEPT ![a] = [status |-> "waiting_approval", task |-> th[t].task]]
  ELSE WithStatus(a, "waiting_approval")

StepWaits(t) ==
  LET a == th[t].a
      step == [status |-> "waiting_approval", task |-> th[t].task] IN
  /\ th[t].pc = "back" /\ kind[a] = "agent" /\ th[t].out = "waiting_approval"
  /\ run' = [run EXCEPT ![a] = [status |-> "waiting_approval",
                                steps |-> [@.steps EXCEPT ![LastStep(a)] = step]]]
  /\ act' = CardWaits(t, a)
  /\ UNCHANGED <<cached, kept, tasks, db, begun, restarts>>
  /\ IF a \in kept
     THEN /\ live' = IF th[t].via = "execute" THEN [live EXCEPT ![a] = "waiting_approval"] ELSE live
          /\ EndsWithSync(t)
     ELSE Raises(t, a)

StepEnds(t) ==
  LET a == th[t].a
      step == [status |-> th[t].out, task |-> th[t].task] IN
  /\ th[t].pc = "back" /\ kind[a] = "agent" /\ th[t].out \in {"completed", "failed"}
  /\ run' = [run EXCEPT ![a].steps[LastStep(a)] = step]
  /\ UNCHANGED <<live, cached, act, kept, tasks, db, lock, begun, restarts>>
  /\ Goes(t, Sync(At(IF th[t].out = "failed" THEN "fail" ELSE "model", a, th[t].via)))

-----------------------------------------------------------------------------
(* decide_and_resume_task, under its lock, and the other ways to decide    *)

\* A repeated decision finds the approval as it decided it.
Decide(t, a, k, v) ==
  LET next == [pc |-> "resume", a |-> a, via |-> "decide", task |-> k, v |-> v] IN
  /\ th[t].pc = "idle" /\ lock = None
  /\ k \in 1..Len(tasks[a]) /\ tasks[a][k].approval \in {"pending", v}
  /\ tasks' = [tasks EXCEPT ![a][k].approval = v]
  /\ lock' = t
  /\ UNCHANGED <<live, cached, act, run, kept, db, begun, restarts>>
  /\ Goes(t, IF tasks' # tasks THEN Sync(next) ELSE next)

\* What resume_task makes of a task that waits and has been decided.
Resumed(v) == IF v = "rejected" THEN {"cancelled"} ELSE {"completed", "failed"}

ResumeDecided(t) ==
  LET a == th[t].a
      k == th[t].task
      noted == [th[t] EXCEPT !.pc = "note"] IN
  /\ th[t].pc = "resume"
  /\ UNCHANGED <<live, cached, act, run, kept, db, begun, restarts>>
  /\ \/ /\ tasks[a][k].status = "needs_approval"
        /\ \E s \in Resumed(th[t].v) : tasks' = [tasks EXCEPT ![a][k].status = s]
        /\ Goes(t, Sync(noted)) /\ UNCHANGED lock
     \/ /\ tasks[a][k].status \in TaskFinal           \* already resolved
        /\ Goes(t, noted) /\ UNCHANGED <<tasks, lock>>
     \/ /\ Ends(t)                                    \* resume_task may raise
        /\ UNCHANGED tasks

\* POST /approvals/{id}/decide and POST /tasks/{id}/resume tell no chat.
DecideApproval(t, a, k, v) ==
  /\ th[t].pc = "idle"
  /\ k \in 1..Len(tasks[a]) /\ tasks[a][k].approval = "pending"
  /\ tasks' = [tasks EXCEPT ![a][k].approval = v]
  /\ UNCHANGED <<live, cached, act, run, kept, db, lock, begun, restarts>>
  /\ Goes(t, Sync(Idle))

ResumeTask(t, a, k) ==
  /\ th[t].pc = "idle"
  /\ k \in 1..Len(tasks[a]) /\ tasks[a][k].status = "needs_approval"
  /\ tasks[a][k].approval # "pending"
  /\ \E s \in Resumed(tasks[a][k].approval) : tasks' = [tasks EXCEPT ![a][k].status = s]
  /\ UNCHANGED <<live, cached, act, run, kept, db, lock, begun, restarts>>
  /\ Goes(t, Sync(Idle))

\* find_agent_run_by_task: the thread that ran the tool may not be back yet.
StepOf(a, k) ==
  IF a \notin kept \/ run[a] = None THEN {}
  ELSE {i \in 1..LastStep(a) : run[a].steps[i].task = k}

Noting(t) == th[t].pc = "note" /\ UNCHANGED <<kept, tasks, db, begun, restarts>>

\* Mutated: the card takes the name of the decision.
DecisionItself(a, k, v) == IF v = "rejected" THEN v ELSE tasks[a][k].status

DecidedStatus(a, k, v) == IF v = "rejected" THEN "cancelled" ELSE tasks[a][k].status

\* _record_chat_task_decision; find_by_task may find no card.
NoteOnCard(t) ==
  LET a == th[t].a
      open == Carded(a) /\ act[a].task = th[t].task /\ act[a].status \notin Settled IN
  /\ Noting(t)
  /\ StepOf(a, th[t].task) = {}
  /\ UNCHANGED <<live, cached, run>>
  /\ IF open
     THEN /\ act' = [act EXCEPT ![a].status = DecidedStatus(a, th[t].task, th[t].v)]
          /\ EndsWithSync(t)
     ELSE Ends(t) /\ UNCHANGED act

\* Mutated: the card is not told of the rejection.
RejectedCard(a) == act

CancelledCard(a) == [act EXCEPT ![a].status = "cancelled"]

\* _resume_chat_agent_run_after_decision
NoteOnRun(t) ==
  LET a == th[t].a
      steps == StepOf(a, th[t].task) IN
  /\ Noting(t)
  /\ steps # {}
  /\ LET i == CHOOSE i \in steps : TRUE
         With(s, r) == run' = [run EXCEPT ![a] = [status |-> r, steps |-> [@.steps EXCEPT ![i].status = s]]] IN
     \/ /\ run[a].status \in Settled \/ run[a].steps[i].status # "waiting_approval"
        /\ Ends(t)
        /\ UNCHANGED <<live, cached, act, run>>
     \/ /\ run[a].status \notin Settled /\ run[a].steps[i].status = "waiting_approval"
        /\ th[t].v = "rejected"
        /\ With("cancelled", "cancelled")
        /\ act' = CancelledCard(a)
        /\ cached' = cached \cup {a}
        /\ UNCHANGED live
        /\ EndsWithSync(t)
     \/ /\ run[a].status \notin Settled /\ run[a].steps[i].status = "waiting_approval"
        /\ th[t].v = "approved" /\ tasks[a][th[t].task].status # "completed"
        /\ With("failed", "failed")
        /\ act' = [act EXCEPT ![a].status = "failed"]
        /\ cached' = cached \cup {a}
        /\ UNCHANGED live
        /\ EndsWithSync(t)
     \/ /\ run[a].status \notin Settled /\ run[a].steps[i].status = "waiting_approval"
        /\ th[t].v = "approved" /\ tasks[a][th[t].task].status = "completed"
        /\ With("completed", "running")
        /\ act' = [act EXCEPT ![a] = [status |-> "executing", task |-> 0]]
        /\ live' = [live EXCEPT ![a] = "message"]
        /\ cached' = cached \ {a}
        /\ UNCHANGED lock
        /\ Goes(t, Sync(At("model", a, "decide")))

-----------------------------------------------------------------------------
(* sync_state: tasks and approvals first, chat sessions last               *)

SaveTasks(t) ==
  /\ th[t].pc = "save_tasks"
  /\ db' = [db EXCEPT !.tasks = [a \in Actions |->
       SubSeq(tasks[a], 1, th[t].tasks[a])
         \o SubSeq(@[a], th[t].tasks[a] + 1, Len(@[a]))]]
  /\ Goes(t, [pc |-> "save_chat", next |-> th[t].next, chats |-> th[t].chats])
  /\ UNCHANGED <<live, cached, act, run, kept, tasks, lock, begun, restarts>>

\* A session that was listed is written, deleted since or not.
SaveChat(t) ==
  LET Row(new, old) == [a \in Actions |-> IF a \in th[t].chats THEN new[a] ELSE old[a]] IN
  /\ th[t].pc = "save_chat"
  /\ db' = [db EXCEPT !.act = Row(act, @), !.run = Row(run, @), !.kept = @ \cup th[t].chats]
  /\ Goes(t, th[t].next)
  /\ lock' = IF th[t].next = Idle /\ lock = t THEN None ELSE lock
  /\ UNCHANGED <<live, cached, act, run, kept, tasks, begun, restarts>>

\* __post_init__ and _restore_chat_action_proposals
Restart ==
  LET offered == {a \in db.kept : db.act[a] # None /\ db.act[a].status \in Reoffered} IN
  /\ restarts < MaxRestarts
  /\ restarts' = restarts + 1
  /\ live' = [a \in Actions |-> IF a \in offered THEN "pending" ELSE None]
  /\ cached' = {}
  /\ act' = [a \in Actions |->
       IF a \in offered THEN [db.act[a] EXCEPT !.status = "pending"]
       ELSE IF a \in db.kept THEN db.act[a] ELSE None]
  /\ run' = [a \in Actions |-> IF a \in db.kept THEN db.run[a] ELSE None]
  /\ kept' = db.kept
  /\ tasks' = db.tasks
  /\ th' = [t \in Threads |-> Idle]
  /\ lock' = None
  /\ UNCHANGED <<db, begun>>

-----------------------------------------------------------------------------
Next ==
  \/ \E t \in Threads, a \in Actions : Propose(t, a) /\ UNCHANGED deleted
  \/ \E t \in Threads, a \in Actions : DeleteChatSession(t, a) /\ UNCHANGED kind
  \/ UNCHANGED <<kind, deleted>> /\ \E t \in Threads :
       \/ \E a \in Actions :
            \/ CancelChatAction(t, a) \/ Execute(t, a)
            \/ \E k \in 1..MaxTasks :
                 \/ \E v \in {"approved", "rejected"} :
                      Decide(t, a, k, v) \/ DecideApproval(t, a, k, v)
                 \/ ResumeTask(t, a, k)
       \/ Attach(t) \/ Call(t) \/ CallRaises(t) \/ Record(t)
       \/ \E out \in Outcomes : Work(t, out)
       \/ StartAgentRun(t) \/ DecideTool(t) \/ CompleteAgentRun(t) \/ FailAgentRun(t)
       \/ ModelRaises(t) \/ StepRaises(t) \/ StepWaits(t) \/ StepEnds(t)
       \/ ResumeDecided(t) \/ NoteOnCard(t) \/ NoteOnRun(t)
       \/ SaveTasks(t) \/ SaveChat(t)
  \/ Restart /\ UNCHANGED <<kind, deleted>>

Spec == Init /\ [][Next]_vars

-----------------------------------------------------------------------------
\* Cards, runs and tasks have the statuses their records allow, in memory and
\* in the rows; update_action refuses any other.
TypeOK ==
  /\ kind \in [Actions -> {None} \cup Kinds]
  /\ live \in [Actions -> {None, "message"} \cup Status]
  /\ cached \subseteq Actions /\ kept \subseteq Actions /\ deleted \subseteq Actions
  /\ \A r \in {[act |-> act, run |-> run, kept |-> kept, tasks |-> tasks], db} :
       \A a \in Actions :
         /\ r.act[a] \in {None} \cup ActType
         /\ r.run[a] \in {None} \cup RunType
         /\ r.tasks[a] \in UNION {[1..n -> TaskType] : n \in 0..MaxTasks}
         /\ r.kept \subseteq Actions
  /\ lock \in Threads \cup {None}

\* A card that waits can be answered, now and after a restart: it names a task
\* that waits for its decision or has been resolved elsewhere, and a decision,
\* sent again, settles it.
WaitingIsAnswerable ==
  \A r \in {[act |-> act, kept |-> kept, tasks |-> tasks],
            [act |-> db.act, kept |-> db.kept, tasks |-> db.tasks]} :
    \A a \in r.kept :
      (r.act[a] # None /\ r.act[a].status = "waiting_approval") =>
        /\ r.act[a].task \in 1..Len(r.tasks[a])
        /\ r.tasks[a][r.act[a].task].approval # "none"
        /\ r.tasks[a][r.act[a].task].status \in {"needs_approval"} \cup TaskFinal

\* The three records of an agent run, its card, its status and its steps, say
\* the same: a run waits with its card and exactly one step, it ends with its
\* card, and a result is remembered only for a run that has ended.  A session
\* that was deleted may come back from a sync that had listed it, half written.
RunAgreesWithCard ==
  \A a \in kept \ deleted :
    run[a] # None =>
      LET waits == {i \in 1..LastStep(a) : run[a].steps[i].status = "waiting_approval"} IN
      /\ run[a].status = "waiting_approval" <=> act[a].status = "waiting_approval"
      /\ run[a].status = "waiting_approval" <=> waits # {}
      /\ waits \subseteq {LastStep(a)}
      /\ run[a].status \in Settled => act[a].status = run[a].status
      /\ a \in cached => run[a].status \in Settled

Card == INSTANCE ActionCard WITH
          card <- [a \in Actions |->
                     IF a \in deleted \/ db.act[a] = None THEN "none" ELSE db.act[a].status],
          lives <- restarts + 1

\* The stored card is an ActionCard: confirmed at most once in each process,
\* never after it has been settled or while it waits.
ImplementsCard == Card!CardSpec
=============================================================================
