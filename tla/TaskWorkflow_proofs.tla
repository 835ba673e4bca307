------------------------ MODULE TaskWorkflow_proofs ------------------------
(***************************************************************************)
(* Proofs about TaskWorkflow, for every set of threads and tasks, every    *)
(* choice of the workflows and any number of runs of a task.               *)
(***************************************************************************)
EXTENDS TaskWorkflow, WellFoundedInduction, TLAPS

-----------------------------------------------------------------------------
(* The invariant                                                           *)

AllKinds == {"document", "planning", "collaboration", "skill_missing", "agent_missing",
             "approval", "quality", "retrospective", "github", "tool_call"}
Gated == {"document", "skill_missing", "approval", "github", "tool_call"}
Tails == {"proposed", "under_review", "free", "refused"}

\* Where the thread that started a run can be before the run first waits ...
Early(kind) ==
  CASE kind = "document" -> {"plan", "assign", "write", "risk", "quality"}
    [] kind = "planning" -> {"understand", "decompose", "risk"}
    [] kind = "collaboration" -> {"coordinate", "handoff", "audit"}
    [] kind = "skill_missing" -> {"search", "compose", "gate"} \cup Tails
    [] kind = "agent_missing" -> {"detect", "plan", "risk"} \cup Tails
    [] kind = "approval" -> {"prepare", "risk", "gate", "audit_allowed", "audit_blocked"}
    [] kind = "quality" -> {"check", "risk_passed", "risk_failed", "audit_passed", "audit_failed"}
    [] kind = "retrospective" -> {"review", "memory", "audit"}
    [] kind = "github" -> {"gate"}
    [] kind = "tool_call" -> {"prepare", "risk", "gate", "audit_completed",
                              "audit_failed", "audit_blocked"}

\* ... and where a thread that resumed it can be.
Late(kind) ==
  CASE kind = "document" -> {"write", "risk", "quality"}
    [] kind = "skill_missing" -> {"continue"} \cup Tails
    [] kind = "approval" -> {"audit_approved", "audit_rejected", "audit_blocked"}
    [] kind = "github" -> {"analyze", "risk", "propose", "curate", "sandbox", "register"}
    [] kind = "tool_call" -> {"adapter", "audit_completed", "audit_failed",
                              "audit_rejected", "audit_blocked"}
    [] OTHER -> {}

Stages == UNION {Early(kind) \cup Late(kind) : kind \in AllKinds}

RunRecords == [kind : AllKinds, status : RunStatus, gate : Nat, ends : Nat,
               left : TaskStatus \cup {"none"}]
TaskRecords == [status : TaskStatus, approval : Nat]
InnerRecords == [status : {"none", "waiting", "done", "refused"}, approval : Nat]

Calls == [pc : {"call"}, task : Tasks, run : Nat, at : Stages, asked : Nat]
Decided == [pc : {"decided"}, task : Tasks]
AtTool == [pc : {"tool"}, task : Tasks]

TypeInv ==
  /\ task \in [Tasks -> TaskRecords]
  /\ runs \in [Tasks -> Seq(RunRecords)]
  /\ approvals \in [Tasks -> Seq(Final \cup Undecided)]
  /\ inner \in [Tasks -> InnerRecords]
  /\ th \in [Threads -> {Idle} \cup Calls \cup Decided \cup AtTool]
  /\ lock \in Threads \cup {NoThread}
  /\ disturbed \subseteq Tasks
  /\ resumed \in BOOLEAN

Works(t, k, i) == th[t].pc = "call" /\ th[t].task = k /\ th[t].run = i
HasRun(k, kind) == \E i \in DOMAIN runs[k] : runs[k][i].kind = kind

\* The approval a Skill Run waited for has been given; a task that was run again
\* has been given one.
Cleared(k) ==
  IF Len(runs[k]) = 1
  THEN inner[k].approval # 0 /\ approvals[k][inner[k].approval] = "approved"
  ELSE \E a \in DOMAIN approvals[k] : approvals[k][a] = "approved"

\* A run that waits knows for what, only some workflows wait, and a run that
\* waited and ended well had consent.
RunsOK(k) ==
  /\ \A i \in DOMAIN runs[k] :
       LET r == runs[k][i] IN
       /\ r.gate \in 0 .. Len(approvals[k])
       /\ r.status = "waiting_approval" => r.gate # 0
       /\ r.gate # 0 => r.kind \in Gated
       /\ r.gate # 0 /\ r.left \in {"completed", "needs_approval"} => Consented(k, i)
  /\ \A i, j \in DOMAIN runs[k] :
       runs[k][i].kind # "document" /\ runs[k][j].kind # "document" => i = j

\* What a task waits for: a single run that waits is linked to its approval, and
\* so is its Skill Run.
TaskOK(k) ==
  /\ task[k].approval \in 0 .. Len(approvals[k])
  /\ inner[k].approval \in 0 .. Len(approvals[k])
  /\ inner[k].status # "none" => HasRun(k, "skill_missing") \/ HasRun(k, "tool_call")
  /\ inner[k].status # "none" => inner[k].approval # 0
  /\ inner[k].status = "done" /\ HasRun(k, "skill_missing") => Cleared(k)
  /\ Len(runs[k]) = 1 =>
       LET r == runs[k][1] IN
       /\ r.status = "waiting_approval" => task[k].approval = r.gate
       /\ r.kind = "skill_missing" /\ r.gate # 0 =>
            inner[k].status # "none" /\ inner[k].approval = r.gate

\* A thread at work is at a stage of its workflow, early or late, has the
\* approval it asked for, and once the run has waited it has consent.
ThreadOK(t) ==
  LET w == th[t] IN
  /\ w.pc = "call" =>
       /\ w.run \in DOMAIN runs[w.task]
       /\ w.asked \in 0 .. Len(approvals[w.task])
       /\ w.at \in {"gate", "proposed", "under_review"} => w.asked # 0
       /\ LET r == runs[w.task][w.run] IN
          /\ r.gate = 0 => /\ w.at \in Early(r.kind)
                           /\ r.status = "running" /\ r.left = "none" /\ r.ends = 0
          /\ r.gate # 0 => /\ w.at \in Late(r.kind)
                           /\ w.at \notin Refusals => Consented(w.task, w.run)
          /\ r.kind = "skill_missing" /\ w.at \in {"search", "compose"} =>
               inner[w.task].status = "none"
          /\ r.kind = "skill_missing" /\ w.at = "gate" =>
               inner[w.task].status # "none" /\ inner[w.task].approval = w.asked
          /\ w.at = "adapter" => inner[w.task].status # "none"
  /\ w.pc = "decided" => lock = t
  /\ w.pc = "tool" => HasRun(w.task, "tool_call") /\ inner[w.task].status # "none"

\* Until it first waits, only the thread that started a run works on it.
AloneEarly(t, u) ==
  \A k \in Tasks : \A i \in DOMAIN runs[k] :
    Works(t, k, i) /\ Works(u, k, i) /\ runs[k][i].gate = 0 => t = u

\* Without calls of /resume a run has one thread, which holds the lock once the
\* run has waited, and has not ended.
OnceOK ==
  ~resumed =>
    /\ \A k \in Tasks : \A i \in DOMAIN runs[k] :
         /\ runs[k][i].ends <= 1
         /\ runs[k][i].status \in {"running", "waiting_approval"} => runs[k][i].ends = 0
    /\ \A t \in Threads : th[t].pc = "call" =>
         LET r == runs[th[t].task][th[t].run] IN
         /\ r.status \in {"running", "waiting_approval"}
         /\ r.status = "waiting_approval" => lock = t
    /\ \A t, u \in Threads : \A k \in Tasks : \A i \in DOMAIN runs[k] :
         Works(t, k, i) /\ Works(u, k, i) => t = u

\* The status of a task while its document run is at a stage.
StatusAt ==
  [plan |-> "created", assign |-> "planned", write |-> "executing",
   risk |-> "executing", quality |-> "quality_checking"]

\* A task nobody disturbed has one run at most.  With nobody at work on it its
\* status agrees with the run; a document run has one thread, and the status
\* is that of its stage.
UndisturbedOK(k) ==
  k \notin disturbed =>
    /\ Len(runs[k]) <= 1
    /\ runs[k] = << >> => task[k].status = "created"
    /\ Len(runs[k]) = 1 =>
         /\ (\A t \in Threads : ~Works(t, k, 1)) => task[k].status \in StatusUnder(runs[k][1])
         /\ runs[k][1].kind = "document" =>
              /\ \A t \in Threads : Works(t, k, 1) =>
                   /\ task[k].status = StatusAt[th[t].at]
                   /\ runs[k][1].status \in {"running", "waiting_approval"}
              /\ \A t, u \in Threads : Works(t, k, 1) /\ Works(u, k, 1) => t = u

Inv ==
  /\ TypeInv
  /\ \A k \in Tasks : RunsOK(k) /\ TaskOK(k) /\ UndisturbedOK(k)
  /\ \A t \in Threads : ThreadOK(t) /\ \A u \in Threads : AloneEarly(t, u)
  /\ OnceOK

-----------------------------------------------------------------------------
(* What an outcome can be                                                  *)

\* The fields of an outcome, in a form the backends take apart; `asks' and
\* `links' are stated beside it.
Is(out, to, s, r, i) == out.to = to /\ out.task = s /\ out.run = r /\ out.inner = i
Plain(out) == ~out.asks /\ ~out.links
Asking(out) == out.asks /\ ~out.links

LEMMA Goes ==
  /\ \A st, s : Is(Go(st, s), st, s, "same", "same") /\ Plain(Go(st, s))
  /\ \A st, s, i : Is(With(Go(st, s), i), st, s, "same", i) /\ Plain(With(Go(st, s), i))
<1>1. \A st, s : Is(Go(st, s), st, s, "same", "same")
  BY DEF Go, Is
<1>2. \A st, s : Plain(Go(st, s))
  BY DEF Go, Plain
<1>3. \A st, s, i : Is(With(Go(st, s), i), st, s, "same", i)
  BY DEF Go, With, Is
<1>4. \A st, s, i : Plain(With(Go(st, s), i))
  BY DEF Go, With, Plain
<1> QED
  BY <1>1, <1>2, <1>3, <1>4

LEMMA Asks ==
  /\ \A st, s : Is(Ask(st, s), st, s, "same", "same") /\ Asking(Ask(st, s))
  /\ \A st, s, i : Is(With(Ask(st, s), i), st, s, "same", i) /\ Asking(With(Ask(st, s), i))
<1>1. \A st, s : Is(Ask(st, s), st, s, "same", "same")
  BY DEF Go, Ask, Is
<1>2. \A st, s : Asking(Ask(st, s))
  BY DEF Go, Ask, Asking
<1>3. \A st, s, i : Is(With(Ask(st, s), i), st, s, "same", i)
  BY DEF Go, Ask, With, Is
<1>4. \A st, s, i : Asking(With(Ask(st, s), i))
  BY DEF Go, Ask, With, Asking
<1> QED
  BY <1>1, <1>2, <1>3, <1>4

LEMMA EndsAndRaises ==
  /\ \A s, r : Is(End(s, r), "idle", s, r, "same") /\ Plain(End(s, r))
  /\ \A s : Is(Raise(s), "idle", s, "same", "same") /\ Plain(Raise(s))
<1>1. \A s, r : Is(End(s, r), "idle", s, r, "same")
  BY DEF Go, End, Is
<1>2. \A s, r : Plain(End(s, r))
  BY DEF Go, End, Plain
<1> QED
  BY <1>1, <1>2, Goes DEF Raise

LEMMA Linked ==
  /\ \A s, r : LET out == [End(s, r) EXCEPT !.links = TRUE]
               IN  Is(out, "idle", s, r, "same") /\ ~out.asks /\ out.links
  /\ Is(Wait, "idle", "needs_approval", "waiting_approval", "same") /\ ~Wait.asks /\ Wait.links
  /\ Is(AskAndWait, "idle", "needs_approval", "waiting_approval", "same")
  /\ AskAndWait.asks /\ AskAndWait.links
<1>1. \A s, r : Is([End(s, r) EXCEPT !.links = TRUE], "idle", s, r, "same")
  BY DEF Go, End, Is
<1>2. \A s, r : ~[End(s, r) EXCEPT !.links = TRUE].asks
  BY DEF Go, End
<1>3. \A s, r : [End(s, r) EXCEPT !.links = TRUE].links
  BY DEF Go, End
<1>4. Is(AskAndWait, "idle", "needs_approval", "waiting_approval", "same")
  BY DEF AskAndWait, Wait, Go, End, Is
<1>5. AskAndWait.asks
  BY DEF AskAndWait, Wait, Go, End
<1>6. AskAndWait.links
  BY DEF AskAndWait, Wait, Go, End
<1> QED
  BY <1>1, <1>2, <1>3, <1>4, <1>5, <1>6 DEF Wait

\* The run goes on at one of the stages S.
Proceeds(out, S) == out.to \in S /\ out.run = "same" /\ ~out.links

\* The run ends, and the task gets a status that agrees.
EndsRun(out) ==
  /\ out.to = "idle" /\ out.inner = "same" /\ ~out.asks
  /\ \/ out.run = "completed" /\ out.task \in {"completed", "planned", "reviewed",
                                               "cancelled", "needs_approval"}
     \/ out.run = "blocked" /\ out.task = "blocked"
     \/ out.run = "failed" /\ out.task \in {"failed", "blocked"}

\* The run waits for an approval that is linked to the task.
Waits(out) ==
  /\ out.to = "idle" /\ out.inner = "same" /\ out.links
  /\ out.run = "waiting_approval" /\ out.task = "needs_approval"

\* The workflow raises: its run stays as it is.
Raises(out) ==
  /\ out.to = "idle" /\ out.inner = "same" /\ ~out.asks /\ ~out.links
  /\ out.run = "same" /\ out.task \in {"same", "assigned"}

Asked == {"gate", "proposed", "under_review"}

\* The outcomes of a call at an early stage of a workflow ...
FitsEarly(kind, stage, out) ==
  /\ out.task \in TaskStatus \cup {"same"}
  /\ \/ Proceeds(out, Early(kind))
     \/ EndsRun(out)
     \/ Waits(out) /\ kind \in Gated /\ (out.asks \/ stage = "gate")
     \/ Raises(out) /\ kind = "document"
  /\ out.to \in Asked => out.asks \/ stage \in Asked
  /\ out.inner # "same" => kind \in {"skill_missing", "tool_call"}
  /\ kind = "skill_missing" =>
       /\ out.to \in {"search", "compose"} => out.inner = "same" /\ stage \in {"begin", "search"}
       /\ out.to = "gate" <=> out.inner = "waiting"
       /\ out.inner = "waiting" => out.asks /\ stage = "compose"
       /\ Waits(out) => ~out.asks
  /\ out.inner \in {"same", "waiting"}
  /\ out.inner = "waiting" => out.asks

\* ... and at a late one, which never waits again and ends badly after a refusal.
FitsLate(kind, stage, out) ==
  /\ out.task \in TaskStatus \cup {"same"}
  /\ \/ Proceeds(out, Late(kind))
     \/ EndsRun(out)
     \/ Raises(out) /\ kind = "document"
  /\ out.to \in Asked => out.asks \/ stage \in Asked
  /\ out.inner # "same" => kind = "tool_call" /\ stage = "adapter" /\ out.inner = "done"
  /\ kind = "skill_missing" => out.to \notin {"search", "compose", "gate"}
  /\ out.to # "adapter"
  /\ stage \in Refusals =>
       out.to \in Refusals \/ (EndsRun(out) /\ out.task \notin {"completed", "needs_approval"})

\* What a document workflow does to the status of its task.
FitsDocument(stage, out) ==
  /\ out.to # "idle" => StatusAt[out.to] = Keep(StatusAt[stage], out.task)
  /\ Raises(out) => Keep(StatusAt[stage], out.task) \in {"created", "assigned", "executing"}
  /\ Raises(out) /\ stage \in Late("document") =>
       Keep(StatusAt[stage], out.task) = "executing"

LEMMA KindSets ==
  /\ Early("document") = {"plan", "assign", "write", "risk", "quality"}
  /\ Early("planning") = {"understand", "decompose", "risk"}
  /\ Early("collaboration") = {"coordinate", "handoff", "audit"}
  /\ Early("skill_missing") = {"search", "compose", "gate"} \cup Tails
  /\ Early("agent_missing") = {"detect", "plan", "risk"} \cup Tails
  /\ Early("approval") = {"prepare", "risk", "gate", "audit_allowed", "audit_blocked"}
  /\ Early("quality") = {"check", "risk_passed", "risk_failed", "audit_passed", "audit_failed"}
  /\ Early("retrospective") = {"review", "memory", "audit"}
  /\ Early("github") = {"gate"}
  /\ Early("tool_call") = {"prepare", "risk", "gate", "audit_completed",
                              "audit_failed", "audit_blocked"}
  /\ Late("document") = {"write", "risk", "quality"}
  /\ Late("skill_missing") = {"continue"} \cup Tails
  /\ Late("approval") = {"audit_approved", "audit_rejected", "audit_blocked"}
  /\ Late("github") = {"analyze", "risk", "propose", "curate", "sandbox", "register"}
  /\ Late("tool_call") = {"adapter", "audit_completed", "audit_failed",
                              "audit_rejected", "audit_blocked"}
  /\ \A kind \in AllKinds \ Gated : Late(kind) = {}
BY DEF Early, Late, AllKinds, Gated

LEMMA StageSets ==
  ASSUME NEW kind \in AllKinds
  PROVE  Early(kind) \subseteq Stages /\ Late(kind) \subseteq Stages
BY DEF Stages

\* The outcomes of one kind are read off its table, then fitted.
Finishes(out) ==
  \/ Is(out, "idle", "completed", "completed", "same") /\ Plain(out)
  \/ Is(out, "idle", "blocked", "blocked", "same") /\ Plain(out)
  \/ Is(out, "idle", "failed", "failed", "same") /\ Plain(out)

LEMMA FinishesIs == Finishes(Done) /\ Finishes(Blocked) /\ Finishes(Failed)
BY EndsAndRaises DEF Finishes, Done, Blocked, Failed

LEMMA NotIdle == \A to \in Stages : to # "idle"
<1> SUFFICES ASSUME NEW kind \in AllKinds PROVE "idle" \notin Early(kind) \cup Late(kind)
  BY DEF Stages
<1> QED
  BY KindSets DEF AllKinds, Gated, Tails

LEMMA EndFits ==
  ASSUME NEW kind \in AllKinds, NEW stage, NEW out, EndsRun(out), out.task \in TaskStatus
  PROVE  /\ FitsEarly(kind, stage, out)
         /\ (stage \in Refusals => out.task \notin {"completed", "needs_approval"})
              => FitsLate(kind, stage, out)
         /\ FitsDocument(stage, out)
<1>1. ~Waits(out) /\ ~Raises(out) /\ out.to = "idle" /\ out.inner = "same"
  BY DEF EndsRun, Waits, Raises
<1> QED
  BY <1>1 DEF FitsEarly, FitsLate, FitsDocument, Asked

LEMMA FinishFits ==
  ASSUME NEW kind \in AllKinds, NEW stage, NEW out, Finishes(out)
  PROVE  /\ FitsEarly(kind, stage, out)
         /\ (stage \in Refusals /\ out.task = "completed") \/ FitsLate(kind, stage, out)
         /\ FitsDocument(stage, out)
<1>1. EndsRun(out)
  BY DEF Finishes, EndsRun, Is, Plain
<1>2. out.task \in TaskStatus /\ out.task # "needs_approval"
  BY DEF Finishes, Is, TaskStatus
<1> QED
  BY <1>1, <1>2, EndFits

LEMMA MoveFits ==
  ASSUME NEW kind \in AllKinds, NEW stage, NEW out, NEW to \in Stages,
         NEW s \in TaskStatus \cup {"same"}, Is(out, to, s, "same", "same"),
         Plain(out) \/ Asking(out), to \in Asked => Asking(out) \/ stage \in Asked,
         kind = "skill_missing" =>
           to # "gate" /\ (to \in {"search", "compose"} => stage \in {"begin", "search"})
  PROVE  /\ to \in Early(kind) => FitsEarly(kind, stage, out)
         /\ to \in Late(kind) /\ (stage \in Refusals => to \in Refusals)
              /\ (kind = "skill_missing" => to \notin {"search", "compose"}) /\ to # "adapter"
                => FitsLate(kind, stage, out)
<1>1. out.to = to /\ out.to # "idle" /\ out.inner = "same" /\ out.run = "same" /\ out.task = s
  BY NotIdle DEF Is
<1>2. ~out.links /\ (Asking(out) => out.asks)
  BY DEF Plain, Asking
<1>3. ~Waits(out) /\ ~Raises(out) /\ ~EndsRun(out)
  BY <1>1 DEF Waits, Raises, EndsRun
<1>4. ASSUME to \in Early(kind) PROVE Proceeds(out, Early(kind))
  BY <1>1, <1>2, <1>4 DEF Proceeds
<1>5. ASSUME to \in Late(kind) PROVE Proceeds(out, Late(kind))
  BY <1>1, <1>2, <1>5 DEF Proceeds
<1>6. out.to \in Asked => out.asks \/ stage \in Asked
  BY <1>1, <1>2
<1> HIDE DEF Stages, TaskStatus
<1>7. to \in Early(kind) => FitsEarly(kind, stage, out)
  BY <1>1, <1>3, <1>4, <1>6 DEF FitsEarly
<1>8. to \in Late(kind) /\ (stage \in Refusals => to \in Refusals)
              /\ (kind = "skill_missing" => to \notin {"search", "compose"}) /\ to # "adapter"
                => FitsLate(kind, stage, out)
  BY <1>1, <1>3, <1>5, <1>6 DEF FitsLate
<1> QED
  BY <1>7, <1>8

LEMMA WaitFits ==
  ASSUME NEW kind \in Gated, NEW stage
  PROVE  /\ kind # "skill_missing" => FitsEarly(kind, stage, AskAndWait)
         /\ FitsDocument(stage, AskAndWait)
         /\ FitsEarly(kind, "gate", Wait)
<1>1. Waits(AskAndWait) /\ Waits(Wait)
  BY Linked DEF Waits, Is
<1>2. /\ AskAndWait.to = "idle" /\ AskAndWait.inner = "same" /\ AskAndWait.task \in TaskStatus
      /\ Wait.to = "idle" /\ Wait.inner = "same" /\ Wait.task \in TaskStatus
  BY Linked DEF Is, TaskStatus
<1>3. ~Raises(AskAndWait)
  BY <1>1 DEF Waits, Raises
<1>4. kind # "skill_missing" => FitsEarly(kind, stage, AskAndWait)
  BY <1>1, <1>2, Linked DEF FitsEarly, Asked
<1>5. FitsDocument(stage, AskAndWait)
  BY <1>2, <1>3 DEF FitsDocument
<1>6. FitsEarly(kind, "gate", Wait)
  BY <1>1, <1>2, Linked DEF FitsEarly, Asked
<1> QED
  BY <1>4, <1>5, <1>6

LEMMA EarlyDocument ==
  ASSUME NEW stage \in Early("document"), NEW out \in Document[stage]
  PROVE  FitsEarly("document", stage, out) /\ FitsDocument(stage, out)
<1>1. /\ {"plan", "assign", "write", "risk", "quality"} \subseteq Stages
      /\ "document" \in Gated /\ "document" \in AllKinds
      /\ {"planned", "executing", "quality_checking"} \subseteq TaskStatus
  BY KindSets, StageSets DEF AllKinds, Gated, TaskStatus
<1>2. \/ stage = "plan" /\ Is(out, "assign", "planned", "same", "same") /\ Plain(out)
      \/ stage = "assign" /\ Is(out, "write", "executing", "same", "same") /\ Plain(out)
      \/ stage = "write" /\ Is(out, "risk", "same", "same", "same") /\ Plain(out)
      \/ stage = "risk" /\ Is(out, "quality", "quality_checking", "same", "same") /\ Plain(out)
      \/ stage = "assign" /\ out = AskAndWait
      \/ stage = "assign" /\ Is(out, "idle", "assigned", "same", "same") /\ Plain(out)
      \/ stage = "write" /\ Is(out, "idle", "same", "same", "same") /\ Plain(out)
      \/ Is(out, "idle", "blocked", "failed", "same") /\ Plain(out)
      \/ Finishes(out)
  BY KindSets, Goes, EndsAndRaises, FinishesIs DEF Document
<1>3. ASSUME NEW to \in {"assign", "write", "risk", "quality"},
             NEW s \in {"same", "planned", "executing", "quality_checking"},
             Is(out, to, s, "same", "same"), Plain(out), StatusAt[to] = Keep(StatusAt[stage], s)
      PROVE  FitsEarly("document", stage, out) /\ FitsDocument(stage, out)
  <2>1. FitsEarly("document", stage, out)
    BY <1>1, <1>3, MoveFits, KindSets DEF Asked
  <2>2. out.to # "idle" /\ StatusAt[out.to] = Keep(StatusAt[stage], out.task)
    BY <1>1, <1>3, NotIdle DEF Is
  <2> QED
    BY <2>1, <2>2 DEF FitsDocument, Raises
<1>4. ASSUME NEW s \in {"same", "assigned"}, Is(out, "idle", s, "same", "same"), Plain(out),
             s = "same" => stage = "write", s = "assigned" => stage = "assign"
      PROVE  FitsEarly("document", stage, out) /\ FitsDocument(stage, out)
  <2>1. /\ Raises(out) /\ out.to = "idle" /\ out.inner = "same"
        /\ out.task = s /\ s \in TaskStatus \cup {"same"}
    BY <1>4 DEF Raises, Is, Plain, TaskStatus
  <2>2. FitsEarly("document", stage, out)
    BY <2>1 DEF FitsEarly, Asked
  <2>3. FitsDocument(stage, out)
    BY <2>1, <1>4, KindSets DEF FitsDocument, Keep, StatusAt
  <2> QED
    BY <2>2, <2>3
<1>5. ASSUME Is(out, "idle", "blocked", "failed", "same"), Plain(out)
      PROVE  FitsEarly("document", stage, out) /\ FitsDocument(stage, out)
  <2>1. EndsRun(out) /\ out.task \in TaskStatus
    BY <1>5 DEF EndsRun, Is, Plain, TaskStatus
  <2> QED
    BY <2>1, <1>1, EndFits
<1>6. /\ StatusAt["assign"] = Keep(StatusAt["plan"], "planned")
      /\ StatusAt["write"] = Keep(StatusAt["assign"], "executing")
      /\ StatusAt["risk"] = Keep(StatusAt["write"], "same")
      /\ StatusAt["quality"] = Keep(StatusAt["risk"], "quality_checking")
  BY DEF StatusAt, Keep
<1> QED
  BY <1>1, <1>2, <1>3, <1>4, <1>5, <1>6, WaitFits, FinishFits

LEMMA EarlyPlanning ==
  ASSUME NEW stage \in Early("planning"), NEW out \in Planning[stage]
  PROVE  FitsEarly("planning", stage, out)
<1>1. /\ "planning" \in AllKinds
      /\ {"decompose", "risk"} \subseteq Stages
      /\ {"decompose", "risk"} \subseteq Early("planning")
  BY KindSets, StageSets DEF AllKinds
<1>2. \/ stage = "understand" /\ Is(out, "decompose", "same", "same", "same") /\ Plain(out)
      \/ stage = "decompose" /\ Is(out, "risk", "same", "same", "same") /\ Plain(out)
      \/ Is(out, "idle", "planned", "completed", "same") /\ Plain(out)
      \/ Finishes(out)
  BY KindSets, Goes, EndsAndRaises, FinishesIs DEF Planning
<1>3. ASSUME NEW to \in {"decompose", "risk"}, NEW s \in {"same"},
             Is(out, to, s, "same", "same"), Plain(out)
      PROVE  FitsEarly("planning", stage, out)
  BY <1>1, <1>3, MoveFits DEF Asked, TaskStatus
<1>4. ASSUME NEW s \in {"planned"}, Is(out, "idle", s, "completed", "same"), Plain(out)
      PROVE  FitsEarly("planning", stage, out)
  <2>1. EndsRun(out) /\ out.task \in TaskStatus
    BY <1>4 DEF EndsRun, Is, Plain, TaskStatus
  <2> QED
    BY <2>1, <1>1, EndFits
<1> QED
  BY <1>1, <1>2, <1>3, <1>4, FinishFits

LEMMA EarlyCollaboration ==
  ASSUME NEW stage \in Early("collaboration"), NEW out \in Collaboration[stage]
  PROVE  FitsEarly("collaboration", stage, out)
<1>1. /\ "collaboration" \in AllKinds
      /\ {"audit", "handoff"} \subseteq Stages
      /\ {"audit", "handoff"} \subseteq Early("collaboration")
  BY KindSets, StageSets DEF AllKinds
<1>2. \/ stage = "coordinate" /\ Is(out, "handoff", "same", "same", "same") /\ Plain(out)
      \/ stage = "handoff" /\ Is(out, "audit", "same", "same", "same") /\ Plain(out)
      \/ Finishes(out)
  BY KindSets, Goes, EndsAndRaises, FinishesIs DEF Collaboration
<1>3. ASSUME NEW to \in {"audit", "handoff"}, NEW s \in {"same"},
             Is(out, to, s, "same", "same"), Plain(out)
      PROVE  FitsEarly("collaboration", stage, out)
  BY <1>1, <1>3, MoveFits DEF Asked, TaskStatus
<1> QED
  BY <1>1, <1>2, <1>3, FinishFits

LEMMA EarlyQuality ==
  ASSUME NEW stage \in Early("quality"), NEW out \in Quality[stage]
  PROVE  FitsEarly("quality", stage, out)
<1>1. /\ "quality" \in AllKinds
      /\ {"audit_failed", "audit_passed", "risk_failed", "risk_passed"} \subseteq Stages
      /\ {"audit_failed", "audit_passed", "risk_failed", "risk_passed"} \subseteq Early("quality")
  BY KindSets, StageSets DEF AllKinds
<1>2. \/ stage = "check" /\ Is(out, "risk_passed", "same", "same", "same") /\ Plain(out)
      \/ stage = "check" /\ Is(out, "risk_failed", "same", "same", "same") /\ Plain(out)
      \/ stage = "risk_passed" /\ Is(out, "audit_passed", "same", "same", "same") /\ Plain(out)
      \/ stage = "risk_failed" /\ Is(out, "audit_failed", "same", "same", "same") /\ Plain(out)
      \/ Finishes(out)
  BY KindSets, Goes, EndsAndRaises, FinishesIs DEF Quality
<1>3. ASSUME NEW to \in {"audit_failed", "audit_passed", "risk_failed", "risk_passed"}, NEW s \in {"same"},
             Is(out, to, s, "same", "same"), Plain(out)
      PROVE  FitsEarly("quality", stage, out)
  BY <1>1, <1>3, MoveFits DEF Asked, TaskStatus
<1> QED
  BY <1>1, <1>2, <1>3, FinishFits

LEMMA EarlyRetrospective ==
  ASSUME NEW stage \in Early("retrospective"), NEW out \in Retrospective[stage]
  PROVE  FitsEarly("retrospective", stage, out)
<1>1. /\ "retrospective" \in AllKinds
      /\ {"audit", "memory"} \subseteq Stages
      /\ {"audit", "memory"} \subseteq Early("retrospective")
  BY KindSets, StageSets DEF AllKinds
<1>2. \/ stage = "review" /\ Is(out, "memory", "same", "same", "same") /\ Plain(out)
      \/ stage = "memory" /\ Is(out, "audit", "same", "same", "same") /\ Plain(out)
      \/ Is(out, "idle", "reviewed", "completed", "same") /\ Plain(out)
      \/ Finishes(out)
  BY KindSets, Goes, EndsAndRaises, FinishesIs DEF Retrospective
<1>3. ASSUME NEW to \in {"audit", "memory"}, NEW s \in {"same"},
             Is(out, to, s, "same", "same"), Plain(out)
      PROVE  FitsEarly("retrospective", stage, out)
  BY <1>1, <1>3, MoveFits DEF Asked, TaskStatus
<1>4. ASSUME NEW s \in {"reviewed"}, Is(out, "idle", s, "completed", "same"), Plain(out)
      PROVE  FitsEarly("retrospective", stage, out)
  <2>1. EndsRun(out) /\ out.task \in TaskStatus
    BY <1>4 DEF EndsRun, Is, Plain, TaskStatus
  <2> QED
    BY <2>1, <1>1, EndFits
<1> QED
  BY <1>1, <1>2, <1>3, <1>4, FinishFits

\* Creating a proposal and what follows, in the workflows that do.
Proposing == {"skill_missing", "agent_missing"}

LEMMA ProposingSets ==
  ASSUME NEW kind \in Proposing
  PROVE  /\ kind \in AllKinds /\ Tails \subseteq Early(kind) /\ Tails \subseteq Stages
         /\ kind = "skill_missing" => Tails \subseteq Late(kind)
BY KindSets, StageSets DEF Proposing, AllKinds

LEMMA ProposeOuts ==
  ASSUME NEW s, NEW out \in Propose(s)
  PROVE  \/ Is(out, "proposed", s, "same", "same") /\ Asking(out)
         \/ Is(out, "free", s, "same", "same") /\ Plain(out)
         \/ Is(out, "refused", s, "same", "same") /\ Plain(out)
BY Goes, Asks DEF Propose

LEMMA ProposeFits ==
  ASSUME NEW kind \in Proposing, NEW stage, NEW s \in TaskStatus \cup {"same"},
         NEW out \in Propose(s)
  PROVE  /\ FitsEarly(kind, stage, out)
         /\ kind = "skill_missing" /\ stage \notin Refusals => FitsLate(kind, stage, out)
<1>1. {"proposed", "free", "refused"} \subseteq Tails
  BY DEF Tails
<1>2. ASSUME NEW to \in {"proposed", "free", "refused"}, Is(out, to, s, "same", "same"),
             Plain(out) \/ Asking(out), to = "proposed" => Asking(out)
      PROVE  /\ FitsEarly(kind, stage, out)
             /\ kind = "skill_missing" /\ stage \notin Refusals => FitsLate(kind, stage, out)
  BY <1>1, <1>2, ProposingSets, MoveFits DEF Asked
<1> QED
  BY <1>2, ProposeOuts

LEMMA TailOutcomes ==
  ASSUME NEW kind, NEW v, NEW i
  PROVE  /\ Outcomes(kind, "proposed", v, i) = Proposed(v)
         /\ Outcomes(kind, "under_review", v, i) = UnderReview(v)
         /\ Outcomes(kind, "free", v, i) = {Done}
         /\ Outcomes(kind, "refused", v, i) = {Blocked}
         /\ Outcomes(kind, "gate", v, i) = Gate(kind, v, i)
BY DEF Outcomes

LEMMA TailFits ==
  ASSUME NEW kind \in Proposing, NEW stage \in Tails, NEW v, NEW i,
         NEW out \in Outcomes(kind, stage, v, i)
  PROVE  FitsEarly(kind, stage, out) /\ (kind = "skill_missing" => FitsLate(kind, stage, out))
<1> USE ProposingSets
<1>1. CASE stage = "proposed"
  <2>1. out \in {Go("refused", "same"), Go("free", "same"), Go("under_review", "same")}
    BY <1>1, TailOutcomes DEF Proposed
  <2>2. ASSUME NEW to \in {"refused", "free", "under_review"}, out = Go(to, "same")
        PROVE  FitsEarly(kind, stage, out) /\ (kind = "skill_missing" => FitsLate(kind, stage, out))
    <3>1. to \in Tails /\ Is(out, to, "same", "same", "same") /\ Plain(out)
      BY <2>2, Goes DEF Tails
    <3> QED
      BY <1>1, <2>2, <3>1, MoveFits DEF Asked, Refusals
  <2> QED
    BY <2>1, <2>2
<1>2. CASE stage = "under_review"
  <2> DEFINE ok == [End("needs_approval", "completed") EXCEPT !.links = TRUE]
  <2>1. out \in {ok, Blocked, Done}
    BY <1>2, TailOutcomes DEF UnderReview
  <2>2. EndsRun(ok) /\ ok.task \in TaskStatus
    BY Linked DEF EndsRun, Is, TaskStatus
  <2> HIDE DEF ok
  <2> QED
    BY <1>2, <2>1, <2>2, EndFits, FinishFits, FinishesIs DEF Refusals
<1>3. CASE stage = "free"
  BY <1>3, TailOutcomes, FinishFits, FinishesIs DEF Refusals
<1>4. CASE stage = "refused"
  <2>1. out = Blocked /\ Blocked.task # "completed"
    BY <1>4, TailOutcomes, EndsAndRaises DEF Blocked, Is
  <2> QED
    BY <2>1, FinishFits, FinishesIs
<1> QED
  BY <1>1, <1>2, <1>3, <1>4 DEF Tails

LEMMA FlowOutcomes ==
  ASSUME NEW kind, NEW stage, NEW v, NEW i, stage \notin Tails, stage # "gate"
  PROVE  Outcomes(kind, stage, v, i) = Flow[kind][stage]
<1>1. stage \notin {"proposed", "under_review", "free", "refused", "gate"}
  BY DEF Tails
<1> QED
  BY <1>1 DEF Outcomes

LEMMA FlowOf ==
  /\ Flow["document"] = Document /\ Flow["planning"] = Planning
  /\ Flow["collaboration"] = Collaboration /\ Flow["skill_missing"] = SkillMissing
  /\ Flow["agent_missing"] = AgentMissing /\ Flow["approval"] = Approval
  /\ Flow["quality"] = Quality /\ Flow["retrospective"] = Retrospective
  /\ Flow["github"] = Github /\ Flow["tool_call"] = ToolCall
BY DEF Flow

\* A Skill or Tool Run waits for the approval that is asked for.
LEMMA InnerWaitFits ==
  ASSUME NEW kind \in {"skill_missing", "tool_call"}, NEW stage,
         kind = "skill_missing" => stage = "compose"
  PROVE  FitsEarly(kind, stage, With(Ask("gate", "same"), "waiting"))
<1> DEFINE out == With(Ask("gate", "same"), "waiting")
<1>1. /\ out.to = "gate" /\ out.inner = "waiting" /\ out.run = "same" /\ out.task = "same"
      /\ out.asks /\ ~out.links
  BY Asks DEF Is, Asking
<1> HIDE DEF out
<1>2. Proceeds(out, Early(kind)) /\ ~Waits(out)
  BY <1>1, KindSets DEF Proceeds, Waits
<1>3. FitsEarly(kind, stage, out)
  BY <1>1, <1>2 DEF FitsEarly
<1> QED
  BY <1>3 DEF out

LEMMA EarlySkillMissing ==
  ASSUME NEW stage \in Early("skill_missing"), NEW v, NEW i,
         NEW out \in Outcomes("skill_missing", stage, v, i)
  PROVE  FitsEarly("skill_missing", stage, out)
<1>1. /\ "skill_missing" \in AllKinds \cap Proposing \cap Gated
      /\ {"search", "compose"} \subseteq Early("skill_missing") \cap Stages
      /\ stage \in {"search", "compose", "gate"} \cup Tails
  BY KindSets, StageSets DEF AllKinds, Proposing, Gated
<1>2. CASE stage \in Tails
  BY <1>1, <1>2, TailFits
<1>3. CASE stage = "search"
  <2>0. stage \notin Tails /\ stage # "gate"
    BY <1>3 DEF Tails
  <2>1. out \in SkillMissing["search"]
    BY <1>3, <2>0, FlowOutcomes, FlowOf
  <2>2. out \in {Done, Go("compose", "same"), Blocked}
    BY <2>1 DEF SkillMissing
  <2>3. out = Go("compose", "same") => FitsEarly("skill_missing", stage, out)
    BY <1>1, <1>3, Goes, MoveFits DEF Asked
  <2> QED
    BY <1>1, <2>2, <2>3, FinishFits, FinishesIs
<1>4. CASE stage = "compose"
  <2>0. stage \notin Tails /\ stage # "gate"
    BY <1>4 DEF Tails
  <2>1. out \in SkillMissing["compose"]
    BY <1>4, <2>0, FlowOutcomes, FlowOf
  <2>2. out \in {Done, Blocked, With(Ask("gate", "same"), "waiting")} \cup Propose("same")
    BY <2>1 DEF SkillMissing
  <2> QED
    BY <1>1, <1>4, <2>2, FinishFits, FinishesIs, ProposeFits, InnerWaitFits
<1>5. CASE stage = "gate"
  <2>1. out \in Propose("same") \cup {Blocked, Wait}
    BY <1>5, TailOutcomes DEF Gate
  <2> QED
    BY <1>1, <1>5, <2>1, FinishFits, FinishesIs, ProposeFits, WaitFits
<1> QED
  BY <1>1, <1>2, <1>3, <1>4, <1>5

LEMMA EarlyAgentMissing ==
  ASSUME NEW stage \in Early("agent_missing"), NEW v, NEW i,
         NEW out \in Outcomes("agent_missing", stage, v, i)
  PROVE  FitsEarly("agent_missing", stage, out)
<1>1. /\ "agent_missing" \in AllKinds \cap Proposing
      /\ {"plan", "risk"} \subseteq Early("agent_missing") \cap Stages
      /\ stage \in {"detect", "plan", "risk"} \cup Tails
  BY KindSets, StageSets DEF AllKinds, Proposing
<1>2. CASE stage \in Tails
  BY <1>1, <1>2, TailFits
<1>3. CASE stage \in {"detect", "plan", "risk"}
  <2>0. stage \notin Tails /\ stage # "gate"
    BY <1>3 DEF Tails
  <2>1. out \in AgentMissing[stage]
    BY <1>3, <2>0, FlowOutcomes, FlowOf
  <2>2. \/ out \in {Done, Go("plan", "same"), Go("risk", "same"), Blocked}
        \/ out \in Propose("same")
    BY <1>3, <2>1 DEF AgentMissing
  <2>3. ASSUME NEW to \in {"plan", "risk"}, out = Go(to, "same")
        PROVE  FitsEarly("agent_missing", stage, out)
    BY <1>1, <2>3, Goes, MoveFits DEF Asked
  <2> QED
    BY <1>1, <2>2, <2>3, FinishFits, FinishesIs, ProposeFits
<1> QED
  BY <1>1, <1>2, <1>3

LEMMA EarlyApproval ==
  ASSUME NEW stage \in Early("approval"), NEW v, NEW i,
         NEW out \in Outcomes("approval", stage, v, i)
  PROVE  FitsEarly("approval", stage, out)
<1>1. /\ "approval" \in AllKinds \cap Gated
      /\ {"risk", "gate", "audit_allowed", "audit_blocked"} \subseteq Early("approval") \cap Stages
      /\ stage \in {"prepare", "risk", "gate", "audit_allowed", "audit_blocked"}
  BY KindSets, StageSets DEF AllKinds, Gated
<1>2. CASE stage = "gate"
  <2>1. out = Wait
    BY <1>2, TailOutcomes DEF Gate
  <2> QED
    BY <1>1, <1>2, <2>1, WaitFits
<1>3. CASE stage # "gate"
  <2>0. stage \notin Tails /\ stage # "gate"
    BY <1>1, <1>3 DEF Tails
  <2>1. out \in Approval[stage]
    BY <1>1, <1>3, <2>0, FlowOutcomes, FlowOf
  <2>2. out \in {Go("risk", "same"), Go("audit_allowed", "same"), Go("audit_blocked", "same"),
                 Ask("gate", "same"), Done, Blocked}
    BY <1>1, <1>3, <2>1 DEF Approval
  <2>3. ASSUME NEW to \in {"risk", "audit_allowed", "audit_blocked"}, out = Go(to, "same")
        PROVE  FitsEarly("approval", stage, out)
    BY <1>1, <2>3, Goes, MoveFits DEF Asked
  <2>4. ASSUME out = Ask("gate", "same") PROVE FitsEarly("approval", stage, out)
    BY <1>1, <2>4, Asks, MoveFits
  <2> QED
    BY <1>1, <2>2, <2>3, <2>4, FinishFits, FinishesIs
<1> QED
  BY <1>2, <1>3

LEMMA EarlyGithub ==
  ASSUME NEW stage \in Early("github"), NEW v, NEW i,
         NEW out \in Outcomes("github", stage, v, i)
  PROVE  FitsEarly("github", stage, out)
<1>1. "github" \in AllKinds \cap Gated /\ stage = "gate"
  BY KindSets DEF AllKinds, Gated
<1>2. out \in {Wait, Blocked}
  BY <1>1, TailOutcomes DEF Gate
<1> QED
  BY <1>1, <1>2, WaitFits, FinishFits, FinishesIs

LEMMA AuditOuts ==
  ASSUME NEW out \in Audits
  PROVE  \E to \in {"audit_completed", "audit_failed", "audit_blocked"} : out = Go(to, "same")
BY DEF Audits

LEMMA EarlyToolCall ==
  ASSUME NEW stage \in Early("tool_call"), NEW v, NEW i,
         NEW out \in Outcomes("tool_call", stage, v, i)
  PROVE  FitsEarly("tool_call", stage, out)
<1>1. /\ "tool_call" \in AllKinds \cap Gated
      /\ {"risk", "audit_completed", "audit_failed", "audit_blocked"}
           \subseteq Early("tool_call") \cap Stages
      /\ stage \in {"prepare", "risk", "gate", "audit_completed", "audit_failed", "audit_blocked"}
  BY KindSets, StageSets DEF AllKinds, Gated
<1>2. ASSUME NEW to \in {"risk", "audit_completed", "audit_failed", "audit_blocked"},
             out = Go(to, "same")
      PROVE  FitsEarly("tool_call", stage, out)
  BY <1>1, <1>2, Goes, MoveFits DEF Asked
<1>3. CASE stage = "gate"
  <2>1. out \in Audits \cup {Wait}
    BY <1>3, TailOutcomes DEF Gate
  <2> QED
    BY <1>1, <1>2, <1>3, <2>1, AuditOuts, WaitFits
<1>4. CASE stage # "gate"
  <2>0. stage \notin Tails /\ stage # "gate"
    BY <1>1, <1>4 DEF Tails
  <2>1. out \in ToolCall[stage]
    BY <1>1, <1>4, <2>0, FlowOutcomes, FlowOf
  <2>2. \/ out \in {Go("risk", "same"), Done, Blocked, Failed, With(Ask("gate", "same"), "waiting")}
        \/ out \in Audits
    BY <1>1, <1>4, <2>1 DEF ToolCall
  <2> QED
    BY <1>1, <1>2, <2>2, AuditOuts, InnerWaitFits, FinishFits, FinishesIs
<1> QED
  BY <1>3, <1>4

-----------------------------------------------------------------------------
(* The late stages                                                         *)

LEMMA LateDocument ==
  ASSUME NEW stage \in Late("document"), NEW out \in Document[stage]
  PROVE  FitsLate("document", stage, out)
<1>1. /\ "document" \in AllKinds /\ {"risk", "quality"} \subseteq Late("document") \cap Stages
      /\ stage \in {"write", "risk", "quality"}
  BY KindSets, StageSets DEF AllKinds
<1>2. \/ Is(out, "risk", "same", "same", "same") /\ Plain(out)
      \/ Is(out, "quality", "quality_checking", "same", "same") /\ Plain(out)
      \/ Is(out, "idle", "same", "same", "same") /\ Plain(out)
      \/ Is(out, "idle", "blocked", "failed", "same") /\ Plain(out)
      \/ Finishes(out)
  BY <1>1, Goes, EndsAndRaises, FinishesIs DEF Document
<1>3. ASSUME NEW to \in {"risk", "quality"}, NEW s \in {"same", "quality_checking"},
             Is(out, to, s, "same", "same"), Plain(out)
      PROVE  FitsLate("document", stage, out)
  BY <1>1, <1>3, MoveFits DEF Asked, TaskStatus, Refusals
<1>4. ASSUME Is(out, "idle", "same", "same", "same"), Plain(out)
      PROVE  FitsLate("document", stage, out)
  <2>1. Raises(out) /\ out.to = "idle" /\ out.inner = "same" /\ out.task = "same"
    BY <1>4 DEF Raises, Is, Plain
  <2> QED
    BY <1>1, <2>1 DEF FitsLate, Asked, Refusals
<1>5. ASSUME Is(out, "idle", "blocked", "failed", "same"), Plain(out)
      PROVE  FitsLate("document", stage, out)
  <2>1. EndsRun(out) /\ out.task \in TaskStatus /\ out.task = "blocked"
    BY <1>5 DEF EndsRun, Is, Plain, TaskStatus
  <2> QED
    BY <2>1, <1>1, EndFits
<1>6. stage \notin Refusals
  BY <1>1 DEF Refusals
<1> QED
  BY <1>1, <1>2, <1>3, <1>4, <1>5, <1>6, FinishFits

LEMMA LateSkillMissing ==
  ASSUME NEW stage \in Late("skill_missing"), NEW v, NEW i,
         NEW out \in Outcomes("skill_missing", stage, v, i)
  PROVE  FitsLate("skill_missing", stage, out)
<1>1. "skill_missing" \in Proposing /\ stage \in {"continue"} \cup Tails
  BY KindSets DEF Proposing
<1>2. CASE stage \in Tails
  BY <1>1, <1>2, TailFits
<1>3. CASE stage = "continue"
  <2>1. stage \notin Tails /\ stage # "gate" /\ stage \notin Refusals
    BY <1>3 DEF Tails, Refusals
  <2>2. out \in SkillMissing["continue"]
    BY <1>3, <2>1, FlowOutcomes, FlowOf
  <2>3. out \in Propose("waiting_skill")
    BY <2>2 DEF SkillMissing
  <2> QED
    BY <1>1, <2>1, <2>3, ProposeFits DEF TaskStatus
<1> QED
  BY <1>1, <1>2, <1>3

LEMMA LateApproval ==
  ASSUME NEW stage \in Late("approval"), NEW v, NEW i,
         NEW out \in Outcomes("approval", stage, v, i)
  PROVE  FitsLate("approval", stage, out)
<1>1. "approval" \in AllKinds /\ stage \in {"audit_approved", "audit_rejected", "audit_blocked"}
  BY KindSets DEF AllKinds
<1>2. stage \notin Tails /\ stage # "gate"
  BY <1>1 DEF Tails
<1>3. out \in Approval[stage]
  BY <1>2, FlowOutcomes, FlowOf
<1>4. \/ stage = "audit_approved" /\ out \in {Done, Blocked}
      \/ out = Blocked
      \/ out = End("cancelled", "completed")
  BY <1>1, <1>3 DEF Approval
<1>5. ASSUME out = End("cancelled", "completed") PROVE FitsLate("approval", stage, out)
  <2>1. EndsRun(out) /\ out.task \in TaskStatus /\ out.task = "cancelled"
    BY <1>5, EndsAndRaises DEF EndsRun, Is, Plain, TaskStatus
  <2> QED
    BY <2>1, <1>1, EndFits
<1>6. Blocked.task = "blocked" /\ "audit_approved" \notin Refusals
  BY EndsAndRaises DEF Blocked, Is, Refusals
<1> QED
  BY <1>1, <1>4, <1>5, <1>6, FinishFits, FinishesIs

LEMMA LateGithub ==
  ASSUME NEW stage \in Late("github"), NEW v, NEW i,
         NEW out \in Outcomes("github", stage, v, i)
  PROVE  FitsLate("github", stage, out)
<1>1. /\ "github" \in AllKinds
      /\ stage \in {"analyze", "risk", "propose", "curate", "sandbox", "register"}
      /\ {"risk", "propose", "curate", "sandbox", "register"} \subseteq Late("github") \cap Stages
  BY KindSets, StageSets DEF AllKinds
<1>2. stage \notin Tails /\ stage # "gate" /\ stage \notin Refusals
  BY <1>1 DEF Tails, Refusals
<1>3. out \in Github[stage]
  BY <1>2, FlowOutcomes, FlowOf
<1>4. out \in {Go("risk", "same"), Go("propose", "same"), Go("curate", "same"),
               Go("sandbox", "same"), Go("register", "same"), Done, Blocked}
  BY <1>1, <1>3 DEF Github
<1>5. ASSUME NEW to \in {"risk", "propose", "curate", "sandbox", "register"}, out = Go(to, "same")
      PROVE  FitsLate("github", stage, out)
  BY <1>1, <1>2, <1>5, Goes, MoveFits DEF Asked
<1> QED
  BY <1>1, <1>2, <1>4, <1>5, FinishFits, FinishesIs

LEMMA LateToolCall ==
  ASSUME NEW stage \in Late("tool_call"), NEW v, NEW i,
         NEW out \in Outcomes("tool_call", stage, v, i)
  PROVE  FitsLate("tool_call", stage, out)
<1>1. /\ "tool_call" \in AllKinds
      /\ stage \in {"adapter", "audit_completed", "audit_failed", "audit_rejected", "audit_blocked"}
      /\ {"audit_completed", "audit_failed", "audit_blocked"} \subseteq Late("tool_call") \cap Stages
  BY KindSets, StageSets DEF AllKinds
<1>2. stage \notin Tails /\ stage # "gate"
  BY <1>1 DEF Tails
<1>3. out \in ToolCall[stage]
  BY <1>2, FlowOutcomes, FlowOf
<1>4. CASE stage = "adapter"
  <2>1. PICK to \in {"audit_completed", "audit_failed", "audit_blocked"} :
          out = With(Go(to, "same"), "done")
    BY <1>3, <1>4 DEF ToolCall, Audits
  <2>2. /\ out.to = to /\ out.inner = "done" /\ out.run = "same" /\ out.task = "same"
        /\ ~out.asks /\ ~out.links
    BY <2>1, Goes DEF Is, Plain
  <2>3. Proceeds(out, Late("tool_call"))
    BY <1>1, <2>2 DEF Proceeds
  <2> QED
    BY <1>4, <2>2, <2>3 DEF FitsLate, Asked, Refusals
<1>5. CASE stage # "adapter"
  <2>1. \/ stage \notin Refusals /\ out \in {Done, Failed}
        \/ out = Blocked
        \/ out = End("cancelled", "completed")
    BY <1>1, <1>3, <1>5 DEF ToolCall, Refusals
  <2>2. ASSUME out = End("cancelled", "completed") PROVE FitsLate("tool_call", stage, out)
    <3>1. EndsRun(out) /\ out.task \in TaskStatus /\ out.task = "cancelled"
      BY <2>2, EndsAndRaises DEF EndsRun, Is, Plain, TaskStatus
    <3> QED
      BY <3>1, <1>1, EndFits
  <2>3. Blocked.task = "blocked"
    BY EndsAndRaises DEF Blocked, Is
  <2> QED
    BY <1>1, <2>1, <2>2, <2>3, FinishFits, FinishesIs
<1> QED
  BY <1>4, <1>5

-----------------------------------------------------------------------------
(* All workflows together                                                  *)

Tabled == {"document", "planning", "collaboration", "quality", "retrospective"}

LEMMA TabledStages ==
  ASSUME NEW kind \in Tabled, NEW stage \in Early(kind)
  PROVE  stage \notin Tails /\ stage # "gate"
BY KindSets DEF Tabled, Tails

LEMMA EarlyFits ==
  ASSUME NEW kind \in AllKinds, NEW stage \in Early(kind), NEW v, NEW i,
         NEW out \in Outcomes(kind, stage, v, i)
  PROVE  FitsEarly(kind, stage, out) /\ (kind = "document" => FitsDocument(stage, out))
<1>1. CASE kind \in Tabled
  <2>1. out \in Flow[kind][stage]
    BY <1>1, TabledStages, FlowOutcomes
  <2>2. CASE kind = "document"
    BY <2>1, <2>2, FlowOf, EarlyDocument
  <2>3. CASE kind = "planning"
    BY <2>1, <2>3, FlowOf, EarlyPlanning
  <2>4. CASE kind = "collaboration"
    BY <2>1, <2>4, FlowOf, EarlyCollaboration
  <2>5. CASE kind = "quality"
    BY <2>1, <2>5, FlowOf, EarlyQuality
  <2>6. CASE kind = "retrospective"
    BY <2>1, <2>6, FlowOf, EarlyRetrospective
  <2> QED
    BY <1>1, <2>2, <2>3, <2>4, <2>5, <2>6 DEF Tabled
<1>2. CASE kind \notin Tabled
  <2>1. kind \in {"skill_missing", "agent_missing", "approval", "github", "tool_call"}
    BY <1>2 DEF AllKinds, Tabled
  <2> QED
    BY <2>1, EarlySkillMissing, EarlyAgentMissing, EarlyApproval, EarlyGithub, EarlyToolCall
<1> QED
  BY <1>1, <1>2

LEMMA LateFits ==
  ASSUME NEW kind \in AllKinds, NEW stage \in Late(kind), NEW v, NEW i,
         NEW out \in Outcomes(kind, stage, v, i)
  PROVE  FitsLate(kind, stage, out) /\ (kind = "document" => FitsDocument(stage, out))
<1>1. kind \in Gated
  BY KindSets
<1>2. CASE kind = "document"
  <2>1. stage \in Early("document")
    BY <1>2, KindSets
  <2>2. out \in Document[stage]
    BY <1>2, <2>1, TabledStages, FlowOutcomes, FlowOf DEF Tabled
  <2> QED
    BY <1>2, <2>1, <2>2, LateDocument, EarlyDocument
<1> QED
  BY <1>1, <1>2, LateSkillMissing, LateApproval, LateGithub, LateToolCall DEF Gated

\* What the request that starts a run does first.
FitsBegin(kind, out) ==
  /\ FitsEarly(kind, "begin", out)
  /\ ~Waits(out) /\ out.inner = "same"
  /\ kind = "document" => /\ out.to # "idle" => out.to = "plan" /\ out.task = "same"
                          /\ Raises(out) => out.task = "same"

LEMMA BeginMoves ==
  ASSUME NEW kind \in AllKinds, kind # "document", NEW to \in Early(kind) \ Asked,
         kind = "skill_missing" => to \in {"search", "compose"},
         NEW s \in TaskStatus \cup {"same"}
  PROVE  FitsBegin(kind, Go(to, s))
<1>1. to \in Stages /\ Is(Go(to, s), to, s, "same", "same") /\ Plain(Go(to, s))
  BY StageSets, Goes
<1>2. FitsEarly(kind, "begin", Go(to, s))
  BY <1>1, MoveFits DEF Asked
<1>3. ~Waits(Go(to, s)) /\ Go(to, s).inner = "same"
  BY <1>1 DEF Waits, Plain, Is
<1> QED
  BY <1>2, <1>3 DEF FitsBegin

LEMMA BeginBlocked ==
  ASSUME NEW kind \in AllKinds
  PROVE  FitsBegin(kind, Blocked)
<1>1. Is(Blocked, "idle", "blocked", "blocked", "same")
  BY EndsAndRaises DEF Blocked
<1>2. ~Waits(Blocked) /\ ~Raises(Blocked) /\ Blocked.to = "idle" /\ Blocked.inner = "same"
  BY <1>1 DEF Is, Waits, Raises
<1> QED
  BY <1>2, FinishFits, FinishesIs DEF FitsBegin

LEMMA BeginFits ==
  ASSUME NEW kind \in AllKinds, NEW out \in Flow[kind]["begin"]
  PROVE  FitsBegin(kind, out)
<1> USE BeginBlocked
<1>1. CASE kind = "document"
  <2>1. out \in {Go("plan", "same"), Blocked, Raise("same")}
    BY <1>1, FlowOf DEF Document
  <2>2. ASSUME out = Go("plan", "same") PROVE FitsBegin(kind, out)
    <3>1. Is(out, "plan", "same", "same", "same") /\ Plain(out) /\ "plan" \in Early(kind) \cap Stages
      BY <1>1, <2>2, Goes, KindSets, StageSets
    <3>2. FitsEarly(kind, "begin", out)
      BY <1>1, <3>1, MoveFits DEF Asked
    <3>3. ~Waits(out) /\ out.to = "plan" /\ out.task = "same" /\ ~Raises(out) /\ out.inner = "same"
      BY <3>1 DEF Is, Waits, Raises
    <3> QED
      BY <3>2, <3>3 DEF FitsBegin
  <2>3. ASSUME out = Raise("same") PROVE FitsBegin(kind, out)
    <3>1. Is(out, "idle", "same", "same", "same") /\ Plain(out)
      BY <2>3, EndsAndRaises
    <3>2. Raises(out) /\ ~Waits(out) /\ out.to = "idle" /\ out.inner = "same" /\ out.task = "same"
      BY <3>1 DEF Is, Plain, Raises, Waits
    <3> QED
      BY <1>1, <3>2 DEF FitsBegin, FitsEarly, Asked
  <2> QED
    BY <2>1, <2>2, <2>3
<1>2. CASE kind = "github"
  <2>1. out \in {Ask("gate", "same"), Blocked}
    BY <1>2, FlowOf DEF Github
  <2>2. ASSUME out = Ask("gate", "same") PROVE FitsBegin(kind, out)
    <3>1. /\ Is(out, "gate", "same", "same", "same") /\ Asking(out)
          /\ "gate" \in Early(kind) \cap Stages
      BY <1>2, <2>2, Asks, KindSets, StageSets
    <3>2. FitsEarly(kind, "begin", out)
      BY <1>2, <3>1, MoveFits
    <3>3. ~Waits(out) /\ out.inner = "same"
      BY <3>1 DEF Is, Waits, Asking
    <3> QED
      BY <1>2, <3>2, <3>3 DEF FitsBegin
  <2> QED
    BY <2>1, <2>2
<1>3. CASE kind \notin {"document", "github"}
  <2>1. \/ kind = "planning" /\ out \in {Go("understand", "same"), Blocked}
        \/ kind = "collaboration" /\ out \in {Go("coordinate", "in_progress"), Blocked}
        \/ kind = "skill_missing" /\ out \in {Go("search", "waiting_skill"), Blocked}
        \/ kind = "agent_missing" /\ out \in {Go("detect", "waiting_agent"), Blocked}
        \/ kind = "approval" /\ out \in {Go("prepare", "in_progress"), Blocked}
        \/ kind = "quality" /\ out \in {Go("check", "quality_checking"), Blocked}
        \/ kind = "retrospective" /\ out \in {Go("review", "in_progress"), Blocked}
        \/ kind = "tool_call" /\ out \in {Go("prepare", "waiting_tool"), Blocked}
    BY <1>3, FlowOf DEF AllKinds, Planning, Collaboration, SkillMissing, AgentMissing, Approval,
       Quality, Retrospective, ToolCall
  <2>2. ASSUME NEW to, NEW s \in {"same", "in_progress", "waiting_skill", "waiting_agent",
                                 "quality_checking", "waiting_tool"},
               out = Go(to, s), to \in Early(kind), to \notin Asked,
               kind = "skill_missing" => to = "search"
        PROVE  FitsBegin(kind, out)
    BY <1>3, <2>2, BeginMoves DEF TaskStatus
  <2> QED
    BY <2>1, <2>2, KindSets DEF Asked
<1> QED
  BY <1>1, <1>2, <1>3

-----------------------------------------------------------------------------
(* Resuming                                                                *)

LEMMA Smallest ==
  ASSUME NEW T, T \subseteq Nat, T # {}
  PROVE  \E x \in T : \A y \in T : x <= y
<1> DEFINE R == OpToRel(<, Nat)
<1>1. \A x, y \in Nat : y < x => <<y, x>> \in R
  BY DEF OpToRel
<1>2. IsWellFoundedOn(R, Nat)
  BY NatLessThanWellFounded
<1> HIDE DEF R
<1>3. PICK x \in T : \A y \in T : ~(<<y, x>> \in R)
  BY <1>2, WFMin
<1>4. \A y \in T : ~(y < x)
  BY <1>1, <1>3, Zenon
<1> QED
  BY <1>4

LEMMA Largest ==
  ASSUME NEW n \in Nat, NEW S, S \subseteq 0 .. n, S # {}
  PROVE  \E x \in S : \A y \in S : y <= x
<1> DEFINE T == {m \in Nat : \E x \in S : m = n - x}
<1>1. \A x \in S : x \in Nat /\ x <= n
  OBVIOUS
<1>2. \A x \in S : n - x \in T
  BY <1>1
<1>3. T \subseteq Nat
  OBVIOUS
<1>4. T # {}
  BY <1>2
<1>5. PICK m \in T : \A y \in T : m <= y
  <2> HIDE DEF T
  <2> QED
    BY <1>3, <1>4, Smallest
<1>6. PICK x \in S : m = n - x
  BY <1>5
<1>7. ASSUME NEW y \in S PROVE y <= x
  <2>1. m <= n - y
    BY <1>2, <1>5
  <2> QED
    BY <1>1, <1>6, <2>1
<1> QED
  BY <1>7

DocumentRuns(k) == {i \in DOMAIN runs[k] : runs[k][i].kind = "document"}

LEMMA ResumableFacts ==
  ASSUME TypeInv, NEW k \in Tasks, Resumable(k) # 0
  PROVE  /\ Resumable(k) \in DOMAIN runs[k]
         /\ runs[k][Resumable(k)].kind \in Gated
<1> DEFINE last == Len(runs[k])
<1>1. runs[k] \in Seq(RunRecords) /\ last \in Nat /\ DOMAIN runs[k] = 1 .. last
  BY DEF TypeInv
<1>2. CASE last # 0 /\ runs[k][last].kind \in {"skill_missing", "approval", "github", "tool_call"}
  <2>1. Resumable(k) = last
    BY <1>2 DEF Resumable
  <2> QED
    BY <1>1, <1>2, <2>1 DEF Gated
<1>3. CASE ~(last # 0 /\ runs[k][last].kind \in {"skill_missing", "approval", "github", "tool_call"})
  <2>1. Resumable(k) = IF DocumentRuns(k) = {} THEN 0
                       ELSE CHOOSE i \in DocumentRuns(k) : \A j \in DocumentRuns(k) : j <= i
    BY <1>3 DEF Resumable, DocumentRuns
  <2>2. DocumentRuns(k) # {} /\ DocumentRuns(k) \subseteq 0 .. last
    BY <1>1, <2>1 DEF DocumentRuns
  <2>3. \E i \in DocumentRuns(k) : \A j \in DocumentRuns(k) : j <= i
    BY <1>1, <2>2, Largest
  <2>4. Resumable(k) \in DocumentRuns(k)
    BY <2>1, <2>2, <2>3
  <2> QED
    BY <2>4 DEF DocumentRuns, Gated
<1> QED
  BY <1>2, <1>3

\* What allows a resumed run to go on.
Allows(kind, k) ==
  IF kind = "skill_missing"
  THEN \/ inner[k].status = "done"
       \/ inner[k].status = "waiting" /\ approvals[k][inner[k].approval] = "approved"
  ELSE approvals[k][task[k].approval]
         \in (IF kind = "approval" THEN {"approved", "modified"} ELSE {"approved"})

\* The first thing a resumed run does.
FitsResume(kind, k, out) ==
  /\ out.task \in TaskStatus \cup {"same"}
  /\ \/ Proceeds(out, Late(kind))
     \/ EndsRun(out) /\ out.task \notin {"completed", "needs_approval"}
  /\ out.to \in Asked => out.asks
  /\ out.inner \in {"same", "done", "refused"}
  /\ out.inner # "same" => kind \in {"skill_missing", "tool_call"} /\ inner[k].status = "waiting"
  /\ out.inner = "done" => approvals[k][inner[k].approval] = "approved"
  /\ kind = "document" => out.to = "write" /\ out.task = "executing"
  /\ kind = "skill_missing" => out.to \notin {"search", "compose", "gate"}
  /\ out.to = "adapter" => inner[k].status = "waiting"
  /\ out.to \notin Refusals \cup {"idle"} => Allows(kind, k)

LEMMA ResumeMoves ==
  ASSUME NEW kind \in AllKinds, NEW k, NEW out, NEW to \in Late(kind) \ (Asked \cup {"search", "compose"}),
         NEW s \in TaskStatus \cup {"same"}, NEW i \in {"same", "done", "refused"},
         Is(out, to, s, "same", i), Plain(out),
         i # "same" => kind \in {"skill_missing", "tool_call"} /\ inner[k].status = "waiting",
         i = "done" => approvals[k][inner[k].approval] = "approved",
         kind = "document" => to = "write" /\ s = "executing",
         to = "adapter" => inner[k].status = "waiting",
         to \notin Refusals => Allows(kind, k)
  PROVE  FitsResume(kind, k, out)
<1>1. to \in Stages /\ to # "idle"
  BY StageSets, NotIdle
<1>2. out.to = to /\ out.inner = i /\ out.run = "same" /\ out.task = s /\ ~out.links
  BY DEF Is, Plain
<1>3. Proceeds(out, Late(kind))
  BY <1>2 DEF Proceeds
<1>4. to \notin Asked /\ to \notin {"search", "compose", "gate"}
  BY DEF Asked
<1> QED
  BY <1>1, <1>2, <1>3, <1>4 DEF FitsResume

LEMMA ResumeEnds ==
  ASSUME NEW kind \in AllKinds, kind # "document", NEW k, NEW out,
         out = Blocked \/ out = End("cancelled", "completed")
  PROVE  FitsResume(kind, k, out)
<1>1. \/ Is(out, "idle", "blocked", "blocked", "same") /\ Plain(out)
      \/ Is(out, "idle", "cancelled", "completed", "same") /\ Plain(out)
  BY EndsAndRaises DEF Blocked
<1>2. EndsRun(out) /\ out.to = "idle" /\ out.inner = "same" /\ out.task \in {"blocked", "cancelled"}
  BY <1>1 DEF EndsRun, Is, Plain
<1> QED
  BY <1>2 DEF FitsResume, Asked, TaskStatus

LEMMA ResumeShape ==
  ASSUME NEW k, NEW out \in ResumeOutcomes(k)
  PROVE  /\ task[k].status = "needs_approval" /\ task[k].approval # 0
         /\ Resumable(k) # 0 /\ runs[k][Resumable(k)].status = "waiting_approval"
         /\ LET kind == runs[k][Resumable(k)].kind
                v == approvals[k][task[k].approval] IN
            kind \in Gated =>
              \/ kind = "document" /\ out \in ResumeDocument(v)
              \/ kind = "skill_missing" /\ out \in ResumeSkillMissing(k)
              \/ kind = "approval" /\ out \in ResumeApproval(v)
              \/ kind = "github" /\ out \in ResumeGithub(v)
              \/ kind = "tool_call" /\ out \in ResumeToolCall(k, v)
<1>1. ~(\/ task[k].status # "needs_approval" \/ task[k].approval = 0
        \/ Resumable(k) = 0 \/ runs[k][Resumable(k)].status # "waiting_approval")
  BY DEF ResumeOutcomes
<1> QED
  BY <1>1 DEF ResumeOutcomes, Gated

LEMMA ResumeDocumentFits ==
  ASSUME NEW k, NEW out \in ResumeDocument(approvals[k][task[k].approval])
  PROVE  FitsResume("document", k, out)
<1>1. out = Go("write", "executing") /\ approvals[k][task[k].approval] = "approved"
  BY DEF ResumeDocument
<1>2. /\ "write" \in Late("document") /\ "document" \in AllKinds
      /\ "write" \notin Asked \cup {"search", "compose"} /\ "executing" \in TaskStatus
  BY KindSets DEF AllKinds, Asked, TaskStatus
<1>3. Allows("document", k)
  BY <1>1 DEF Allows
<1> QED
  BY <1>1, <1>2, <1>3, Goes, ResumeMoves

LEMMA ResumeSkillMissingFits ==
  ASSUME NEW k, NEW out \in ResumeSkillMissing(k)
  PROVE  FitsResume("skill_missing", k, out)
<1>1. \/ /\ inner[k].status = "waiting" /\ approvals[k][inner[k].approval] = "approved"
         /\ out \in {With(Go("continue", "same"), "done"), With(Go("refused", "same"), "refused")}
      \/ inner[k].status = "done" /\ out \in Propose("waiting_skill")
  BY DEF ResumeSkillMissing
<1>2. /\ {"continue", "free", "refused"} \subseteq Late("skill_missing") \ (Asked \cup {"search", "compose"})
      /\ "skill_missing" \in AllKinds /\ "waiting_skill" \in TaskStatus
  BY KindSets DEF AllKinds, Asked, Tails, TaskStatus
<1>3. Allows("skill_missing", k)
  BY <1>1 DEF Allows
<1>4. CASE out = With(Go("continue", "same"), "done") /\ inner[k].status = "waiting"
           /\ approvals[k][inner[k].approval] = "approved"
  BY <1>2, <1>3, <1>4, Goes, ResumeMoves
<1>5. CASE out = With(Go("refused", "same"), "refused") /\ inner[k].status = "waiting"
  BY <1>2, <1>3, <1>5, Goes, ResumeMoves
<1>6. CASE out \in Propose("waiting_skill")
  <2>1. CASE Is(out, "proposed", "waiting_skill", "same", "same") /\ Asking(out)
    <3>1. /\ out.to = "proposed" /\ out.inner = "same" /\ out.run = "same" /\ out.asks /\ ~out.links
          /\ out.task = "waiting_skill"
      BY <2>1 DEF Is, Asking
    <3>2. Proceeds(out, Late("skill_missing"))
      BY <3>1, KindSets DEF Proceeds, Tails
    <3> QED
      BY <1>2, <1>3, <3>1, <3>2 DEF FitsResume
  <2>2. CASE Is(out, "free", "waiting_skill", "same", "same") /\ Plain(out)
    BY <1>2, <1>3, <2>2, ResumeMoves
  <2>3. CASE Is(out, "refused", "waiting_skill", "same", "same") /\ Plain(out)
    BY <1>2, <1>3, <2>3, ResumeMoves
  <2> QED
    BY <1>6, <2>1, <2>2, <2>3, ProposeOuts
<1> QED
  BY <1>1, <1>4, <1>5, <1>6

LEMMA ResumeApprovalFits ==
  ASSUME NEW k, NEW out \in ResumeApproval(approvals[k][task[k].approval])
  PROVE  FitsResume("approval", k, out)
<1> DEFINE v == approvals[k][task[k].approval]
<1>1. \/ v \in {"approved", "modified"} /\ out \in {Go("audit_approved", "same"), Blocked}
      \/ out \in {Go("audit_rejected", "same"), Go("audit_blocked", "same"), Blocked}
  BY DEF ResumeApproval
<1>2. /\ {"audit_approved", "audit_rejected", "audit_blocked"}
           \subseteq Late("approval") \ (Asked \cup {"search", "compose"})
      /\ "approval" \in AllKinds /\ {"audit_rejected", "audit_blocked"} \subseteq Refusals
  BY KindSets DEF AllKinds, Asked, Refusals
<1>3. v \in {"approved", "modified"} => Allows("approval", k)
  BY DEF Allows
<1>4. ASSUME NEW to \in {"audit_approved", "audit_rejected", "audit_blocked"}, out = Go(to, "same"),
             to = "audit_approved" => Allows("approval", k)
      PROVE  FitsResume("approval", k, out)
  BY <1>2, <1>4, Goes, ResumeMoves
<1> QED
  BY <1>1, <1>2, <1>3, <1>4, ResumeEnds

LEMMA ResumeGithubFits ==
  ASSUME NEW k, NEW out \in ResumeGithub(approvals[k][task[k].approval])
  PROVE  FitsResume("github", k, out)
<1> DEFINE v == approvals[k][task[k].approval]
<1>1. \/ v = "approved" /\ out = Go("analyze", "executing")
      \/ out \in {End("cancelled", "completed"), Blocked}
  BY DEF ResumeGithub
<1>2. /\ "analyze" \in Late("github") /\ "github" \in AllKinds
      /\ "analyze" \notin Asked \cup {"search", "compose"} /\ "executing" \in TaskStatus
  BY KindSets DEF AllKinds, Asked, TaskStatus
<1>3. v = "approved" => Allows("github", k)
  BY DEF Allows
<1>4. ASSUME v = "approved", out = Go("analyze", "executing") PROVE FitsResume("github", k, out)
  BY <1>2, <1>3, <1>4, Goes, ResumeMoves
<1> QED
  BY <1>1, <1>2, <1>4, ResumeEnds

LEMMA ResumeToolCallFits ==
  ASSUME NEW k, NEW out \in ResumeToolCall(k, approvals[k][task[k].approval])
  PROVE  FitsResume("tool_call", k, out)
<1> DEFINE v == approvals[k][task[k].approval]
<1>1. \/ v = "approved" /\ inner[k].status = "waiting" /\ out = Go("adapter", "executing")
      \/ out = Blocked
      \/ inner[k].status = "waiting" /\ out = With(Go("audit_rejected", "same"), "refused")
      \/ inner[k].status = "waiting" /\ out = With(Go("audit_blocked", "same"), "refused")
  BY DEF ResumeToolCall
<1>2. /\ {"adapter", "audit_rejected", "audit_blocked"}
           \subseteq Late("tool_call") \ (Asked \cup {"search", "compose"})
      /\ "tool_call" \in AllKinds /\ {"audit_rejected", "audit_blocked"} \subseteq Refusals
      /\ "executing" \in TaskStatus
  BY KindSets DEF AllKinds, Asked, Refusals, TaskStatus
<1>3. v = "approved" => Allows("tool_call", k)
  BY DEF Allows
<1>4. ASSUME v = "approved", inner[k].status = "waiting", out = Go("adapter", "executing")
      PROVE  FitsResume("tool_call", k, out)
  BY <1>2, <1>3, <1>4, Goes, ResumeMoves
<1>5. ASSUME NEW to \in {"audit_rejected", "audit_blocked"}, inner[k].status = "waiting",
             out = With(Go(to, "same"), "refused")
      PROVE  FitsResume("tool_call", k, out)
  BY <1>2, <1>5, Goes, ResumeMoves
<1> QED
  BY <1>1, <1>2, <1>4, <1>5, ResumeEnds

LEMMA ResumeFits ==
  ASSUME TypeInv, NEW k \in Tasks, NEW out \in ResumeOutcomes(k)
  PROVE  /\ Resumable(k) \in DOMAIN runs[k]
         /\ runs[k][Resumable(k)].status = "waiting_approval"
         /\ task[k].status = "needs_approval" /\ task[k].approval # 0
         /\ FitsResume(runs[k][Resumable(k)].kind, k, out)
<1>1. /\ task[k].status = "needs_approval" /\ task[k].approval # 0
      /\ Resumable(k) # 0 /\ runs[k][Resumable(k)].status = "waiting_approval"
  BY ResumeShape
<1>2. Resumable(k) \in DOMAIN runs[k] /\ runs[k][Resumable(k)].kind \in Gated
  BY <1>1, ResumableFacts
<1> QED
  BY <1>1, <1>2, ResumeShape, ResumeDocumentFits, ResumeSkillMissingFits, ResumeApprovalFits,
     ResumeGithubFits, ResumeToolCallFits

-----------------------------------------------------------------------------
(* What a step of a workflow changes                                       *)

LEMMA Typed ==
  ASSUME TypeInv, NEW k \in Tasks
  PROVE  /\ task[k] \in TaskRecords /\ inner[k] \in InnerRecords
         /\ runs[k] \in Seq(RunRecords) /\ Len(runs[k]) \in Nat
         /\ DOMAIN runs[k] = 1 .. Len(runs[k])
         /\ \A i \in DOMAIN runs[k] : runs[k][i] \in RunRecords
         /\ approvals[k] \in Seq(Final \cup Undecided) /\ Len(approvals[k]) \in Nat
         /\ DOMAIN approvals[k] = 1 .. Len(approvals[k])
         /\ \A a \in DOMAIN approvals[k] : approvals[k][a] \in Final \cup Undecided
BY DEF TypeInv

LEMMA ThreadShape ==
  ASSUME TypeInv, NEW t \in Threads
  PROVE  /\ th[t].pc = "call" => th[t] \in Calls
         /\ th[t].pc = "decided" => th[t] \in Decided
         /\ th[t].pc = "tool" => th[t] \in AtTool
         /\ th[t].pc \in {"idle", "call", "decided", "tool"}
BY DEF TypeInv, Idle, Calls, Decided, AtTool

NowAsked(k, a, out) == IF out.asks THEN Len(approvals[k]) + 1 ELSE a

LEMMA RunAfterFields ==
  ASSUME NEW r \in RunRecords, NEW out, NEW asked \in Nat,
         out.task \in TaskStatus \cup {"same"}, EndsRun(out) \/ Waits(out) \/ out.run = "same"
  PROVE  LET q == RunAfter(r, out, asked) IN
         /\ q \in RunRecords /\ q.kind = r.kind
         /\ EndsRun(out) => /\ q.status = out.run /\ q.gate = r.gate
                            /\ q.ends = r.ends + 1 /\ q.left = out.task
         /\ Waits(out) => /\ q.status = "waiting_approval" /\ q.gate = asked
                          /\ q.ends = r.ends /\ q.left = r.left
         /\ out.run = "same" => /\ q.status = r.status /\ q.gate = r.gate
                                /\ q.ends = r.ends /\ q.left = r.left
<1>1. CASE EndsRun(out)
  <2>1. Ends(out) /\ out.run # "same" /\ out.run # "waiting_approval" /\ out.run \in RunStatus
        /\ out.task \in TaskStatus
    BY <1>1 DEF EndsRun, Ends, RunStatus, TaskStatus
  <2>2. RunAfter(r, out, asked) = [r EXCEPT !.status = out.run, !.gate = r.gate,
                                            !.ends = r.ends + 1, !.left = out.task]
    BY <2>1 DEF RunAfter, Keep
  <2>3. ~Waits(out)
    BY <2>1 DEF Waits
  <2>4. LET q == RunAfter(r, out, asked) IN
        /\ q \in RunRecords /\ q.kind = r.kind /\ q.status = out.run /\ q.gate = r.gate
        /\ q.ends = r.ends + 1 /\ q.left = out.task
    <3> DEFINE g == r.gate
               n == r.ends + 1
               s == out.run
               l == out.task
    <3>1. g \in Nat /\ n \in Nat /\ s \in RunStatus /\ l \in TaskStatus
      BY <2>1 DEF RunRecords
    <3>2. RunAfter(r, out, asked) = [r EXCEPT !.status = s, !.gate = g, !.ends = n, !.left = l]
      BY <2>2
    <3> HIDE DEF g, n, s, l
    <3>3. LET q == RunAfter(r, out, asked) IN
          /\ q \in RunRecords
          /\ q.kind = r.kind /\ q.status = s /\ q.gate = g /\ q.ends = n /\ q.left = l
      BY <3>1, <3>2 DEF RunRecords
    <3> QED
      BY <3>3 DEF g, n, s, l
  <2> QED
    BY <2>1, <2>3, <2>4
<1>2. CASE Waits(out)
  <2>1. ~Ends(out) /\ out.run = "waiting_approval"
    BY <1>2 DEF Waits, Ends
  <2>2. RunAfter(r, out, asked) = [r EXCEPT !.status = "waiting_approval", !.gate = asked,
                                            !.ends = r.ends, !.left = r.left]
    BY <2>1 DEF RunAfter, Keep
  <2>3. ~EndsRun(out)
    BY <2>1 DEF EndsRun
  <2> QED
    BY <2>1, <2>2, <2>3 DEF RunRecords, RunStatus
<1>3. CASE out.run = "same"
  <2>1. ~Ends(out) /\ ~EndsRun(out) /\ ~Waits(out)
    BY <1>3 DEF Waits, Ends, EndsRun
  <2>2. RunAfter(r, out, asked) = [r EXCEPT !.status = r.status, !.gate = r.gate,
                                            !.ends = r.ends, !.left = r.left]
    BY <1>3, <2>1 DEF RunAfter, Keep
  <2> QED
    BY <1>3, <2>1, <2>2 DEF RunRecords
<1> QED
  BY <1>1, <1>2, <1>3

LEMMA TakesRuns ==
  ASSUME TypeInv, NEW t \in Threads, NEW k \in Tasks, NEW rs \in Seq(RunRecords),
         NEW i \in DOMAIN rs, NEW a \in Nat, NEW out, Takes(t, k, rs, i, a, out),
         out.task \in TaskStatus \cup {"same"}, EndsRun(out) \/ Waits(out) \/ out.run = "same"
  PROVE  /\ runs' \in [Tasks -> Seq(RunRecords)]
         /\ \A j \in Tasks : j # k => runs'[j] = runs[j]
         /\ Len(runs'[k]) = Len(rs) /\ DOMAIN runs'[k] = DOMAIN rs
         /\ \A j \in DOMAIN rs : j # i => runs'[k][j] = rs[j]
         /\ runs'[k][i] = RunAfter(rs[i], out, NowAsked(k, a, out))
<1> DEFINE asked == NowAsked(k, a, out)
           q == RunAfter(rs[i], out, asked)
<1>1. rs[i] \in RunRecords /\ asked \in Nat
  BY Typed DEF NowAsked
<1>2. q \in RunRecords
  <2> HIDE DEF asked
  <2> QED
    BY <1>1, RunAfterFields
<1>3. runs' = [runs EXCEPT ![k] = [rs EXCEPT ![i] = q]]
  BY DEF Takes, NowAsked
<1> HIDE DEF q
<1>4. /\ [rs EXCEPT ![i] = q] \in Seq(RunRecords)
      /\ Len([rs EXCEPT ![i] = q]) = Len(rs) /\ DOMAIN [rs EXCEPT ![i] = q] = DOMAIN rs
  BY <1>2
<1>5. runs \in [Tasks -> Seq(RunRecords)]
  BY DEF TypeInv
<1> QED
  BY <1>3, <1>4, <1>5 DEF q

LEMMA TakesApprovals ==
  ASSUME TypeInv, NEW t \in Threads, NEW k \in Tasks, NEW rs, NEW i, NEW a \in 0 .. Len(approvals[k]),
         NEW out, Takes(t, k, rs, i, a, out)
  PROVE  /\ approvals' \in [Tasks -> Seq(Final \cup Undecided)]
         /\ \A j \in Tasks : j # k => approvals'[j] = approvals[j]
         /\ Len(approvals[k]) <= Len(approvals'[k])
         /\ \A b \in DOMAIN approvals[k] :
              b \in DOMAIN approvals'[k] /\ approvals'[k][b] = approvals[k][b]
         /\ NowAsked(k, a, out) \in 0 .. Len(approvals'[k])
         /\ out.asks => NowAsked(k, a, out) # 0
         /\ ~out.asks => NowAsked(k, a, out) = a
<1>1. approvals \in [Tasks -> Seq(Final \cup Undecided)] /\ "pending" \in Undecided
  BY DEF TypeInv, Undecided
<1>2. approvals[k] \in Seq(Final \cup Undecided) /\ Len(approvals[k]) \in Nat
  BY <1>1
<1>3. CASE out.asks
  <2>1. approvals' = [approvals EXCEPT ![k] = Append(approvals[k], "pending")]
    BY <1>3 DEF Takes
  <2>2. NowAsked(k, a, out) = Len(approvals[k]) + 1
    BY <1>3 DEF NowAsked
  <2>3. /\ Append(approvals[k], "pending") \in Seq(Final \cup Undecided)
        /\ Len(Append(approvals[k], "pending")) = Len(approvals[k]) + 1
        /\ \A b \in DOMAIN approvals[k] : Append(approvals[k], "pending")[b] = approvals[k][b]
    BY <1>1, <1>2
  <2> QED
    BY <1>1, <1>2, <1>3, <2>1, <2>2, <2>3
<1>4. CASE ~out.asks
  <2>1. approvals' = [approvals EXCEPT ![k] = approvals[k]]
    BY <1>4 DEF Takes
  <2>2. NowAsked(k, a, out) = a
    BY <1>4 DEF NowAsked
  <2> QED
    BY <1>1, <1>2, <1>4, <2>1, <2>2
<1> QED
  BY <1>3, <1>4

LEMMA TakesTask ==
  ASSUME TypeInv, NEW t \in Threads, NEW k \in Tasks, NEW rs, NEW i, NEW a \in Nat,
         NEW out, Takes(t, k, rs, i, a, out),
         out.task \in TaskStatus \cup {"same"}, out.inner \in {"same", "waiting", "done", "refused"}
  PROVE  /\ task' \in [Tasks -> TaskRecords] /\ inner' \in [Tasks -> InnerRecords]
         /\ \A j \in Tasks : j # k => task'[j] = task[j] /\ inner'[j] = inner[j]
         /\ task'[k].status = Keep(task[k].status, out.task)
         /\ task'[k].approval = IF out.links THEN NowAsked(k, a, out) ELSE task[k].approval
         /\ inner'[k].status = Keep(inner[k].status, out.inner)
         /\ inner'[k].approval = IF out.inner = "waiting" THEN NowAsked(k, a, out)
                                 ELSE inner[k].approval
<1> DEFINE asked == NowAsked(k, a, out)
           tk == [status |-> Keep(task[k].status, out.task),
                  approval |-> IF out.links THEN asked ELSE task[k].approval]
           ik == [status |-> Keep(inner[k].status, out.inner),
                  approval |-> IF out.inner = "waiting" THEN asked ELSE inner[k].approval]
<1>1. asked \in Nat /\ task[k] \in TaskRecords /\ inner[k] \in InnerRecords
  BY Typed DEF NowAsked
<1>2. task \in [Tasks -> TaskRecords] /\ inner \in [Tasks -> InnerRecords]
  BY DEF TypeInv
<1>3. task' = [task EXCEPT ![k] = tk] /\ inner' = [inner EXCEPT ![k] = ik]
  BY DEF Takes, NowAsked
<1> HIDE DEF asked
<1>4. Keep(task[k].status, out.task) \in TaskStatus
  BY <1>1 DEF TaskRecords, Keep
<1>5. Keep(inner[k].status, out.inner) \in {"none", "waiting", "done", "refused"}
  BY <1>1 DEF InnerRecords, Keep
<1>6. tk \in TaskRecords
  BY <1>1, <1>4 DEF TaskRecords
<1>7. ik \in InnerRecords
  BY <1>1, <1>5 DEF InnerRecords
<1> QED
  BY <1>2, <1>3, <1>6, <1>7 DEF asked

LEMMA TakesThread ==
  ASSUME TypeInv, NEW t \in Threads, NEW k \in Tasks, NEW rs, NEW i \in Nat, NEW a \in Nat,
         NEW out, Takes(t, k, rs, i, a, out), out.to \in Stages \cup {"idle"}
  PROVE  /\ th' \in [Threads -> {Idle} \cup Calls \cup Decided \cup AtTool]
         /\ \A u \in Threads : u # t => th'[u] = th[u]
         /\ out.to = "idle" => th'[t] = Idle
         /\ out.to # "idle" =>
              /\ th'[t].pc = "call" /\ th'[t].task = k /\ th'[t].run = i /\ th'[t].at = out.to
              /\ th'[t].asked = NowAsked(k, a, out)
         /\ lock' \in Threads \cup {NoThread}
         /\ lock' = lock \/ (lock' = NoThread /\ lock = t /\ out.to = "idle")
<1> DEFINE asked == NowAsked(k, a, out)
           w == [pc |-> "call", task |-> k, run |-> i, at |-> out.to, asked |-> asked]
<1>1. asked \in Nat
  BY Typed DEF NowAsked
<1>2. th \in [Threads -> {Idle} \cup Calls \cup Decided \cup AtTool] /\ lock \in Threads \cup {NoThread}
  BY DEF TypeInv
<1>3. /\ th' = [th EXCEPT ![t] = IF out.to = "idle" THEN Idle ELSE w]
      /\ lock' = IF out.to = "idle" /\ lock = t THEN NoThread ELSE lock
  BY DEF Takes, NowAsked
<1> HIDE DEF asked
<1>4. out.to # "idle" => w \in Calls
  BY <1>1 DEF Calls
<1>5. th' \in [Threads -> {Idle} \cup Calls \cup Decided \cup AtTool]
  BY <1>2, <1>3, <1>4
<1>6. th'[t] = (IF out.to = "idle" THEN Idle ELSE w) /\ \A u \in Threads : u # t => th'[u] = th[u]
  BY <1>2, <1>3
<1> QED
  BY <1>2, <1>3, <1>5, <1>6 DEF asked

-----------------------------------------------------------------------------
(* A thread goes on with a run                                             *)

SkillReady(k, i, asked, out) ==
  /\ out.to = "gate" <=> out.inner = "waiting"
  /\ out.inner = "waiting" => runs[k][i].gate = 0
  /\ out.to \in {"search", "compose"} => out.inner = "same" /\ inner[k].status = "none"
  /\ out.inner = "done" => inner[k].approval # 0 /\ approvals[k][inner[k].approval] = "approved"
  /\ Waits(out) => inner[k].status # "none" /\ inner[k].approval = asked

DocumentReady(t, k, i, out) ==
  /\ \A u \in Threads : Works(u, k, i) => u = t
  /\ runs[k][i].status \in {"running", "waiting_approval"}
  /\ out.to # "idle" => Keep(task[k].status, out.task) = StatusAt[out.to]
  /\ Raises(out) => /\ Keep(task[k].status, out.task) \in {"created", "assigned", "executing"}
                    /\ runs[k][i].gate # 0 => Keep(task[k].status, out.task) = "executing"

\* Why thread t may go on with `out' on run i of task k.
Ready(t, k, i, a, out) ==
  LET r == runs[k][i]
      asked == NowAsked(k, a, out)
  IN
  /\ i \in DOMAIN runs[k] /\ a \in 0 .. Len(approvals[k])
  /\ out.task \in TaskStatus \cup {"same"} /\ out.inner \in {"same", "waiting", "done", "refused"}
  /\ \/ Proceeds(out, IF r.gate = 0 THEN Early(r.kind) ELSE Late(r.kind))
     \/ EndsRun(out)
     \/ Waits(out) /\ r.gate = 0 /\ r.kind \in Gated /\ asked # 0
     \/ Raises(out) /\ r.kind = "document"
  /\ out.to \in Asked => asked # 0
  /\ out.inner # "same" => r.kind \in {"skill_missing", "tool_call"}
  /\ out.inner = "waiting" => asked # 0
  /\ out.inner \in {"done", "refused"} \/ out.to = "adapter" => inner[k].status # "none"
  /\ r.kind = "skill_missing" => SkillReady(k, i, asked, out)
  /\ r.gate # 0 /\ out.to \notin Refusals \cup {"idle"} => Consented(k, i)
  /\ r.gate # 0 /\ EndsRun(out) /\ out.task \in {"completed", "needs_approval"} => Consented(k, i)
  /\ r.gate = 0 => /\ r.status = "running" /\ r.left = "none" /\ r.ends = 0
                   /\ \A u \in Threads : Works(u, k, i) => u = t
  /\ k \notin disturbed /\ r.kind = "document" => DocumentReady(t, k, i, out)
  /\ th[t].pc \in {"idle", "decided"} \/ Works(t, k, i)

\* ... and without calls of /resume.
ReadyOnce(t, k, i) ==
  /\ \A u \in Threads : Works(u, k, i) => u = t
  /\ runs[k][i].status \in {"running", "waiting_approval"}
  /\ runs[k][i].status = "waiting_approval" => lock = t

WorkStep(t, k, i, a, out) ==
  /\ Ready(t, k, i, a, out)
  /\ Takes(t, k, runs[k], i, a, out)
  /\ disturbed' = disturbed

LEMMA WorkOut ==
  ASSUME Inv, NEW t \in Threads, NEW k \in Tasks, NEW i, NEW a, NEW out, Ready(t, k, i, a, out)
  PROVE  /\ i \in DOMAIN runs[k] /\ i \in Nat /\ a \in 0 .. Len(approvals[k])
         /\ runs[k][i] \in RunRecords
         /\ out.task \in TaskStatus \cup {"same"} /\ out.inner \in {"same", "waiting", "done", "refused"}
         /\ EndsRun(out) \/ Waits(out) \/ out.run = "same"
         /\ out.to \in Stages \cup {"idle"}
<1>1. /\ i \in DOMAIN runs[k] /\ a \in 0 .. Len(approvals[k])
      /\ out.task \in TaskStatus \cup {"same"} /\ out.inner \in {"same", "waiting", "done", "refused"}
  BY DEF Ready
<1>2. runs[k][i] \in RunRecords /\ i \in Nat
  BY <1>1, Typed DEF Inv
<1>3. runs[k][i].kind \in AllKinds
  BY <1>2 DEF RunRecords
<1>4. Early(runs[k][i].kind) \subseteq Stages /\ Late(runs[k][i].kind) \subseteq Stages
  BY <1>3, StageSets
<1>5. \/ Proceeds(out, IF runs[k][i].gate = 0 THEN Early(runs[k][i].kind) ELSE Late(runs[k][i].kind))
      \/ EndsRun(out) \/ Waits(out) \/ Raises(out)
  BY DEF Ready
<1>6. out.to \in Stages \cup {"idle"} /\ (EndsRun(out) \/ Waits(out) \/ out.run = "same")
  BY <1>4, <1>5 DEF Proceeds, EndsRun, Waits, Raises
<1> QED
  BY <1>1, <1>2, <1>6

LEMMA WorkRuns ==
  ASSUME Inv, NEW t \in Threads, NEW k \in Tasks, NEW i, NEW a, NEW out, WorkStep(t, k, i, a, out)
  PROVE  /\ \A j \in Tasks : j # k => runs'[j] = runs[j]
         /\ Len(runs'[k]) = Len(runs[k]) /\ DOMAIN runs'[k] = DOMAIN runs[k]
         /\ \A j \in DOMAIN runs[k] : j # i => runs'[k][j] = runs[k][j]
         /\ LET r == runs[k][i]
                q == runs'[k][i] IN
            /\ q \in RunRecords /\ q.kind = r.kind
            /\ EndsRun(out) => /\ q.status = out.run /\ q.gate = r.gate
                               /\ q.ends = r.ends + 1 /\ q.left = out.task
            /\ Waits(out) => /\ q.status = "waiting_approval" /\ q.gate = NowAsked(k, a, out)
                             /\ q.ends = r.ends /\ q.left = r.left
            /\ out.run = "same" => /\ q.status = r.status /\ q.gate = r.gate
                                   /\ q.ends = r.ends /\ q.left = r.left
         /\ runs' \in [Tasks -> Seq(RunRecords)]
<1>1. Ready(t, k, i, a, out) /\ Takes(t, k, runs[k], i, a, out) /\ TypeInv
  BY DEF WorkStep, Inv
<1>2. runs[k] \in Seq(RunRecords) /\ a \in Nat /\ NowAsked(k, a, out) \in Nat
  BY <1>1, WorkOut, Typed DEF NowAsked
<1>3. /\ i \in DOMAIN runs[k] /\ runs[k][i] \in RunRecords
      /\ out.task \in TaskStatus \cup {"same"}
      /\ EndsRun(out) \/ Waits(out) \/ out.run = "same"
  BY <1>1, WorkOut
<1>4. /\ runs' \in [Tasks -> Seq(RunRecords)]
      /\ \A j \in Tasks : j # k => runs'[j] = runs[j]
      /\ Len(runs'[k]) = Len(runs[k]) /\ DOMAIN runs'[k] = DOMAIN runs[k]
      /\ \A j \in DOMAIN runs[k] : j # i => runs'[k][j] = runs[k][j]
      /\ runs'[k][i] = RunAfter(runs[k][i], out, NowAsked(k, a, out))
  BY <1>1, <1>2, <1>3, TakesRuns
<1> QED
  BY <1>2, <1>3, <1>4, RunAfterFields

LEMMA WorkRest ==
  ASSUME Inv, NEW t \in Threads, NEW k \in Tasks, NEW i, NEW a, NEW out, WorkStep(t, k, i, a, out)
  PROVE  /\ \A j \in Tasks : j # k =>
              approvals'[j] = approvals[j] /\ task'[j] = task[j] /\ inner'[j] = inner[j]
         /\ Len(approvals[k]) <= Len(approvals'[k])
         /\ \A b \in DOMAIN approvals[k] :
              b \in DOMAIN approvals'[k] /\ approvals'[k][b] = approvals[k][b]
         /\ NowAsked(k, a, out) \in 0 .. Len(approvals'[k])
         /\ task'[k].status = Keep(task[k].status, out.task)
         /\ task'[k].approval = IF out.links THEN NowAsked(k, a, out) ELSE task[k].approval
         /\ inner'[k].status = Keep(inner[k].status, out.inner)
         /\ inner'[k].approval = IF out.inner = "waiting" THEN NowAsked(k, a, out)
                                 ELSE inner[k].approval
         /\ \A u \in Threads : u # t => th'[u] = th[u]
         /\ out.to = "idle" => th'[t] = Idle
         /\ out.to # "idle" =>
              /\ th'[t].pc = "call" /\ th'[t].task = k /\ th'[t].run = i /\ th'[t].at = out.to
              /\ th'[t].asked = NowAsked(k, a, out)
         /\ lock' = lock \/ (lock' = NoThread /\ lock = t /\ out.to = "idle")
         /\ resumed' \in BOOLEAN => TypeInv'
<1>1. Ready(t, k, i, a, out) /\ Takes(t, k, runs[k], i, a, out) /\ TypeInv /\ disturbed' = disturbed
  BY DEF WorkStep, Inv
<1>2. /\ a \in 0 .. Len(approvals[k]) /\ a \in Nat /\ i \in Nat
      /\ out.task \in TaskStatus \cup {"same"} /\ out.inner \in {"same", "waiting", "done", "refused"}
      /\ out.to \in Stages \cup {"idle"}
  BY <1>1, WorkOut, Typed
<1>3. /\ approvals' \in [Tasks -> Seq(Final \cup Undecided)]
      /\ \A j \in Tasks : j # k => approvals'[j] = approvals[j]
      /\ Len(approvals[k]) <= Len(approvals'[k])
      /\ \A b \in DOMAIN approvals[k] :
           b \in DOMAIN approvals'[k] /\ approvals'[k][b] = approvals[k][b]
      /\ NowAsked(k, a, out) \in 0 .. Len(approvals'[k])
  BY <1>1, <1>2, TakesApprovals
<1>4. /\ task' \in [Tasks -> TaskRecords] /\ inner' \in [Tasks -> InnerRecords]
      /\ \A j \in Tasks : j # k => task'[j] = task[j] /\ inner'[j] = inner[j]
      /\ task'[k].status = Keep(task[k].status, out.task)
      /\ task'[k].approval = IF out.links THEN NowAsked(k, a, out) ELSE task[k].approval
      /\ inner'[k].status = Keep(inner[k].status, out.inner)
      /\ inner'[k].approval = IF out.inner = "waiting" THEN NowAsked(k, a, out)
                              ELSE inner[k].approval
  BY <1>1, <1>2, TakesTask
<1>5. /\ th' \in [Threads -> {Idle} \cup Calls \cup Decided \cup AtTool]
      /\ \A u \in Threads : u # t => th'[u] = th[u]
      /\ out.to = "idle" => th'[t] = Idle
      /\ out.to # "idle" =>
           /\ th'[t].pc = "call" /\ th'[t].task = k /\ th'[t].run = i /\ th'[t].at = out.to
           /\ th'[t].asked = NowAsked(k, a, out)
      /\ lock' \in Threads \cup {NoThread}
      /\ lock' = lock \/ (lock' = NoThread /\ lock = t /\ out.to = "idle")
  BY <1>1, <1>2, TakesThread
<1>6. ASSUME resumed' \in BOOLEAN PROVE TypeInv'
  <2>1. runs' \in [Tasks -> Seq(RunRecords)]
    BY WorkRuns
  <2> QED
    BY <1>1, <1>3, <1>4, <1>5, <1>6, <2>1 DEF TypeInv
<1> QED
  BY <1>3, <1>4, <1>5, <1>6

\* Runs and approvals are added to; a final decision, the workflow of a run, the
\* approval it waited for and the Skill or Tool Run of its task stay.
Monotone(k) ==
  /\ \A b \in DOMAIN approvals[k] :
       /\ b \in DOMAIN approvals'[k]
       /\ approvals[k][b] \in Final => approvals'[k][b] = approvals[k][b]
  /\ Len(runs[k]) <= Len(runs'[k])
  /\ \A i \in DOMAIN runs[k] :
       /\ i \in DOMAIN runs'[k] /\ runs'[k][i].kind = runs[k][i].kind
       /\ runs[k][i].gate # 0 => runs'[k][i].gate = runs[k][i].gate
  /\ inner[k].status # "none" => inner'[k].status # "none"

LEMMA OnlyOne ==
  ASSUME NEW m \in Nat, NEW n \in Nat, m # 0, m <= n, n = 1
  PROVE  m = 1
OBVIOUS

LEMMA OneOrNone ==
  ASSUME NEW n \in Nat, n <= 1, n # 0
  PROVE  n = 1
OBVIOUS

LEMMA ConsentStays ==
  ASSUME TypeInv, NEW k \in Tasks, Monotone(k), NEW i \in DOMAIN runs[k],
         runs[k][i].gate \in 1 .. Len(approvals[k]), runs' \in [Tasks -> Seq(RunRecords)],
         Consented(k, i)
  PROVE  Consented(k, i)'
<1> DEFINE yes == IF runs[k][i].kind = "approval" THEN {"approved", "modified"} ELSE {"approved"}
<1>1. /\ Len(runs[k]) \in Nat /\ DOMAIN runs[k] = 1 .. Len(runs[k])
      /\ Len(runs'[k]) \in Nat /\ DOMAIN approvals[k] = 1 .. Len(approvals[k])
  BY Typed
<1>2. runs'[k][i].kind = runs[k][i].kind /\ runs'[k][i].gate = runs[k][i].gate
  BY <1>1 DEF Monotone
<1>3. PICK b \in (IF Len(runs[k]) = 1 THEN {runs[k][i].gate} ELSE DOMAIN approvals[k]) :
        approvals[k][b] \in yes
  BY DEF Consented
<1>4. b \in DOMAIN approvals[k] /\ yes \subseteq Final
  BY <1>1, <1>3 DEF Final
<1>5. b \in DOMAIN approvals'[k] /\ approvals'[k][b] \in yes
  BY <1>3, <1>4 DEF Monotone
<1>6. Len(runs'[k]) = 1 => b = runs'[k][i].gate
  <2>1. Len(runs[k]) <= Len(runs'[k])
    BY DEF Monotone
  <2>2. Len(runs[k]) # 0
    BY <1>1
  <2>3. Len(runs'[k]) = 1 => Len(runs[k]) = 1
    BY <1>1, <2>1, <2>2, OnlyOne
  <2> QED
    BY <1>2, <1>3, <2>3
<1> QED
  BY <1>2, <1>5, <1>6 DEF Consented

LEMMA ClearedStays ==
  ASSUME TypeInv, NEW k \in Tasks, Monotone(k), runs' \in [Tasks -> Seq(RunRecords)],
         inner[k].approval \in 0 .. Len(approvals[k]), inner'[k].approval = inner[k].approval,
         runs[k] # << >>, inner[k].approval # 0, Cleared(k)
  PROVE  Cleared(k)'
<1>1. /\ Len(runs[k]) \in Nat /\ Len(runs[k]) # 0
      /\ Len(runs'[k]) \in Nat /\ DOMAIN approvals[k] = 1 .. Len(approvals[k])
      /\ Len(approvals[k]) \in Nat
  BY Typed
<1>2. inner[k].approval \in DOMAIN approvals[k] /\ "approved" \in Final
  BY <1>1 DEF Final
<1>3. CASE Len(runs'[k]) = 1
  <2>1. Len(runs[k]) <= Len(runs'[k])
    BY DEF Monotone
  <2>2. Len(runs[k]) = 1
    BY <1>1, <1>3, <2>1, OnlyOne
  <2> QED
    BY <1>2, <1>3, <2>2 DEF Cleared, Monotone
<1>4. CASE Len(runs'[k]) # 1
  <2>1. PICK b \in DOMAIN approvals[k] : approvals[k][b] = "approved"
    BY <1>2 DEF Cleared
  <2> QED
    BY <1>2, <1>4, <2>1 DEF Cleared, Monotone
<1> QED
  BY <1>3, <1>4

LEMMA TaskStays ==
  ASSUME Inv, NEW k \in Tasks, runs'[k] = runs[k], approvals'[k] = approvals[k],
         task'[k] = task[k], inner'[k] = inner[k]
  PROVE  RunsOK(k)' /\ TaskOK(k)'
<1>1. RunsOK(k) /\ TaskOK(k)
  BY DEF Inv
<1>2. \A i : Consented(k, i)' = Consented(k, i)
  BY DEF Consented
<1>3. Cleared(k)' = Cleared(k) /\ \A kind : HasRun(k, kind)' = HasRun(k, kind)
  BY DEF Cleared, HasRun
<1>4. RunsOK(k)'
  BY <1>1, <1>2 DEF RunsOK
<1>5. TaskOK(k)'
  BY <1>1, <1>3 DEF TaskOK
<1> QED
  BY <1>4, <1>5

LEMMA WorkMonotone ==
  ASSUME Inv, NEW t \in Threads, NEW k \in Tasks, NEW i, NEW a, NEW out, WorkStep(t, k, i, a, out)
  PROVE  \A j \in Tasks : Monotone(j)
<1>1. ASSUME NEW j \in Tasks, j # k PROVE Monotone(j)
  <2>1. runs'[j] = runs[j] /\ approvals'[j] = approvals[j] /\ inner'[j] = inner[j]
    BY <1>1, WorkRuns, WorkRest
  <2>2. Len(runs[j]) \in Nat
    BY Typed DEF Inv
  <2> QED
    BY <2>1, <2>2 DEF Monotone
<1>2. Monotone(k)
  <2>1. runs[k][i].gate # 0 => runs'[k][i].gate = runs[k][i].gate
    <3>1. Waits(out) => runs[k][i].gate = 0
      <4>1. Waits(out) => ~EndsRun(out) /\ ~Raises(out) /\ out.run # "same"
        BY DEF Waits, EndsRun, Raises
      <4> QED
        BY <4>1 DEF WorkStep, Ready, Proceeds
    <3> QED
      BY <3>1, WorkRuns, WorkOut DEF WorkStep
  <2>2. /\ Len(runs'[k]) = Len(runs[k]) /\ DOMAIN runs'[k] = DOMAIN runs[k]
        /\ \A j \in DOMAIN runs[k] : j # i => runs'[k][j] = runs[k][j]
        /\ runs'[k][i].kind = runs[k][i].kind
    BY WorkRuns
  <2>3. \A b \in DOMAIN approvals[k] : b \in DOMAIN approvals'[k] /\ approvals'[k][b] = approvals[k][b]
    BY WorkRest
  <2>4. Len(runs[k]) \in Nat
    BY Typed DEF Inv
  <2>5. inner[k].status # "none" => inner'[k].status # "none"
    BY WorkRest, WorkOut DEF WorkStep, Keep
  <2> QED
    BY <2>1, <2>2, <2>3, <2>4, <2>5 DEF Monotone
<1> QED
  BY <1>1, <1>2

LEMMA WorkRunsOK ==
  ASSUME Inv, NEW t \in Threads, NEW k \in Tasks, NEW i, NEW a, NEW out, WorkStep(t, k, i, a, out)
  PROVE  RunsOK(k)'
<1>1. RunsOK(k) /\ TypeInv
  BY DEF Inv
<1>2. /\ DOMAIN runs'[k] = DOMAIN runs[k] /\ runs' \in [Tasks -> Seq(RunRecords)]
      /\ \A j \in DOMAIN runs[k] : j # i => runs'[k][j] = runs[k][j]
      /\ runs'[k][i].kind = runs[k][i].kind
  BY WorkRuns
<1>3. i \in DOMAIN runs[k] /\ runs[k][i] \in RunRecords /\ (EndsRun(out) \/ Waits(out) \/ out.run = "same")
  BY WorkOut DEF WorkStep
<1>4. Monotone(k) /\ Len(approvals[k]) <= Len(approvals'[k]) /\ Len(approvals'[k]) \in Nat
      /\ Len(approvals[k]) \in Nat /\ NowAsked(k, a, out) \in 0 .. Len(approvals'[k])
  <2>1. approvals'[k] \in Seq(Final \cup Undecided)
    BY TakesApprovals, WorkOut DEF WorkStep, Inv
  <2> QED
    BY <2>1, WorkMonotone, WorkRest, Typed, <1>1
<1>5. ASSUME NEW j \in DOMAIN runs[k], runs[k][j].gate # 0, Consented(k, j) PROVE Consented(k, j)'
  <2>1. runs[k][j].gate \in 1 .. Len(approvals[k])
    BY <1>1, <1>4, <1>5 DEF RunsOK
  <2> QED
    BY <1>1, <1>2, <1>4, <1>5, <2>1, ConsentStays
<1>6. ASSUME NEW j \in DOMAIN runs[k], j # i
      PROVE  LET r == runs'[k][j] IN
             /\ r.gate \in 0 .. Len(approvals'[k])
             /\ r.status = "waiting_approval" => r.gate # 0
             /\ r.gate # 0 => r.kind \in Gated
             /\ r.gate # 0 /\ r.left \in {"completed", "needs_approval"} => Consented(k, j)'
  BY <1>1, <1>2, <1>4, <1>5, <1>6 DEF RunsOK
<1>7. LET r == runs'[k][i] IN
             /\ r.gate \in 0 .. Len(approvals'[k])
             /\ r.status = "waiting_approval" => r.gate # 0
             /\ r.gate # 0 => r.kind \in Gated
             /\ r.gate # 0 /\ r.left \in {"completed", "needs_approval"} => Consented(k, i)'
  <2>1. CASE EndsRun(out)
    <3>1. /\ runs'[k][i].status = out.run /\ runs'[k][i].gate = runs[k][i].gate
          /\ runs'[k][i].left = out.task /\ out.run # "waiting_approval"
      BY <2>1, WorkRuns DEF EndsRun
    <3>2. runs[k][i].gate # 0 /\ out.task \in {"completed", "needs_approval"} => Consented(k, i)
      BY <2>1 DEF WorkStep, Ready
    <3> QED
      BY <1>1, <1>2, <1>3, <1>4, <1>5, <3>1, <3>2 DEF RunsOK
  <2>2. CASE Waits(out)
    <3>1. /\ runs[k][i].gate = 0 /\ runs[k][i].kind \in Gated /\ NowAsked(k, a, out) # 0
      <4>1. ~EndsRun(out) /\ ~Raises(out) /\ out.run # "same"
        BY <2>2 DEF Waits, EndsRun, Raises
      <4> QED
        BY <4>1 DEF WorkStep, Ready, Proceeds
    <3>2. /\ runs'[k][i].status = "waiting_approval" /\ runs'[k][i].gate = NowAsked(k, a, out)
          /\ runs'[k][i].left = runs[k][i].left
      BY <2>2, WorkRuns
    <3>3. runs[k][i].left = "none"
      BY <3>1 DEF WorkStep, Ready
    <3> QED
      BY <1>2, <1>3, <1>4, <3>1, <3>2, <3>3
  <2>3. CASE out.run = "same"
    <3>1. /\ runs'[k][i].status = runs[k][i].status /\ runs'[k][i].gate = runs[k][i].gate
          /\ runs'[k][i].left = runs[k][i].left
      BY <2>3, WorkRuns
    <3> QED
      BY <1>1, <1>2, <1>3, <1>4, <1>5, <3>1 DEF RunsOK
  <2> QED
    BY <1>3, <2>1, <2>2, <2>3
<1>8. \A j, m \in DOMAIN runs'[k] :
        runs'[k][j].kind # "document" /\ runs'[k][m].kind # "document" => j = m
  <2>1. \A j \in DOMAIN runs[k] : runs'[k][j].kind = runs[k][j].kind
    BY <1>2
  <2> QED
    BY <1>1, <1>2, <2>1 DEF RunsOK
<1> QED
  BY <1>2, <1>6, <1>7, <1>8 DEF RunsOK

LEMMA WorkCases ==
  ASSUME Inv, NEW t \in Threads, NEW k \in Tasks, NEW i, NEW a, NEW out, Ready(t, k, i, a, out)
  PROVE  LET r == runs[k][i] IN
         \/ EndsRun(out) /\ out.to = "idle" /\ out.inner = "same"
         \/ /\ Waits(out) /\ out.to = "idle" /\ out.inner = "same" /\ out.links
            /\ r.gate = 0 /\ r.kind \in Gated /\ NowAsked(k, a, out) # 0
         \/ /\ out.run = "same" /\ ~out.links /\ out.to # "idle"
            /\ Proceeds(out, IF r.gate = 0 THEN Early(r.kind) ELSE Late(r.kind))
         \/ /\ out.run = "same" /\ ~out.links /\ out.to = "idle" /\ out.inner = "same"
            /\ Raises(out) /\ r.kind = "document"
<1> DEFINE r == runs[k][i]
           S == IF r.gate = 0 THEN Early(r.kind) ELSE Late(r.kind)
<1>1. "idle" \notin S
  BY WorkOut, StageSets, NotIdle DEF RunRecords
<1>2. \/ Proceeds(out, S) \/ EndsRun(out)
      \/ Waits(out) /\ r.gate = 0 /\ r.kind \in Gated /\ NowAsked(k, a, out) # 0
      \/ Raises(out) /\ r.kind = "document"
  BY DEF Ready
<1>3. Proceeds(out, S) => out.to # "idle" /\ out.run = "same" /\ ~out.links
  BY <1>1 DEF Proceeds
<1>4. EndsRun(out) => out.to = "idle" /\ out.inner = "same"
  BY DEF EndsRun
<1>5. Waits(out) => out.to = "idle" /\ out.inner = "same" /\ out.links
  BY DEF Waits
<1>6. Raises(out) => out.run = "same" /\ ~out.links /\ out.to = "idle" /\ out.inner = "same"
  BY DEF Raises
<1> QED
  BY <1>2, <1>3, <1>4, <1>5, <1>6

LEMMA WorkKinds ==
  ASSUME Inv, NEW t \in Threads, NEW k \in Tasks, NEW i, NEW a, NEW out, WorkStep(t, k, i, a, out)
  PROVE  \A kind : HasRun(k, kind)' = HasRun(k, kind)
<1>1. \A j \in DOMAIN runs[k] : runs'[k][j].kind = runs[k][j].kind
  BY WorkRuns
<1>2. DOMAIN runs'[k] = DOMAIN runs[k]
  BY WorkRuns
<1> QED
  BY <1>1, <1>2 DEF HasRun

LEMMA WorkCleared ==
  ASSUME Inv, NEW t \in Threads, NEW k \in Tasks, NEW i, NEW a, NEW out, WorkStep(t, k, i, a, out),
         inner'[k].status = "done", HasRun(k, "skill_missing")
  PROVE  Cleared(k)'
<1>1. Ready(t, k, i, a, out) /\ TypeInv /\ TaskOK(k) /\ RunsOK(k)
  BY DEF WorkStep, Inv
<1>2. /\ i \in DOMAIN runs[k] /\ out.inner \in {"same", "waiting", "done", "refused"}
      /\ inner'[k].status = Keep(inner[k].status, out.inner)
  BY <1>1, WorkOut, WorkRest
<1>3. out.inner \in {"same", "done"} /\ inner'[k].approval = inner[k].approval
  BY <1>2, WorkRest DEF Keep
<1>4. inner[k].approval # 0 /\ Cleared(k)
  <2>1. CASE out.inner = "same"
    BY <1>1, <1>2, <2>1 DEF TaskOK, Keep
  <2>2. CASE out.inner = "done"
    <3>1. runs[k][i].kind \in {"skill_missing", "tool_call"}
      BY <1>1, <2>2 DEF Ready
    <3>2. PICK j \in DOMAIN runs[k] : runs[k][j].kind = "skill_missing"
      BY DEF HasRun
    <3>3. i = j
      BY <1>1, <1>2, <3>1, <3>2 DEF RunsOK
    <3>4. inner[k].approval # 0 /\ approvals[k][inner[k].approval] = "approved"
      BY <1>1, <2>2, <3>2, <3>3 DEF Ready, SkillReady
    <3>5. inner[k].approval \in DOMAIN approvals[k]
      BY <1>1, <3>4, Typed DEF TaskOK
    <3> QED
      BY <3>4, <3>5 DEF Cleared
  <2> QED
    BY <1>3, <2>1, <2>2
<1>5. runs[k] # << >>
  BY <1>2
<1> QED
  BY <1>1, <1>3, <1>4, <1>5, ClearedStays, WorkMonotone, WorkRuns DEF TaskOK

LEMMA WorkTaskOK ==
  ASSUME Inv, NEW t \in Threads, NEW k \in Tasks, NEW i, NEW a, NEW out, WorkStep(t, k, i, a, out)
  PROVE  TaskOK(k)'
<1> DEFINE asked == NowAsked(k, a, out)
           r == runs[k][i]
           q == runs'[k][i]
<1>1. Ready(t, k, i, a, out) /\ TypeInv /\ TaskOK(k) /\ RunsOK(k)
  BY DEF WorkStep, Inv
<1>2. i \in DOMAIN runs[k] /\ out.inner \in {"same", "waiting", "done", "refused"}
  BY <1>1, WorkOut
<1>3. /\ task'[k].approval = IF out.links THEN asked ELSE task[k].approval
      /\ inner'[k].status = Keep(inner[k].status, out.inner)
      /\ inner'[k].approval = IF out.inner = "waiting" THEN asked ELSE inner[k].approval
      /\ asked \in 0 .. Len(approvals'[k])
      /\ Len(approvals[k]) <= Len(approvals'[k])
  BY WorkRest
<1>4. /\ task[k].approval \in 0 .. Len(approvals'[k])
      /\ inner[k].approval \in 0 .. Len(approvals'[k])
  <2>1. approvals'[k] \in Seq(Final \cup Undecided)
    BY TakesApprovals, WorkOut DEF WorkStep, Inv
  <2>2. Len(approvals'[k]) \in Nat /\ Len(approvals[k]) \in Nat
    BY <1>1, <2>1, Typed
  <2> QED
    BY <1>1, <1>3, <2>2 DEF TaskOK
<1>5. \A kind : HasRun(k, kind)' = HasRun(k, kind)
  BY WorkKinds
<1>6. out.inner # "same" => HasRun(k, r.kind) /\ r.kind \in {"skill_missing", "tool_call"}
  BY <1>1, <1>2 DEF Ready, HasRun
<1>7. out.inner = "waiting" => asked # 0
  BY <1>1 DEF Ready
<1>8. out.inner \in {"done", "refused"} => inner[k].status # "none"
  BY <1>1 DEF Ready
<1>9. inner'[k].status # "none" =>
        HasRun(k, "skill_missing") \/ HasRun(k, "tool_call")
  BY <1>1, <1>2, <1>3, <1>6 DEF TaskOK, Keep
<1>10. inner'[k].status # "none" => inner'[k].approval # 0
  BY <1>1, <1>2, <1>3, <1>7, <1>8 DEF TaskOK, Keep
<1>11. ASSUME Len(runs'[k]) = 1
       PROVE  LET p == runs'[k][1] IN
              /\ p.status = "waiting_approval" => task'[k].approval = p.gate
              /\ p.kind = "skill_missing" /\ p.gate # 0 =>
                   inner'[k].status # "none" /\ inner'[k].approval = p.gate
  <2>1. Len(runs[k]) = 1 /\ i = 1
    <3>1. Len(runs[k]) = 1
      BY <1>11, WorkRuns
    <3> QED
      BY <1>2, <3>1, Typed, <1>1
  <2>2. /\ r.status = "waiting_approval" => task[k].approval = r.gate
        /\ r.kind = "skill_missing" /\ r.gate # 0 =>
             inner[k].status # "none" /\ inner[k].approval = r.gate
    BY <1>1, <2>1 DEF TaskOK
  <2>3. q.kind = r.kind
    BY WorkRuns
  <2>4. CASE EndsRun(out) /\ out.inner = "same"
    <3>1. q.status = out.run /\ q.gate = r.gate /\ out.run # "waiting_approval"
      BY <2>4, WorkRuns DEF EndsRun
    <3> QED
      BY <1>3, <2>1, <2>2, <2>3, <2>4, <3>1 DEF Keep
  <2>5. CASE Waits(out) /\ out.inner = "same" /\ out.links
    <3>1. q.gate = asked
      BY <2>5, WorkRuns
    <3>2. r.kind = "skill_missing" => inner[k].status # "none" /\ inner[k].approval = asked
      BY <1>1, <2>5 DEF Ready, SkillReady
    <3> QED
      BY <1>3, <2>1, <2>3, <2>5, <3>1, <3>2 DEF Keep
  <2>6. CASE out.run = "same" /\ ~out.links
    <3>1. q.status = r.status /\ q.gate = r.gate
      BY <2>6, WorkRuns
    <3>2. r.kind = "skill_missing" /\ r.gate # 0 => out.inner # "waiting"
      BY <1>1 DEF Ready, SkillReady
    <3> QED
      BY <1>2, <1>3, <2>1, <2>2, <2>3, <2>6, <3>1, <3>2 DEF Keep
  <2> QED
    BY <1>1, <2>4, <2>5, <2>6, WorkCases
<1> QED
  BY <1>3, <1>4, <1>5, <1>9, <1>10, <1>11, WorkCleared DEF TaskOK

\* What another thread may not do to a run before it first waits.
RunKept(j, m) ==
  runs[j][m].gate = 0 =>
    /\ runs'[j][m] = runs[j][m]
    /\ runs[j][m].kind = "skill_missing" =>
         /\ inner'[j].approval = inner[j].approval
         /\ inner'[j].status = "none" <=> inner[j].status = "none"

LEMMA KindsStay ==
  ASSUME NEW k, Monotone(k), NEW kind, HasRun(k, kind)
  PROVE  HasRun(k, kind)'
<1>1. PICK i \in DOMAIN runs[k] : runs[k][i].kind = kind
  BY DEF HasRun
<1>2. i \in DOMAIN runs'[k] /\ runs'[k][i].kind = kind
  BY <1>1 DEF Monotone
<1> QED
  BY <1>2 DEF HasRun

LEMMA CallStays ==
  ASSUME Inv, NEW u \in Threads, th[u].pc = "call", th'[u] = th[u],
         runs' \in [Tasks -> Seq(RunRecords)], approvals' \in [Tasks -> Seq(Final \cup Undecided)],
         NEW k \in Tasks, NEW i \in Nat, th[u].task = k, th[u].run = i,
         Monotone(k), RunKept(k, i)
  PROVE  ThreadOK(u)'
<1> DEFINE w == th[u]
           r == runs[k][i]
           q == runs'[k][i]
<1>1. TypeInv /\ ThreadOK(u)
  BY DEF Inv
<1>2. w.asked \in Nat
  BY <1>1, ThreadShape DEF Calls
<1>3. /\ i \in DOMAIN runs[k] /\ w.asked \in 0 .. Len(approvals[k])
      /\ w.at \in {"gate", "proposed", "under_review"} => w.asked # 0
      /\ r.gate = 0 => w.at \in Early(r.kind) /\ r.status = "running" /\ r.left = "none" /\ r.ends = 0
      /\ r.gate # 0 => w.at \in Late(r.kind) /\ (w.at \notin Refusals => Consented(k, i))
      /\ r.kind = "skill_missing" /\ w.at \in {"search", "compose"} => inner[k].status = "none"
      /\ r.kind = "skill_missing" /\ w.at = "gate" =>
           inner[k].status # "none" /\ inner[k].approval = w.asked
      /\ w.at = "adapter" => inner[k].status # "none"
  BY <1>1 DEF ThreadOK
<1>4. RunsOK(k)
  BY <1>2 DEF Inv
<1>5. /\ i \in DOMAIN runs'[k] /\ q.kind = r.kind /\ (r.gate # 0 => q.gate = r.gate)
      /\ w.at = "adapter" => inner'[k].status # "none"
  BY <1>3 DEF Monotone
<1>6. w.asked \in 0 .. Len(approvals'[k])
  <2>1. DOMAIN approvals[k] = 1 .. Len(approvals[k]) /\ DOMAIN approvals'[k] = 1 .. Len(approvals'[k])
        /\ Len(approvals'[k]) \in Nat
    BY <1>1, <1>2, Typed
  <2>2. w.asked # 0 => w.asked \in DOMAIN approvals[k]
    BY <1>3, <2>1
  <2>3. w.asked # 0 => w.asked \in DOMAIN approvals'[k]
    BY <2>2 DEF Monotone
  <2> QED
    BY <1>3, <2>1, <2>3
<1>7. CASE r.gate = 0
  <2>1. /\ q = r
        /\ r.kind = "skill_missing" =>
             /\ inner'[k].approval = inner[k].approval
             /\ inner'[k].status = "none" <=> inner[k].status = "none"
    BY <1>7 DEF RunKept
  <2>2. q.gate = 0
    BY <1>7, <2>1
  <2> QED
    BY <1>3, <1>5, <1>6, <1>7, <2>1, <2>2 DEF ThreadOK
<1>8. CASE r.gate # 0
  <2>1. q.gate # 0
    BY <1>5, <1>8
  <2>2. r.kind = "skill_missing" => w.at \notin {"search", "compose", "gate"}
    <3>1. r.kind = "skill_missing" => w.at \in Late("skill_missing")
      BY <1>3, <1>8
    <3>2. w.at \in Late("skill_missing") => w.at \notin {"search", "compose", "gate"}
      BY KindSets DEF Tails
    <3> QED
      BY <3>1, <3>2
  <2>3. Consented(k, i) => Consented(k, i)'
    <3>1. r.gate \in 1 .. Len(approvals[k])
      <4>1. r.gate \in 0 .. Len(approvals[k])
        BY <1>3, <1>4 DEF RunsOK
      <4>2. Len(approvals[k]) \in Nat
        BY <1>1, <1>2, Typed
      <4> QED
        BY <1>8, <4>1, <4>2
    <3> QED
      BY <1>1, <1>3, <3>1, ConsentStays
  <2>4. w.at \notin Refusals => \E b \in (IF Len(runs'[k]) = 1 THEN {q.gate} ELSE DOMAIN approvals'[k]) :
          approvals'[k][b] \in (IF q.kind = "approval" THEN {"approved", "modified"} ELSE {"approved"})
    BY <1>3, <1>8, <2>3 DEF Consented
  <2>5. w.at \notin Refusals => Consented(th[u].task, th[u].run)'
    BY <2>4 DEF Consented
  <2> QED
    BY <1>3, <1>5, <1>6, <1>8, <2>1, <2>2, <2>5 DEF ThreadOK
<1> QED
  BY <1>7, <1>8

LEMMA ThreadStays ==
  ASSUME Inv, NEW u \in Threads, th'[u] = th[u],
         runs' \in [Tasks -> Seq(RunRecords)], approvals' \in [Tasks -> Seq(Final \cup Undecided)],
         \A j \in Tasks : Monotone(j),
         th[u].pc = "call" => RunKept(th[u].task, th[u].run),
         th[u].pc = "decided" => lock' = lock
  PROVE  ThreadOK(u)'
<1>1. TypeInv /\ ThreadOK(u)
  BY DEF Inv
<1>2. /\ th[u].pc # "idle" => th[u].task \in Tasks
      /\ th[u].pc = "call" => th[u].run \in Nat
  BY <1>1, ThreadShape DEF Calls, Decided, AtTool
<1>3. CASE th[u].pc = "call"
  <2>1. PICK k \in Tasks, i \in Nat : th[u].task = k /\ th[u].run = i
    BY <1>2, <1>3
  <2>2. Monotone(k) /\ RunKept(k, i)
    BY <1>3, <2>1 DEF RunKept
  <2> QED
    BY <1>3, <2>1, <2>2, CallStays
<1>4. CASE th[u].pc = "tool"
  <2>1. PICK k \in Tasks : th[u].task = k
    BY <1>2, <1>4
  <2>2. HasRun(k, "tool_call") /\ inner[k].status # "none"
    BY <1>1, <1>4, <2>1 DEF ThreadOK, HasRun
  <2>3. HasRun(k, "tool_call")'
    BY <2>2, KindsStay
  <2>4. (\E m \in DOMAIN runs'[k] : runs'[k][m].kind = "tool_call") /\ inner'[k].status # "none"
    BY <2>2, <2>3 DEF HasRun, Monotone
  <2> QED
    BY <1>4, <2>1, <2>4 DEF ThreadOK, HasRun
<1>5. CASE th[u].pc \in {"idle", "decided"}
  BY <1>1, <1>5 DEF ThreadOK
<1> QED
  BY <1>1, <1>3, <1>4, <1>5, ThreadShape

LEMMA WorkOthers ==
  ASSUME Inv, NEW t \in Threads, NEW k \in Tasks, NEW i, NEW a, NEW out, WorkStep(t, k, i, a, out),
         NEW u \in Threads, u # t
  PROVE  ThreadOK(u)'
<1>1. Ready(t, k, i, a, out) /\ TypeInv /\ ThreadOK(u) /\ RunsOK(k)
  BY DEF WorkStep, Inv
<1>2. /\ runs' \in [Tasks -> Seq(RunRecords)] /\ approvals' \in [Tasks -> Seq(Final \cup Undecided)]
      /\ th'[u] = th[u] /\ i \in DOMAIN runs[k]
  BY <1>1, WorkRuns, WorkRest, WorkOut, TakesApprovals DEF WorkStep
<1>3. ASSUME NEW j \in Tasks, NEW m, th[u].pc = "call", th[u].task = j, th[u].run = m,
             runs[j][m].gate = 0
      PROVE  /\ runs'[j][m] = runs[j][m]
             /\ runs[j][m].kind = "skill_missing" =>
                  inner'[j].approval = inner[j].approval /\ inner'[j].status = inner[j].status
  <2>1. CASE j # k
    BY <2>1, WorkRuns, WorkRest
  <2>2. CASE j = k /\ m = i
    <3>1. Works(u, k, i)
      BY <1>3, <2>2 DEF Works
    <3> QED
      BY <1>1, <1>3, <2>2, <3>1 DEF Ready
  <2>3. CASE j = k /\ m # i
    <3>1. m \in DOMAIN runs[k]
      BY <1>1, <1>3, <2>3 DEF ThreadOK
    <3>2. runs'[k][m] = runs[k][m]
      BY <2>3, <3>1, WorkRuns
    <3>3. runs[k][m].kind = "skill_missing" => runs[k][i].kind = "document"
      BY <1>1, <1>2, <2>3, <3>1 DEF RunsOK
    <3>4. runs[k][m].kind = "skill_missing" => out.inner = "same"
      BY <1>1, <3>3 DEF Ready
    <3> QED
      BY <2>3, <3>2, <3>4, WorkRest DEF Keep
  <2> QED
    BY <2>1, <2>2, <2>3
<1>4. th[u].pc = "call" => RunKept(th[u].task, th[u].run)
  <2>1. th[u].pc = "call" => th[u].task \in Tasks
    BY <1>1, ThreadShape DEF Calls
  <2> QED
    BY <1>3, <2>1 DEF RunKept
<1>5. th[u].pc = "decided" => lock' = lock
  <2>1. th[u].pc = "decided" => lock = u
    BY <1>1 DEF ThreadOK
  <2> QED
    BY <2>1, WorkRest
<1> QED
  BY <1>2, <1>4, <1>5, ThreadStays, WorkMonotone

LEMMA WorkThread ==
  ASSUME Inv, NEW t \in Threads, NEW k \in Tasks, NEW i, NEW a, NEW out, WorkStep(t, k, i, a, out)
  PROVE  ThreadOK(t)'
<1> DEFINE r == runs[k][i]
           q == runs'[k][i]
           w == th'[t]
           asked == NowAsked(k, a, out)
<1>1. Ready(t, k, i, a, out) /\ TypeInv /\ RunsOK(k)
  BY DEF WorkStep, Inv
<1>2. CASE out.to = "idle"
  <2>1. th'[t].pc = "idle"
    BY <1>2, WorkRest DEF Idle
  <2> QED
    BY <2>1 DEF ThreadOK
<1>3. CASE out.to # "idle"
  <2>1. /\ out.run = "same" /\ ~out.links
        /\ Proceeds(out, IF r.gate = 0 THEN Early(r.kind) ELSE Late(r.kind))
    BY <1>1, <1>3, WorkCases
  <2>2. /\ w.pc = "call" /\ w.task = k /\ w.run = i /\ w.at = out.to /\ w.asked = asked
        /\ asked \in 0 .. Len(approvals'[k])
    BY <1>3, WorkRest
  <2>3. /\ q.kind = r.kind /\ q.status = r.status /\ q.gate = r.gate /\ q.ends = r.ends /\ q.left = r.left
        /\ i \in DOMAIN runs'[k] /\ i \in DOMAIN runs[k]
    BY <1>1, <2>1, WorkRuns, WorkOut
  <2>4. w.at \in {"gate", "proposed", "under_review"} => asked # 0
    BY <1>1, <2>2 DEF Ready, Asked
  <2>5. r.gate = 0 => /\ w.at \in Early(r.kind)
                      /\ r.status = "running" /\ r.left = "none" /\ r.ends = 0
    BY <1>1, <2>1, <2>2 DEF Ready, Proceeds
  <2>6. r.gate # 0 => w.at \in Late(r.kind)
    BY <2>1, <2>2 DEF Proceeds
  <2>7. r.gate # 0 /\ w.at \notin Refusals =>
          \E b \in (IF Len(runs'[k]) = 1 THEN {q.gate} ELSE DOMAIN approvals'[k]) :
            approvals'[k][b] \in (IF q.kind = "approval" THEN {"approved", "modified"} ELSE {"approved"})
    <3>1. r.gate # 0 /\ w.at \notin Refusals => Consented(k, i)
      BY <1>1, <1>3, <2>2 DEF Ready
    <3>2. r.gate # 0 => r.gate \in 1 .. Len(approvals[k])
      <4>1. r.gate \in 0 .. Len(approvals[k])
        BY <1>1, <2>3 DEF RunsOK
      <4>2. Len(approvals[k]) \in Nat
        BY <1>1, Typed
      <4> QED
        BY <4>1, <4>2
    <3>3. r.gate # 0 /\ Consented(k, i) => Consented(k, i)'
      BY <1>1, <2>3, <3>2, ConsentStays, WorkMonotone, WorkRuns
    <3> QED
      BY <3>1, <3>3 DEF Consented
  <2>8. r.kind = "skill_missing" => SkillReady(k, i, asked, out)
    BY <1>1 DEF Ready
  <2>9. /\ r.kind = "skill_missing" /\ w.at \in {"search", "compose"} => inner'[k].status = "none"
        /\ r.kind = "skill_missing" /\ w.at = "gate" =>
             inner'[k].status # "none" /\ inner'[k].approval = asked
        /\ w.at = "adapter" => inner'[k].status # "none"
    <3>1. out.to = "adapter" => inner[k].status # "none"
      BY <1>1 DEF Ready
    <3>2. w.at = "adapter" => inner'[k].status # "none"
      BY <2>2, <3>1, WorkMonotone DEF Monotone
    <3> QED
      BY <2>2, <2>8, <3>2, WorkRest DEF SkillReady, Keep
  <2> QED
    BY <2>2, <2>3, <2>4, <2>5, <2>6, <2>7, <2>9 DEF ThreadOK, Consented
<1> QED
  BY <1>2, <1>3

\* Who works on what after the step.
LEMMA WorkWorks ==
  ASSUME Inv, NEW t \in Threads, NEW k \in Tasks, NEW i, NEW a, NEW out, WorkStep(t, k, i, a, out)
  PROVE  /\ \A u \in Threads : \A j, m : u # t => (Works(u, j, m)' <=> Works(u, j, m))
         /\ \A j, m : Works(t, j, m)' => j = k /\ m = i /\ out.to # "idle"
         /\ out.to # "idle" => Works(t, k, i)'
         /\ \A j, m : Works(t, j, m) => j = k /\ m = i
<1>1. \A u \in Threads : u # t => th'[u] = th[u]
  BY WorkRest
<1>2. /\ out.to = "idle" => th'[t].pc = "idle"
      /\ out.to # "idle" => th'[t].pc = "call" /\ th'[t].task = k /\ th'[t].run = i
  BY WorkRest DEF Idle
<1>3. th[t].pc \in {"idle", "decided"} \/ Works(t, k, i)
  BY DEF WorkStep, Ready
<1> QED
  BY <1>1, <1>2, <1>3 DEF Works

LEMMA WorkAlone ==
  ASSUME Inv, NEW t \in Threads, NEW k \in Tasks, NEW i, NEW a, NEW out, WorkStep(t, k, i, a, out),
         NEW u \in Threads, NEW v \in Threads
  PROVE  AloneEarly(u, v)'
<1>1. SUFFICES ASSUME NEW j \in Tasks, NEW m \in DOMAIN runs'[j],
                      Works(u, j, m)', Works(v, j, m)', runs'[j][m].gate = 0
               PROVE  u = v
  BY DEF AloneEarly
<1>2. m \in DOMAIN runs[j] /\ runs[j][m].gate = 0
  <2>1. m \in DOMAIN runs[j]
    BY WorkRuns
  <2>2. Monotone(j)
    BY WorkMonotone
  <2> QED
    BY <1>1, <2>1, <2>2 DEF Monotone
<1>3. ASSUME NEW x \in Threads, Works(x, k, i), j = k, m = i PROVE x = t
  BY <1>2, <1>3 DEF WorkStep, Ready
<1>4. ASSUME u # t, v # t PROVE u = v
  <2>1. Works(u, j, m) /\ Works(v, j, m)
    BY <1>1, <1>4, WorkWorks
  <2>2. AloneEarly(u, v)
    BY DEF Inv
  <2> QED
    BY <1>2, <2>1, <2>2 DEF AloneEarly
<1>5. ASSUME u = t, v # t PROVE u = v
  BY <1>1, <1>3, <1>5, WorkWorks
<1>6. ASSUME u # t, v = t PROVE u = v
  BY <1>1, <1>3, <1>6, WorkWorks
<1> QED
  BY <1>4, <1>5, <1>6

LEMMA WorkOnce ==
  ASSUME Inv, NEW t \in Threads, NEW k \in Tasks, NEW i, NEW a, NEW out, WorkStep(t, k, i, a, out),
         ~resumed' => ~resumed /\ ReadyOnce(t, k, i)
  PROVE  OnceOK'
<1> DEFINE r == runs[k][i]
           q == runs'[k][i]
<1>1. SUFFICES ASSUME ~resumed'
               PROVE  /\ \A j \in Tasks : \A m \in DOMAIN runs'[j] :
                           /\ runs'[j][m].ends <= 1
                           /\ runs'[j][m].status \in {"running", "waiting_approval"} => runs'[j][m].ends = 0
                      /\ \A u \in Threads : th'[u].pc = "call" =>
                           LET p == runs'[th'[u].task][th'[u].run] IN
                           /\ p.status \in {"running", "waiting_approval"}
                           /\ p.status = "waiting_approval" => lock' = u
                      /\ \A u, v \in Threads : \A j \in Tasks : \A m \in DOMAIN runs'[j] :
                           Works(u, j, m)' /\ Works(v, j, m)' => u = v
  BY DEF OnceOK
<1>2. /\ ~resumed /\ OnceOK /\ ReadyOnce(t, k, i) /\ TypeInv /\ Ready(t, k, i, a, out)
      /\ i \in DOMAIN runs[k]
  BY <1>1, WorkOut DEF Inv, WorkStep
<1>3. \A j \in Tasks : DOMAIN runs'[j] = DOMAIN runs[j]
  BY WorkRuns
<1>4. \A j \in Tasks : \A m \in DOMAIN runs[j] : (j # k \/ m # i) => runs'[j][m] = runs[j][m]
  BY WorkRuns
<1>5. r.status \in {"running", "waiting_approval"} /\ r.ends = 0
  BY <1>2 DEF ReadyOnce, OnceOK
<1>6. /\ q.ends <= 1
      /\ q.status \in {"running", "waiting_approval"} => q.ends = 0
  <2>1. CASE EndsRun(out)
    <3>1. q.status = out.run /\ q.ends = r.ends + 1 /\ out.run \notin {"running", "waiting_approval"}
      BY <2>1, WorkRuns DEF EndsRun
    <3> QED
      BY <1>5, <3>1
  <2>2. CASE Waits(out)
    BY <1>5, <2>2, WorkRuns
  <2>3. CASE out.run = "same"
    BY <1>5, <2>3, WorkRuns
  <2> QED
    BY <1>2, <2>1, <2>2, <2>3, WorkCases
<1>7. \A j \in Tasks : \A m \in DOMAIN runs'[j] :
        /\ runs'[j][m].ends <= 1
        /\ runs'[j][m].status \in {"running", "waiting_approval"} => runs'[j][m].ends = 0
  BY <1>2, <1>3, <1>4, <1>6 DEF OnceOK
<1>8. ASSUME NEW u \in Threads, th'[u].pc = "call"
      PROVE  LET p == runs'[th'[u].task][th'[u].run] IN
             /\ p.status \in {"running", "waiting_approval"}
             /\ p.status = "waiting_approval" => lock' = u
  <2>1. CASE u = t
    <3>1. out.to # "idle" /\ th'[u].task = k /\ th'[u].run = i
      BY <1>8, <2>1, WorkRest DEF Idle
    <3>2. out.run = "same"
      BY <1>2, <3>1, WorkCases
    <3>3. q.status = r.status /\ lock' = lock
      BY <3>1, <3>2, WorkRuns, WorkRest
    <3>4. r.status = "waiting_approval" => lock = t
      BY <1>2 DEF ReadyOnce
    <3> QED
      BY <1>5, <2>1, <3>1, <3>3, <3>4
  <2>2. CASE u # t
    <3>1. th'[u] = th[u] /\ th[u].pc = "call"
      BY <1>8, <2>2, WorkRest
    <3>2. th[u].task \in Tasks /\ ThreadOK(u)
      BY <1>2, <3>1, ThreadShape DEF Calls, Inv
    <3>3. PICK j \in Tasks, m \in Nat : th[u].task = j /\ th[u].run = m /\ m \in DOMAIN runs[j]
      BY <1>2, <3>1, <3>2, ThreadShape DEF ThreadOK, Calls
    <3>4. j # k \/ m # i
      BY <1>2, <2>2, <3>1, <3>3 DEF ReadyOnce, Works
    <3>5. runs'[j][m] = runs[j][m]
      BY <1>4, <3>3, <3>4
    <3>6. /\ runs[j][m].status \in {"running", "waiting_approval"}
          /\ runs[j][m].status = "waiting_approval" => lock = u
      BY <1>2, <3>1, <3>3 DEF OnceOK
    <3>7. lock = u => lock' = u
      BY <2>2, WorkRest
    <3> QED
      BY <3>1, <3>3, <3>5, <3>6, <3>7
  <2> QED
    BY <2>1, <2>2
<1>9. ASSUME NEW u \in Threads, NEW v \in Threads, NEW j \in Tasks, NEW m \in DOMAIN runs'[j],
             Works(u, j, m)', Works(v, j, m)'
      PROVE  u = v
  <2>1. ASSUME NEW x \in Threads, Works(x, k, i), j = k, m = i PROVE x = t
    BY <1>2, <2>1 DEF ReadyOnce
  <2>2. ASSUME u # t, v # t PROVE u = v
    <3>1. Works(u, j, m) /\ Works(v, j, m) /\ m \in DOMAIN runs[j]
      BY <1>3, <1>9, <2>2, WorkWorks
    <3> QED
      BY <1>2, <3>1 DEF OnceOK
  <2>3. ASSUME u = t, v # t PROVE u = v
    BY <1>9, <2>1, <2>3, WorkWorks
  <2>4. ASSUME u # t, v = t PROVE u = v
    BY <1>9, <2>1, <2>4, WorkWorks
  <2> QED
    BY <2>2, <2>3, <2>4
<1> QED
  BY <1>7, <1>8, <1>9

LEMMA WorkLeaves ==
  ASSUME Inv, NEW t \in Threads, NEW k \in Tasks, NEW i, NEW a, NEW out, WorkStep(t, k, i, a, out),
         k \notin disturbed, out.to = "idle"
  PROVE  task'[k].status \in StatusUnder(runs'[k][i])
<1> DEFINE r == runs[k][i]
           q == runs'[k][i]
<1>1. Ready(t, k, i, a, out) /\ RunsOK(k)
  BY DEF WorkStep, Inv
<1>2. /\ task'[k].status = Keep(task[k].status, out.task) /\ q.kind = r.kind
      /\ i \in DOMAIN runs[k]
  BY <1>1, WorkRest, WorkRuns, WorkOut
<1>3. CASE EndsRun(out)
  <2>1. q.status = out.run
    BY <1>3, WorkRuns
  <2>2. task'[k].status = out.task
    BY <1>2, <1>3 DEF Keep, EndsRun
  <2> QED
    BY <1>3, <2>1, <2>2 DEF EndsRun, StatusUnder
<1>4. CASE Waits(out)
  <2>1. q.status = "waiting_approval"
    BY <1>4, WorkRuns
  <2>2. task'[k].status = "needs_approval"
    BY <1>2, <1>4 DEF Keep, Waits
  <2> QED
    BY <2>1, <2>2 DEF StatusUnder
<1>5. CASE out.run = "same" /\ Raises(out) /\ r.kind = "document"
  <2>1. q.status = r.status
    BY <1>5, WorkRuns
  <2>2. /\ r.status \in {"running", "waiting_approval"}
        /\ task'[k].status \in {"created", "assigned", "executing"}
        /\ r.gate # 0 => task'[k].status = "executing"
    BY <1>1, <1>2, <1>5 DEF Ready, DocumentReady
  <2>3. r.status = "waiting_approval" => r.gate # 0
    BY <1>1, <1>2 DEF RunsOK
  <2> QED
    BY <1>2, <1>5, <2>1, <2>2, <2>3 DEF StatusUnder
<1> QED
  BY <1>1, <1>3, <1>4, <1>5, WorkCases

LEMMA WorkUndisturbed ==
  ASSUME Inv, NEW t \in Threads, NEW k \in Tasks, NEW i, NEW a, NEW out, WorkStep(t, k, i, a, out)
  PROVE  UndisturbedOK(k)'
<1> DEFINE r == runs[k][i]
           q == runs'[k][i]
<1>1. Ready(t, k, i, a, out) /\ TypeInv /\ UndisturbedOK(k) /\ disturbed' = disturbed
  BY DEF WorkStep, Inv
<1>2. SUFFICES ASSUME k \notin disturbed PROVE UndisturbedOK(k)'
  BY <1>1 DEF UndisturbedOK
<1>3. Len(runs[k]) = 1 /\ i = 1
  <2>1. i \in DOMAIN runs[k]
    BY <1>1, WorkOut
  <2>2. Len(runs[k]) <= 1
    BY <1>1, <1>2 DEF UndisturbedOK
  <2>3. Len(runs[k]) \in Nat /\ DOMAIN runs[k] = 1 .. Len(runs[k])
    BY <1>1, Typed
  <2>4. \A n \in Nat : n <= 1 /\ i \in 1 .. n => n = 1 /\ i = 1
    OBVIOUS
  <2> QED
    BY <2>1, <2>2, <2>3, <2>4
<1>4. Len(runs'[k]) = 1 /\ runs'[k] # << >>
  <2>1. Len(runs'[k]) = 1
    BY <1>3, WorkRuns
  <2>2. Len(<< >>) # 1
    OBVIOUS
  <2> QED
    BY <2>1, <2>2
<1>5. ASSUME \A u \in Threads : ~Works(u, k, 1)' PROVE task'[k].status \in StatusUnder(runs'[k][1])
  BY <1>2, <1>3, <1>5, WorkWorks, WorkLeaves
<1>6. ASSUME runs'[k][1].kind = "document"
      PROVE  /\ \A u \in Threads : Works(u, k, 1)' =>
                  /\ task'[k].status = StatusAt[th'[u].at]
                  /\ runs'[k][1].status \in {"running", "waiting_approval"}
             /\ \A u, v \in Threads : Works(u, k, 1)' /\ Works(v, k, 1)' => u = v
  <2>1. DocumentReady(t, k, i, out)
    <3>1. r.kind = "document"
      BY <1>3, <1>6, WorkRuns
    <3> QED
      BY <1>1, <1>2, <3>1 DEF Ready
  <2>2. \A u \in Threads : Works(u, k, 1)' => u = t
    BY <1>3, <2>1, WorkWorks DEF DocumentReady
  <2>3. ASSUME Works(t, k, 1)'
        PROVE  /\ task'[k].status = StatusAt[th'[t].at]
               /\ runs'[k][1].status \in {"running", "waiting_approval"}
    <3>1. out.to # "idle"
      BY <2>3, WorkWorks
    <3>2. out.run = "same" /\ th'[t].at = out.to
      BY <1>1, <3>1, WorkCases, WorkRest
    <3>3. task'[k].status = StatusAt[out.to]
      BY <2>1, <3>1, WorkRest DEF DocumentReady
    <3>4. q.status = r.status
      BY <3>2, WorkRuns
    <3> QED
      BY <1>3, <2>1, <3>2, <3>3, <3>4 DEF DocumentReady
  <2> QED
    BY <2>2, <2>3
<1> QED
  BY <1>4, <1>5, <1>6 DEF UndisturbedOK

LEMMA WorkElsewhere ==
  ASSUME Inv, NEW t \in Threads, NEW k \in Tasks, NEW i, NEW a, NEW out, WorkStep(t, k, i, a, out),
         NEW j \in Tasks, j # k
  PROVE  RunsOK(j)' /\ TaskOK(j)' /\ UndisturbedOK(j)'
<1>1. runs'[j] = runs[j] /\ task'[j] = task[j] /\ approvals'[j] = approvals[j] /\ inner'[j] = inner[j]
  BY WorkRuns, WorkRest
<1>2. \A u \in Threads : Works(u, j, 1)' <=> Works(u, j, 1)
  BY WorkWorks
<1>3. \A u \in Threads : Works(u, j, 1) => th'[u] = th[u]
  BY WorkWorks, WorkRest
<1>4. UndisturbedOK(j) /\ disturbed' = disturbed
  BY DEF Inv, WorkStep
<1>5. UndisturbedOK(j)'
  BY <1>1, <1>2, <1>3, <1>4 DEF UndisturbedOK
<1> QED
  BY <1>1, <1>5, TaskStays

LEMMA WorkStepInv ==
  ASSUME Inv, NEW t \in Threads, NEW k \in Tasks, NEW i, NEW a, NEW out, WorkStep(t, k, i, a, out),
         resumed' \in BOOLEAN, ~resumed' => ~resumed /\ ReadyOnce(t, k, i)
  PROVE  Inv'
<1>1. TypeInv'
  BY WorkRest
<1>2. \A j \in Tasks : RunsOK(j)' /\ TaskOK(j)' /\ UndisturbedOK(j)'
  BY WorkElsewhere, WorkRunsOK, WorkTaskOK, WorkUndisturbed
<1>3. \A u \in Threads : ThreadOK(u)'
  BY WorkOthers, WorkThread
<1>4. \A u, v \in Threads : AloneEarly(u, v)'
  BY WorkAlone
<1>5. OnceOK'
  BY WorkOnce
<1> QED
  BY <1>1, <1>2, <1>3, <1>4, <1>5 DEF Inv

-----------------------------------------------------------------------------
(* Every step of a workflow is ready                                       *)

LEMMA StagesApart ==
  ASSUME NEW kind \in AllKinds
  PROVE  /\ "adapter" \notin Early(kind) /\ "begin" \notin Early("skill_missing")
         /\ "idle" \notin Early(kind) /\ "idle" \notin Late(kind) /\ "idle" \notin Refusals
<1>1. "adapter" \notin Early(kind)
  BY KindSets DEF AllKinds, Tails
<1>2. "begin" \notin Early("skill_missing")
  BY KindSets DEF Tails
<1>3. "idle" \notin Early(kind) /\ "idle" \notin Late(kind) /\ "idle" \notin Refusals
  BY StageSets, NotIdle DEF Refusals
<1> QED
  BY <1>1, <1>2, <1>3

LEMMA ContinueOnce ==
  ASSUME Inv, NEW t \in Threads, NEW k \in Tasks, NEW i \in DOMAIN runs[k],
         Works(t, k, i), ~resumed
  PROVE  ReadyOnce(t, k, i)
<1>1. OnceOK
  BY DEF Inv
<1>2. th[t].pc = "call" /\ th[t].task = k /\ th[t].run = i
  BY DEF Works
<1> QED
  BY <1>1, <1>2 DEF OnceOK, ReadyOnce

LEMMA ContinueDocument ==
  ASSUME Inv, NEW t \in Threads, NEW k \in Tasks, NEW i \in DOMAIN runs[k], Works(t, k, i),
         NEW out, FitsDocument(th[t].at, out), runs[k][i].kind = "document",
         runs[k][i].gate # 0 => th[t].at \in Late("document"), k \notin disturbed
  PROVE  DocumentReady(t, k, i, out)
<1>1. UndisturbedOK(k) /\ TypeInv
  BY DEF Inv
<1>2. Len(runs[k]) = 1 /\ i = 1
  <2>1. Len(runs[k]) <= 1
    BY <1>1 DEF UndisturbedOK
  <2>2. Len(runs[k]) \in Nat /\ DOMAIN runs[k] = 1 .. Len(runs[k])
    BY <1>1, Typed
  <2>3. \A n \in Nat : n <= 1 /\ i \in 1 .. n => n = 1 /\ i = 1
    OBVIOUS
  <2> QED
    BY <2>1, <2>2, <2>3
<1>3. /\ \A u \in Threads : Works(u, k, i) => u = t
      /\ task[k].status = StatusAt[th[t].at]
      /\ runs[k][i].status \in {"running", "waiting_approval"}
  BY <1>1, <1>2 DEF UndisturbedOK
<1> QED
  BY <1>3 DEF DocumentReady, FitsDocument

LEMMA ContinueEarly ==
  ASSUME Inv, NEW t \in Threads, NEW k \in Tasks, NEW i \in DOMAIN runs[k], NEW a,
         Works(t, k, i), th[t].asked = a, runs[k][i].gate = 0, NEW v,
         NEW out \in Outcomes(runs[k][i].kind, th[t].at, v, inner[k].status)
  PROVE  Ready(t, k, i, a, out)
<1> DEFINE r == runs[k][i]
           stage == th[t].at
           asked == NowAsked(k, a, out)
<1>1. TypeInv /\ ThreadOK(t) /\ r.kind \in AllKinds
  BY Typed DEF Inv, RunRecords
<1>2. th[t].pc = "call" /\ th[t].task = k /\ th[t].run = i
  BY DEF Works
<1>3. /\ a \in 0 .. Len(approvals[k]) /\ Len(approvals[k]) \in Nat
      /\ stage \in {"gate", "proposed", "under_review"} => a # 0
      /\ stage \in Early(r.kind) /\ r.status = "running" /\ r.left = "none" /\ r.ends = 0
      /\ r.kind = "skill_missing" /\ stage \in {"search", "compose"} => inner[k].status = "none"
      /\ r.kind = "skill_missing" /\ stage = "gate" =>
           inner[k].status # "none" /\ inner[k].approval = a
  BY <1>1, <1>2, Typed DEF ThreadOK
<1>4. FitsEarly(r.kind, stage, out) /\ (r.kind = "document" => FitsDocument(stage, out))
  BY <1>1, <1>3, EarlyFits
<1>5. /\ out.task \in TaskStatus \cup {"same"} /\ out.inner \in {"same", "waiting"}
      /\ out.inner # "same" => r.kind \in {"skill_missing", "tool_call"}
      /\ out.inner = "waiting" => out.asks
      /\ out.to \in Asked => out.asks \/ stage \in Asked
      /\ \/ Proceeds(out, Early(r.kind))
         \/ EndsRun(out)
         \/ Waits(out) /\ r.kind \in Gated /\ (out.asks \/ stage = "gate")
         \/ Raises(out) /\ r.kind = "document"
  BY <1>4 DEF FitsEarly
<1>6. out.asks \/ stage \in Asked => asked # 0
  <2>1. Len(approvals[k]) + 1 # 0
    BY <1>3
  <2> QED
    BY <1>3, <2>1 DEF NowAsked, Asked
<1>7. out.to # "adapter"
  BY <1>1, <1>5, StagesApart DEF Proceeds, EndsRun, Waits, Raises
<1>8. ASSUME r.kind = "skill_missing" PROVE SkillReady(k, i, asked, out)
  <2>1. /\ out.to \in {"search", "compose"} => out.inner = "same" /\ stage \in {"begin", "search"}
        /\ out.to = "gate" <=> out.inner = "waiting"
        /\ Waits(out) => ~out.asks
    BY <1>4, <1>8 DEF FitsEarly
  <2>2. stage # "begin"
    BY <1>1, <1>3, <1>8, StagesApart
  <2>3. Waits(out) => stage = "gate"
    BY <1>5, <2>1 DEF Waits, Proceeds, EndsRun, Raises
  <2>4. Waits(out) => inner[k].status # "none" /\ inner[k].approval = asked
    BY <1>3, <1>8, <2>1, <2>3 DEF NowAsked
  <2> QED
    BY <1>3, <1>5, <1>8, <2>1, <2>2, <2>4 DEF SkillReady
<1>9. \A u \in Threads : Works(u, k, i) => u = t
  BY DEF Inv, AloneEarly
<1>10. k \notin disturbed /\ r.kind = "document" => DocumentReady(t, k, i, out)
  BY <1>4, ContinueDocument
<1>11. out.to \in Asked => asked # 0
  BY <1>5, <1>6
<1>12. out.inner = "waiting" => asked # 0
  BY <1>5, <1>6
<1>13. Waits(out) /\ (out.asks \/ stage = "gate") => asked # 0
  BY <1>6 DEF Asked
<1> QED
  BY <1>3, <1>5, <1>7, <1>8, <1>9, <1>10, <1>11, <1>12, <1>13 DEF Ready

LEMMA ContinueLate ==
  ASSUME Inv, NEW t \in Threads, NEW k \in Tasks, NEW i \in DOMAIN runs[k], NEW a,
         Works(t, k, i), th[t].asked = a, runs[k][i].gate # 0, NEW v,
         NEW out \in Outcomes(runs[k][i].kind, th[t].at, v, inner[k].status)
  PROVE  Ready(t, k, i, a, out)
<1> DEFINE r == runs[k][i]
           stage == th[t].at
           asked == NowAsked(k, a, out)
<1>1. TypeInv /\ ThreadOK(t) /\ r.kind \in AllKinds
  BY Typed DEF Inv, RunRecords
<1>2. th[t].pc = "call" /\ th[t].task = k /\ th[t].run = i
  BY DEF Works
<1>3. /\ a \in 0 .. Len(approvals[k]) /\ Len(approvals[k]) \in Nat
      /\ stage \in {"gate", "proposed", "under_review"} => a # 0
      /\ stage \in Late(r.kind) /\ (stage \notin Refusals => Consented(k, i))
      /\ stage = "adapter" => inner[k].status # "none"
  BY <1>1, <1>2, Typed DEF ThreadOK
<1>4. FitsLate(r.kind, stage, out) /\ (r.kind = "document" => FitsDocument(stage, out))
  BY <1>1, <1>3, LateFits
<1>5. /\ out.task \in TaskStatus \cup {"same"}
      /\ out.inner # "same" => r.kind = "tool_call" /\ stage = "adapter" /\ out.inner = "done"
      /\ out.to \in Asked => out.asks \/ stage \in Asked
      /\ out.to # "adapter"
      /\ r.kind = "skill_missing" => out.to \notin {"search", "compose", "gate"}
      /\ \/ Proceeds(out, Late(r.kind))
         \/ EndsRun(out)
         \/ Raises(out) /\ r.kind = "document"
  BY <1>4 DEF FitsLate
<1>6. out.to \in Asked => asked # 0
  <2>1. Len(approvals[k]) + 1 # 0
    BY <1>3
  <2> QED
    BY <1>3, <1>5, <2>1 DEF NowAsked, Asked
<1>7. ~Waits(out)
  BY <1>5 DEF Waits, Proceeds, EndsRun, Raises
<1>8. r.kind = "skill_missing" => SkillReady(k, i, asked, out)
  BY <1>5, <1>7 DEF SkillReady
<1>9. out.to \notin Refusals \cup {"idle"} => Consented(k, i)
  BY <1>3, <1>4 DEF FitsLate, EndsRun
<1>10. EndsRun(out) /\ out.task \in {"completed", "needs_approval"} => Consented(k, i)
  <2>1. EndsRun(out) => out.to \notin Refusals
    BY <1>1, StagesApart DEF EndsRun
  <2> QED
    BY <1>3, <1>4, <2>1 DEF FitsLate
<1>11. k \notin disturbed /\ r.kind = "document" => DocumentReady(t, k, i, out)
  BY <1>3, <1>4, ContinueDocument
<1> QED
  BY <1>3, <1>5, <1>6, <1>8, <1>9, <1>10, <1>11 DEF Ready

LEMMA AllowsConsent ==
  ASSUME Inv, NEW k \in Tasks, NEW i \in DOMAIN runs[k], runs[k][i].status = "waiting_approval",
         task[k].approval # 0, Allows(runs[k][i].kind, k)
  PROVE  Consented(k, i)
<1> DEFINE r == runs[k][i]
           yes == IF r.kind = "approval" THEN {"approved", "modified"} ELSE {"approved"}
<1>1. TypeInv /\ RunsOK(k) /\ TaskOK(k)
  BY DEF Inv
<1>2. r.gate # 0 /\ DOMAIN approvals[k] = 1 .. Len(approvals[k]) /\ Len(approvals[k]) \in Nat
  BY <1>1, Typed DEF RunsOK
<1>3. Len(runs[k]) = 1 => i = 1
  BY <1>1, Typed
<1>4. CASE r.kind # "skill_missing"
  <2>1. approvals[k][task[k].approval] \in yes
    BY <1>4 DEF Allows
  <2>2. Len(runs[k]) = 1 => task[k].approval = r.gate
    BY <1>1, <1>3 DEF TaskOK
  <2>3. task[k].approval \in DOMAIN approvals[k]
    BY <1>1, <1>2 DEF TaskOK
  <2> QED
    BY <2>1, <2>2, <2>3 DEF Consented
<1>5. CASE r.kind = "skill_missing"
  <2>1. HasRun(k, "skill_missing")
    BY <1>5 DEF HasRun
  <2>2. inner[k].status = "done" => Cleared(k)
    BY <1>1, <2>1 DEF TaskOK
  <2>3. \/ inner[k].status = "done"
        \/ inner[k].status = "waiting" /\ approvals[k][inner[k].approval] = "approved"
    BY <1>5 DEF Allows
  <2>4. Len(runs[k]) = 1 => inner[k].approval = r.gate
    BY <1>1, <1>2, <1>3, <1>5 DEF TaskOK
  <2>5. inner[k].status # "none" => inner[k].approval \in DOMAIN approvals[k]
    BY <1>1, <1>2 DEF TaskOK
  <2>6. CASE Len(runs[k]) = 1
    <3>1. approvals[k][r.gate] = "approved"
      BY <2>2, <2>3, <2>4, <2>6 DEF Cleared
    <3> QED
      BY <1>5, <2>6, <3>1 DEF Consented
  <2>7. CASE Len(runs[k]) # 1
    <3>1. \E b \in DOMAIN approvals[k] : approvals[k][b] = "approved"
      BY <2>2, <2>3, <2>5, <2>7 DEF Cleared
    <3> QED
      BY <1>5, <2>7, <3>1 DEF Consented
  <2> QED
    BY <2>6, <2>7
<1> QED
  BY <1>4, <1>5

LEMMA WaitingAlone ==
  ASSUME Inv, NEW k \in Tasks, NEW i \in DOMAIN runs[k], k \notin disturbed,
         task[k].status = "needs_approval", runs[k][i].kind = "document",
         NEW u \in Threads
  PROVE  ~Works(u, k, i)
<1>1. UndisturbedOK(k) /\ TypeInv /\ ThreadOK(u)
  BY DEF Inv
<1>2. Len(runs[k]) = 1 /\ i = 1
  <2>1. Len(runs[k]) <= 1
    BY <1>1 DEF UndisturbedOK
  <2>2. Len(runs[k]) \in Nat /\ DOMAIN runs[k] = 1 .. Len(runs[k])
    BY <1>1, Typed
  <2>3. \A n \in Nat : n <= 1 /\ i \in 1 .. n => n = 1 /\ i = 1
    OBVIOUS
  <2> QED
    BY <2>1, <2>2, <2>3
<1>3. SUFFICES ASSUME Works(u, k, i) PROVE FALSE
  OBVIOUS
<1>4. task[k].status = StatusAt[th[u].at]
  BY <1>1, <1>2, <1>3 DEF UndisturbedOK
<1>5. th[u].at \in Early("document") \cup Late("document")
  BY <1>1, <1>3 DEF ThreadOK, Works
<1>6. th[u].at \in {"plan", "assign", "write", "risk", "quality"}
  BY <1>5, KindSets
<1> QED
  BY <1>4, <1>6 DEF StatusAt

LEMMA ResumeReady ==
  ASSUME Inv, NEW t \in Threads, NEW k \in Tasks, NEW i, i = Resumable(k),
         NEW out \in ResumeOutcomes(k), th[t].pc \in {"idle", "decided"}
  PROVE  Ready(t, k, i, 0, out)
<1> DEFINE r == runs[k][i]
           asked == NowAsked(k, 0, out)
<1>1. TypeInv /\ RunsOK(k) /\ TaskOK(k)
  BY DEF Inv
<1>2. /\ i \in DOMAIN runs[k] /\ r.status = "waiting_approval"
      /\ task[k].status = "needs_approval" /\ task[k].approval # 0
      /\ FitsResume(r.kind, k, out)
  BY <1>1, ResumeFits
<1>3. /\ r.gate # 0 /\ Len(approvals[k]) \in Nat /\ 0 \in 0 .. Len(approvals[k])
      /\ r.kind \in AllKinds
  BY <1>1, <1>2, Typed DEF RunsOK, RunRecords
<1>4. /\ out.task \in TaskStatus \cup {"same"}
      /\ \/ Proceeds(out, Late(r.kind))
         \/ EndsRun(out) /\ out.task \notin {"completed", "needs_approval"}
      /\ out.to \in Asked => out.asks
      /\ out.inner \in {"same", "done", "refused"}
      /\ out.inner # "same" => r.kind \in {"skill_missing", "tool_call"} /\ inner[k].status = "waiting"
      /\ out.inner = "done" => approvals[k][inner[k].approval] = "approved"
      /\ r.kind = "document" => out.to = "write" /\ out.task = "executing"
      /\ r.kind = "skill_missing" => out.to \notin {"search", "compose", "gate"}
      /\ out.to = "adapter" => inner[k].status = "waiting"
      /\ out.to \notin Refusals \cup {"idle"} => Allows(r.kind, k)
  BY <1>2 DEF FitsResume
<1>5. ~Waits(out)
  BY <1>4 DEF Waits, Proceeds, EndsRun
<1>6. out.to \in Asked => asked # 0
  <2>1. Len(approvals[k]) + 1 # 0
    BY <1>3
  <2> QED
    BY <1>4, <2>1 DEF NowAsked
<1>7. ASSUME r.kind = "skill_missing" PROVE SkillReady(k, i, asked, out)
  <2>1. inner[k].status # "none" => inner[k].approval # 0
    BY <1>1 DEF TaskOK
  <2> QED
    BY <1>4, <1>5, <1>7, <2>1 DEF SkillReady
<1>8. out.to \notin Refusals \cup {"idle"} => Consented(k, i)
  BY <1>2, <1>4, AllowsConsent
<1>9. ASSUME k \notin disturbed, r.kind = "document" PROVE DocumentReady(t, k, i, out)
  <2>1. \A u \in Threads : ~Works(u, k, i)
    BY <1>2, <1>9, WaitingAlone
  <2>2. Keep(task[k].status, out.task) = StatusAt[out.to] /\ out.to # "idle"
    BY <1>4, <1>9 DEF Keep, StatusAt
  <2>3. ~Raises(out)
    BY <2>2 DEF Raises
  <2> QED
    BY <1>2, <2>1, <2>2, <2>3 DEF DocumentReady
<1>10. ~(EndsRun(out) /\ out.task \in {"completed", "needs_approval"})
  BY <1>4 DEF Proceeds, EndsRun
<1> QED
  BY <1>2, <1>3, <1>4, <1>5, <1>6, <1>7, <1>8, <1>9, <1>10 DEF Ready

LEMMA ResumeOnce ==
  ASSUME Inv, NEW t \in Threads, NEW k \in Tasks, NEW i \in DOMAIN runs[k],
         runs[k][i].status = "waiting_approval", th[t].pc = "decided", ~resumed
  PROVE  ReadyOnce(t, k, i)
<1>1. lock = t /\ OnceOK
  BY DEF Inv, ThreadOK
<1>2. ASSUME NEW u \in Threads, Works(u, k, i) PROVE u = t
  <2>1. th[u].pc = "call" /\ th[u].task = k /\ th[u].run = i
    BY <1>2 DEF Works
  <2>2. lock = u
    BY <1>1, <2>1 DEF OnceOK
  <2> QED
    BY <1>1, <2>2
<1> QED
  BY <1>1, <1>2 DEF ReadyOnce

-----------------------------------------------------------------------------
(* A request starts a run                                                  *)

BeginStep(t, k, kind, out) ==
  /\ th[t].pc = "idle"
  /\ kind \in AllKinds /\ out \in Flow[kind]["begin"]
  /\ NeedsNewTask(kind) => \A i \in DOMAIN runs[k] : runs[k][i].kind = "document"
  /\ Takes(t, k, Append(runs[k], NewRun(kind)), Len(runs[k]) + 1, 0, out)
  /\ disturbed' = IF runs[k] = << >> THEN disturbed ELSE disturbed \cup {k}
  /\ resumed' = resumed

LEMMA BeginOut ==
  ASSUME NEW kind \in AllKinds, NEW out, FitsBegin(kind, out)
  PROVE  /\ out.task \in TaskStatus \cup {"same"} /\ out.inner = "same" /\ ~Waits(out)
         /\ out.to \in Stages \cup {"idle"}
         /\ \/ EndsRun(out) /\ out.to = "idle"
            \/ /\ out.run = "same" /\ out.to # "idle" /\ out.to \in Early(kind)
            \/ /\ out.run = "same" /\ out.to = "idle" /\ Raises(out) /\ kind = "document"
<1>1. /\ out.task \in TaskStatus \cup {"same"} /\ out.inner = "same" /\ ~Waits(out)
      /\ Proceeds(out, Early(kind)) \/ EndsRun(out) \/ (Raises(out) /\ kind = "document")
  BY DEF FitsBegin, FitsEarly
<1>2. Proceeds(out, Early(kind)) => out.to # "idle" /\ out.run = "same" /\ out.to \in Early(kind)
  BY StagesApart DEF Proceeds
<1>3. /\ EndsRun(out) => out.to = "idle"
      /\ Raises(out) => out.to = "idle" /\ out.run = "same"
  BY DEF EndsRun, Raises
<1> QED
  BY <1>1, <1>2, <1>3, StageSets

LEMMA NewRunFields ==
  ASSUME NEW kind \in AllKinds
  PROVE  LET r == NewRun(kind) IN
         /\ r \in RunRecords /\ r.kind = kind /\ r.status = "running" /\ r.gate = 0
         /\ r.ends = 0 /\ r.left = "none"
BY DEF NewRun, RunRecords, RunStatus

LEMMA BeginRuns ==
  ASSUME Inv, NEW t \in Threads, NEW k \in Tasks, NEW kind, NEW out, BeginStep(t, k, kind, out)
  PROVE  LET n == Len(runs[k]) + 1
             q == runs'[k][n] IN
         /\ runs' \in [Tasks -> Seq(RunRecords)]
         /\ \A j \in Tasks : j # k => runs'[j] = runs[j]
         /\ n \in Nat /\ n \notin DOMAIN runs[k]
         /\ Len(runs'[k]) = n /\ DOMAIN runs'[k] = DOMAIN runs[k] \cup {n}
         /\ \A j \in DOMAIN runs[k] : runs'[k][j] = runs[k][j]
         /\ q.kind = kind /\ q.gate = 0
         /\ EndsRun(out) => q.status = out.run /\ q.ends = 1
         /\ out.run = "same" => q.status = "running" /\ q.ends = 0 /\ q.left = "none"
<1> DEFINE n == Len(runs[k]) + 1
           new == NewRun(kind)
           rs == Append(runs[k], new)
           asked == NowAsked(k, 0, out)
<1>1. TypeInv /\ kind \in AllKinds /\ FitsBegin(kind, out) /\ Takes(t, k, rs, n, 0, out)
  BY BeginFits DEF Inv, BeginStep
<1>2. new \in RunRecords /\ new.kind = kind /\ new.status = "running" /\ new.gate = 0
      /\ new.ends = 0 /\ new.left = "none"
  BY <1>1, NewRunFields
<1>3. runs[k] \in Seq(RunRecords) /\ Len(runs[k]) \in Nat /\ DOMAIN runs[k] = 1 .. Len(runs[k])
  BY <1>1, Typed
<1>4. /\ rs \in Seq(RunRecords) /\ Len(rs) = n /\ DOMAIN rs = DOMAIN runs[k] \cup {n}
      /\ rs[n] = new /\ n \in DOMAIN rs /\ n \notin DOMAIN runs[k] /\ n \in Nat
      /\ \A j \in DOMAIN runs[k] : rs[j] = runs[k][j]
  <2> HIDE DEF new
  <2> QED
    BY <1>2, <1>3
<1>5. /\ out.task \in TaskStatus \cup {"same"} /\ ~Waits(out)
      /\ EndsRun(out) \/ out.run = "same"
  BY <1>1, BeginOut
<1>6. 0 \in Nat /\ asked \in Nat
  BY <1>1, Typed DEF NowAsked
<1>7. PICK ss \in Seq(RunRecords), m \in Nat : ss = rs /\ m = n
  BY <1>4
<1>8. Takes(t, k, ss, m, 0, out)
  BY <1>1, <1>7
<1> HIDE DEF rs, n, new, asked
<1>9. /\ runs' \in [Tasks -> Seq(RunRecords)]
      /\ \A j \in Tasks : j # k => runs'[j] = runs[j]
      /\ Len(runs'[k]) = Len(ss) /\ DOMAIN runs'[k] = DOMAIN ss
      /\ \A j \in DOMAIN ss : j # m => runs'[k][j] = ss[j]
      /\ runs'[k][m] = RunAfter(ss[m], out, NowAsked(k, 0, out))
  <2>1. m \in DOMAIN ss
    BY <1>4, <1>7
  <2> QED
    BY <1>1, <1>5, <1>6, <1>8, <2>1, TakesRuns
<1>10. LET q == RunAfter(new, out, asked) IN
      /\ q.kind = kind /\ q.gate = 0
      /\ EndsRun(out) => q.status = out.run /\ q.ends = 1
      /\ out.run = "same" => q.status = "running" /\ q.ends = 0 /\ q.left = "none"
  BY <1>2, <1>5, <1>6, RunAfterFields
<1> QED
  BY <1>4, <1>7, <1>9, <1>10 DEF n, asked

LEMMA SameInner ==
  ASSUME NEW p \in InnerRecords, NEW q \in InnerRecords,
         p.status = q.status, p.approval = q.approval
  PROVE  p = q
BY DEF InnerRecords

LEMMA BeginRest ==
  ASSUME Inv, NEW t \in Threads, NEW k \in Tasks, NEW kind, NEW out, BeginStep(t, k, kind, out)
  PROVE  LET asked == NowAsked(k, 0, out) IN
         /\ kind \in AllKinds /\ FitsBegin(kind, out)
         /\ approvals' \in [Tasks -> Seq(Final \cup Undecided)]
         /\ inner' = inner
         /\ \A j \in Tasks : j # k => approvals'[j] = approvals[j] /\ task'[j] = task[j]
         /\ Len(approvals[k]) <= Len(approvals'[k])
         /\ \A b \in DOMAIN approvals[k] :
              b \in DOMAIN approvals'[k] /\ approvals'[k][b] = approvals[k][b]
         /\ asked \in 0 .. Len(approvals'[k]) /\ (out.asks => asked # 0)
         /\ task'[k].status = Keep(task[k].status, out.task)
         /\ task'[k].approval = IF out.links THEN asked ELSE task[k].approval
         /\ \A u \in Threads : u # t => th'[u] = th[u]
         /\ out.to = "idle" => th'[t] = Idle
         /\ out.to # "idle" =>
              /\ th'[t].pc = "call" /\ th'[t].task = k /\ th'[t].run = Len(runs[k]) + 1
              /\ th'[t].at = out.to /\ th'[t].asked = asked
         /\ lock' = lock \/ (lock' = NoThread /\ lock = t)
         /\ TypeInv'
<1> DEFINE n == Len(runs[k]) + 1
           rs == Append(runs[k], NewRun(kind))
<1>1. /\ TypeInv /\ kind \in AllKinds /\ FitsBegin(kind, out) /\ Takes(t, k, rs, n, 0, out)
      /\ disturbed' \subseteq Tasks /\ resumed' \in BOOLEAN
  BY BeginFits DEF Inv, BeginStep, TypeInv
<1>2. /\ out.task \in TaskStatus \cup {"same"} /\ out.inner = "same"
      /\ out.to \in Stages \cup {"idle"}
  BY <1>1, BeginOut
<1>3. Len(approvals[k]) \in Nat /\ n \in Nat
  BY <1>1, Typed
<1>4. 0 \in 0 .. Len(approvals[k]) /\ 0 \in Nat
  BY <1>3
<1>5. PICK ss \in {rs}, m \in Nat, a \in 0 .. Len(approvals[k]) : m = n /\ a = 0
  BY <1>3, <1>4
<1>6. Takes(t, k, ss, m, a, out)
  BY <1>1, <1>5
<1> HIDE DEF rs, n
<1>7. /\ approvals' \in [Tasks -> Seq(Final \cup Undecided)]
      /\ \A j \in Tasks : j # k => approvals'[j] = approvals[j]
      /\ Len(approvals[k]) <= Len(approvals'[k])
      /\ \A b \in DOMAIN approvals[k] :
           b \in DOMAIN approvals'[k] /\ approvals'[k][b] = approvals[k][b]
      /\ NowAsked(k, 0, out) \in 0 .. Len(approvals'[k])
      /\ out.asks => NowAsked(k, 0, out) # 0
  <2>1. TypeInv /\ Takes(t, k, ss, m, a, out) /\ a \in 0 .. Len(approvals[k])
    BY <1>1, <1>6
  <2>2. /\ approvals' \in [Tasks -> Seq(Final \cup Undecided)]
        /\ \A j \in Tasks : j # k => approvals'[j] = approvals[j]
        /\ Len(approvals[k]) <= Len(approvals'[k])
        /\ \A b \in DOMAIN approvals[k] :
             b \in DOMAIN approvals'[k] /\ approvals'[k][b] = approvals[k][b]
        /\ NowAsked(k, a, out) \in 0 .. Len(approvals'[k])
    BY <2>1, TakesApprovals
  <2>3. out.asks => NowAsked(k, a, out) # 0
    BY <1>3 DEF NowAsked
  <2> QED
    BY <1>5, <2>2, <2>3
<1>8. /\ task' \in [Tasks -> TaskRecords] /\ inner' \in [Tasks -> InnerRecords]
      /\ \A j \in Tasks : j # k => task'[j] = task[j] /\ inner'[j] = inner[j]
      /\ task'[k].status = Keep(task[k].status, out.task)
      /\ task'[k].approval = IF out.links THEN NowAsked(k, 0, out) ELSE task[k].approval
      /\ inner'[k].status = Keep(inner[k].status, out.inner)
      /\ inner'[k].approval = IF out.inner = "waiting" THEN NowAsked(k, 0, out)
                              ELSE inner[k].approval
  BY <1>1, <1>2, <1>4, <1>6, TakesTask
<1>9. /\ th' \in [Threads -> {Idle} \cup Calls \cup Decided \cup AtTool]
      /\ \A u \in Threads : u # t => th'[u] = th[u]
      /\ out.to = "idle" => th'[t] = Idle
      /\ out.to # "idle" =>
           /\ th'[t].pc = "call" /\ th'[t].task = k /\ th'[t].run = n /\ th'[t].at = out.to
           /\ th'[t].asked = NowAsked(k, 0, out)
      /\ lock' \in Threads \cup {NoThread}
      /\ lock' = lock \/ (lock' = NoThread /\ lock = t /\ out.to = "idle")
  BY <1>1, <1>2, <1>4, <1>5, <1>6, TakesThread
<1>10. inner' = inner
  <2>1. inner \in [Tasks -> InnerRecords]
    BY <1>1 DEF TypeInv
  <2>2. inner'[k].status = inner[k].status /\ inner'[k].approval = inner[k].approval
    BY <1>2, <1>8 DEF Keep
  <2>3. inner'[k] = inner[k]
    BY <1>8, <2>1, <2>2, SameInner
  <2> QED
    BY <1>8, <2>1, <2>3
<1>11. runs' \in [Tasks -> Seq(RunRecords)]
  BY BeginRuns
<1>12. TypeInv'
  BY <1>1, <1>7, <1>8, <1>9, <1>11 DEF TypeInv
<1> QED
  BY <1>1, <1>7, <1>8, <1>9, <1>10, <1>12 DEF n

LEMMA BeginMonotone ==
  ASSUME Inv, NEW t \in Threads, NEW k \in Tasks, NEW kind, NEW out, BeginStep(t, k, kind, out)
  PROVE  \A j \in Tasks : Monotone(j)
<1>1. inner' = inner
  BY BeginRest
<1>2. ASSUME NEW j \in Tasks, j # k PROVE Monotone(j)
  <2>1. runs'[j] = runs[j] /\ approvals'[j] = approvals[j]
    BY <1>2, BeginRuns, BeginRest
  <2>2. Len(runs[j]) \in Nat
    BY Typed DEF Inv
  <2> QED
    BY <1>1, <2>1, <2>2 DEF Monotone
<1>3. Monotone(k)
  <2>1. /\ DOMAIN runs[k] \subseteq DOMAIN runs'[k]
        /\ \A j \in DOMAIN runs[k] : runs'[k][j] = runs[k][j]
    BY BeginRuns
  <2>2. \A b \in DOMAIN approvals[k] : b \in DOMAIN approvals'[k] /\ approvals'[k][b] = approvals[k][b]
    BY BeginRest
  <2>3. Len(runs[k]) <= Len(runs'[k])
    <3>1. Len(runs'[k]) = Len(runs[k]) + 1
      BY BeginRuns
    <3>2. Len(runs[k]) \in Nat
      BY Typed DEF Inv
    <3> QED
      BY <3>1, <3>2
  <2> QED
    BY <1>1, <2>1, <2>2, <2>3 DEF Monotone
<1> QED
  BY <1>2, <1>3

LEMMA BeginRunsOK ==
  ASSUME Inv, NEW t \in Threads, NEW k \in Tasks, NEW kind, NEW out, BeginStep(t, k, kind, out)
  PROVE  RunsOK(k)'
<1> DEFINE n == Len(runs[k]) + 1
           q == runs'[k][n]
<1>1. TypeInv /\ RunsOK(k) /\ Monotone(k)
  BY BeginMonotone DEF Inv
<1>2. /\ DOMAIN runs'[k] = DOMAIN runs[k] \cup {n} /\ runs' \in [Tasks -> Seq(RunRecords)]
      /\ \A j \in DOMAIN runs[k] : runs'[k][j] = runs[k][j]
      /\ q.kind = kind /\ q.gate = 0
      /\ EndsRun(out) => q.status = out.run
      /\ out.run = "same" => q.status = "running"
  BY BeginRuns
<1>3. /\ Len(approvals[k]) <= Len(approvals'[k]) /\ Len(approvals'[k]) \in Nat /\ Len(approvals[k]) \in Nat
      /\ FitsBegin(kind, out) /\ kind \in AllKinds
  <2>1. approvals'[k] \in Seq(Final \cup Undecided)
    BY BeginRest
  <2> QED
    BY <1>1, <2>1, BeginRest, Typed
<1>4. ASSUME NEW j \in DOMAIN runs[k], runs[k][j].gate # 0, Consented(k, j) PROVE Consented(k, j)'
  <2>1. runs[k][j].gate \in 1 .. Len(approvals[k])
    BY <1>1, <1>3, <1>4 DEF RunsOK
  <2> QED
    BY <1>1, <1>2, <1>4, <2>1, ConsentStays
<1>5. ASSUME NEW j \in DOMAIN runs[k]
      PROVE  LET r == runs'[k][j] IN
             /\ r.gate \in 0 .. Len(approvals'[k])
             /\ r.status = "waiting_approval" => r.gate # 0
             /\ r.gate # 0 => r.kind \in Gated
             /\ r.gate # 0 /\ r.left \in {"completed", "needs_approval"} => Consented(k, j)'
  BY <1>1, <1>2, <1>3, <1>4 DEF RunsOK
<1>6. /\ q.gate \in 0 .. Len(approvals'[k]) /\ q.gate = 0
      /\ q.status # "waiting_approval"
  <2>1. EndsRun(out) \/ out.run = "same"
    BY <1>3, BeginOut
  <2> QED
    BY <1>2, <1>3, <2>1 DEF EndsRun
<1>7. \A j, m \in DOMAIN runs'[k] :
        runs'[k][j].kind # "document" /\ runs'[k][m].kind # "document" => j = m
  <2>1. CASE kind = "document"
    BY <1>1, <1>2, <2>1 DEF RunsOK
  <2>2. CASE kind # "document"
    <3>1. \A j \in DOMAIN runs[k] : runs[k][j].kind = "document"
      BY <2>2 DEF BeginStep, NeedsNewTask
    <3> QED
      BY <1>2, <3>1
  <2> QED
    BY <2>1, <2>2
<1> QED
  BY <1>2, <1>5, <1>6, <1>7 DEF RunsOK

LEMMA BeginTaskOK ==
  ASSUME Inv, NEW t \in Threads, NEW k \in Tasks, NEW kind, NEW out, BeginStep(t, k, kind, out)
  PROVE  TaskOK(k)'
<1> DEFINE n == Len(runs[k]) + 1
           q == runs'[k][n]
<1>1. TypeInv /\ TaskOK(k) /\ RunsOK(k)' /\ Monotone(k) /\ inner' = inner
  BY BeginRunsOK, BeginMonotone, BeginRest DEF Inv
<1>2. /\ task'[k].approval \in 0 .. Len(approvals'[k])
      /\ inner[k].approval \in 0 .. Len(approvals'[k])
  <2>1. approvals'[k] \in Seq(Final \cup Undecided) /\ Len(approvals[k]) <= Len(approvals'[k])
    BY BeginRest
  <2>2. Len(approvals'[k]) \in Nat /\ Len(approvals[k]) \in Nat
    BY <1>1, <2>1, Typed
  <2>3. task'[k].approval \in {NowAsked(k, 0, out), task[k].approval}
        /\ NowAsked(k, 0, out) \in 0 .. Len(approvals'[k])
    BY BeginRest
  <2> QED
    BY <1>1, <2>1, <2>2, <2>3 DEF TaskOK
<1>3. /\ inner[k].status # "none" => inner[k].approval # 0
      /\ inner[k].status # "none" => HasRun(k, "skill_missing")' \/ HasRun(k, "tool_call")'
  BY <1>1, KindsStay DEF TaskOK
<1>4. ASSUME inner[k].status = "done", HasRun(k, "skill_missing")' PROVE Cleared(k)'
  <2>1. HasRun(k, "skill_missing") \/ HasRun(k, "tool_call")
    BY <1>1, <1>4 DEF TaskOK
  <2>2. HasRun(k, "skill_missing")
    <3>1. CASE kind = "skill_missing"
      <4>1. \A j \in DOMAIN runs[k] : runs[k][j].kind = "document"
        BY <3>1 DEF BeginStep, NeedsNewTask
      <4> QED
        BY <2>1, <4>1 DEF HasRun
    <3>2. CASE kind # "skill_missing"
      <4>1. PICK j \in DOMAIN runs'[k] : runs'[k][j].kind = "skill_missing"
        BY <1>4 DEF HasRun
      <4>2. j \in DOMAIN runs[k] /\ runs[k][j].kind = "skill_missing"
        BY <3>2, <4>1, BeginRuns
      <4> QED
        BY <4>2 DEF HasRun
    <3> QED
      BY <3>1, <3>2
  <2>3. Cleared(k) /\ inner[k].approval # 0
    BY <1>1, <1>4, <2>2 DEF TaskOK
  <2>4. runs[k] # << >>
    BY <2>2 DEF HasRun
  <2>5. inner'[k].approval = inner[k].approval /\ inner[k].approval \in 0 .. Len(approvals[k])
    BY <1>1 DEF TaskOK
  <2> QED
    BY <1>1, <2>3, <2>4, <2>5, ClearedStays, BeginRuns
<1>5. ASSUME Len(runs'[k]) = 1
      PROVE  runs'[k][1].gate = 0 /\ runs'[k][1].status # "waiting_approval"
  <2>1. n = 1
    BY <1>5, BeginRuns
  <2>2. q.gate = 0 /\ n \in DOMAIN runs'[k]
    BY BeginRuns
  <2>3. q.status = "waiting_approval" => q.gate # 0
    BY <1>1, <2>2 DEF RunsOK
  <2> QED
    BY <2>1, <2>2, <2>3
<1> QED
  BY <1>1, <1>2, <1>3, <1>4, <1>5 DEF TaskOK

LEMMA BeginOthers ==
  ASSUME Inv, NEW t \in Threads, NEW k \in Tasks, NEW kind, NEW out, BeginStep(t, k, kind, out),
         NEW u \in Threads, u # t
  PROVE  ThreadOK(u)'
<1>1. TypeInv /\ ThreadOK(u) /\ inner' = inner
  BY BeginRest DEF Inv
<1>2. /\ runs' \in [Tasks -> Seq(RunRecords)] /\ approvals' \in [Tasks -> Seq(Final \cup Undecided)]
      /\ th'[u] = th[u]
  BY BeginRuns, BeginRest
<1>3. ASSUME th[u].pc = "call" PROVE RunKept(th[u].task, th[u].run)
  <2>1. th[u].task \in Tasks /\ th[u].run \in Nat /\ th[u].run \in DOMAIN runs[th[u].task]
    BY <1>1, <1>3, ThreadShape DEF Calls, ThreadOK
  <2>2. PICK j \in Tasks, m \in Nat : j = th[u].task /\ m = th[u].run
    BY <2>1
  <2>3. runs'[j][m] = runs[j][m]
    <3>1. m \in DOMAIN runs[j]
      BY <2>1, <2>2
    <3>2. j = k => runs'[j][m] = runs[j][m]
      BY <3>1, BeginRuns
    <3>3. j # k => runs'[j][m] = runs[j][m]
      BY BeginRuns
    <3> QED
      BY <3>2, <3>3
  <2> QED
    BY <1>1, <2>2, <2>3 DEF RunKept
<1>4. th[u].pc = "decided" => lock' = lock
  BY <1>1, BeginRest DEF ThreadOK
<1> QED
  BY <1>2, <1>3, <1>4, ThreadStays, BeginMonotone

LEMMA BeginThread ==
  ASSUME Inv, NEW t \in Threads, NEW k \in Tasks, NEW kind, NEW out, BeginStep(t, k, kind, out)
  PROVE  ThreadOK(t)'
<1> DEFINE n == Len(runs[k]) + 1
           q == runs'[k][n]
           w == th'[t]
           asked == NowAsked(k, 0, out)
<1>1. CASE out.to = "idle"
  <2>1. th'[t].pc = "idle"
    BY <1>1, BeginRest DEF Idle
  <2> QED
    BY <2>1 DEF ThreadOK
<1>2. CASE out.to # "idle"
  <2>1. kind \in AllKinds /\ FitsBegin(kind, out) /\ TaskOK(k) /\ inner' = inner
    BY BeginRest DEF Inv
  <2>2. /\ w.pc = "call" /\ w.task = k /\ w.run = n /\ w.at = out.to /\ w.asked = asked
        /\ asked \in 0 .. Len(approvals'[k]) /\ (out.asks => asked # 0)
    BY <1>2, BeginRest
  <2>3. out.run = "same" /\ out.to \in Early(kind) /\ out.inner = "same"
    BY <1>2, <2>1, BeginOut
  <2>4. /\ q.kind = kind /\ q.gate = 0 /\ q.status = "running" /\ q.ends = 0 /\ q.left = "none"
        /\ n \in DOMAIN runs'[k]
    BY <2>3, BeginRuns
  <2>5. FitsEarly(kind, "begin", out)
    BY <2>1 DEF FitsBegin
  <2>6. w.at \in {"gate", "proposed", "under_review"} => asked # 0
    BY <2>2, <2>5 DEF FitsEarly, Asked
  <2>7. kind = "skill_missing" => w.at # "gate"
    BY <2>2, <2>3, <2>5 DEF FitsEarly
  <2>8. kind = "skill_missing" => inner[k].status = "none"
    <3>1. kind = "skill_missing" => \A j \in DOMAIN runs[k] : runs[k][j].kind = "document"
      BY DEF BeginStep, NeedsNewTask
    <3> QED
      BY <2>1, <3>1 DEF TaskOK, HasRun
  <2>9. w.at # "adapter"
    BY <2>1, <2>2, <2>3, StagesApart
  <2> QED
    BY <2>1, <2>2, <2>3, <2>4, <2>6, <2>7, <2>8, <2>9 DEF ThreadOK
<1> QED
  BY <1>1, <1>2

LEMMA BeginWorks ==
  ASSUME Inv, NEW t \in Threads, NEW k \in Tasks, NEW kind, NEW out, BeginStep(t, k, kind, out)
  PROVE  LET n == Len(runs[k]) + 1 IN
         /\ \A u \in Threads : \A j, m : u # t => (Works(u, j, m)' <=> Works(u, j, m))
         /\ \A j, m : Works(t, j, m)' => j = k /\ m = n /\ out.to # "idle"
         /\ \A m : m = n /\ out.to # "idle" => Works(t, k, m)'
         /\ \A j, m : ~Works(t, j, m)
         /\ \A u \in Threads : ~Works(u, k, n)
<1> DEFINE n == Len(runs[k]) + 1
<1>1. \A u \in Threads : u # t => th'[u] = th[u]
  BY BeginRest
<1>2. /\ out.to = "idle" => th'[t].pc = "idle"
      /\ out.to # "idle" => th'[t].pc = "call" /\ th'[t].task = k /\ th'[t].run = n
  BY BeginRest DEF Idle
<1>3. th[t].pc = "idle"
  BY DEF BeginStep
<1>4. \A u \in Threads : ~Works(u, k, n)
  <2>1. n \notin DOMAIN runs[k]
    BY BeginRuns
  <2> QED
    BY <2>1 DEF Inv, ThreadOK, Works
<1>5. \A j, m : Works(t, j, m)' => j = k /\ m = n /\ out.to # "idle"
  BY <1>2 DEF Works
<1>6. \A m : m = n /\ out.to # "idle" => Works(t, k, m)'
  BY <1>2 DEF Works
<1>7. \A j, m : ~Works(t, j, m)
  BY <1>3 DEF Works
<1>8. \A u \in Threads : \A j, m : u # t => (Works(u, j, m)' <=> Works(u, j, m))
  BY <1>1 DEF Works
<1> QED
  BY <1>4, <1>5, <1>6, <1>7, <1>8

\* Two threads that are at the same run were so before.
LEMMA BeginTwo ==
  ASSUME Inv, NEW t \in Threads, NEW k \in Tasks, NEW kind, NEW out, BeginStep(t, k, kind, out),
         NEW u \in Threads, NEW v \in Threads, NEW j \in Tasks, NEW m \in DOMAIN runs'[j],
         Works(u, j, m)', Works(v, j, m)'
  PROVE  u = v \/ (Works(u, j, m) /\ Works(v, j, m) /\ m \in DOMAIN runs[j] /\ runs'[j][m] = runs[j][m])
<1>1. CASE u = t \/ v = t
  BY <1>1, BeginWorks
<1>2. CASE u # t /\ v # t
  <2>1. Works(u, j, m) /\ Works(v, j, m)
    BY <1>2, BeginWorks
  <2>2. m \in DOMAIN runs[j]
    BY <2>1 DEF Inv, ThreadOK, Works
  <2>3. runs'[j][m] = runs[j][m]
    BY <2>2, BeginRuns
  <2> QED
    BY <2>1, <2>2, <2>3
<1> QED
  BY <1>1, <1>2

LEMMA BeginOnce ==
  ASSUME Inv, NEW t \in Threads, NEW k \in Tasks, NEW kind, NEW out, BeginStep(t, k, kind, out)
  PROVE  OnceOK'
<1> DEFINE n == Len(runs[k]) + 1
           q == runs'[k][n]
<1>1. SUFFICES ASSUME ~resumed'
               PROVE  /\ \A j \in Tasks : \A m \in DOMAIN runs'[j] :
                           /\ runs'[j][m].ends <= 1
                           /\ runs'[j][m].status \in {"running", "waiting_approval"} => runs'[j][m].ends = 0
                      /\ \A u \in Threads : th'[u].pc = "call" =>
                           LET p == runs'[th'[u].task][th'[u].run] IN
                           /\ p.status \in {"running", "waiting_approval"}
                           /\ p.status = "waiting_approval" => lock' = u
                      /\ \A u, v \in Threads : \A j \in Tasks : \A m \in DOMAIN runs'[j] :
                           Works(u, j, m)' /\ Works(v, j, m)' => u = v
  BY DEF OnceOK
<1>2. OnceOK /\ ~resumed /\ TypeInv /\ FitsBegin(kind, out) /\ kind \in AllKinds
  BY <1>1, BeginRest DEF Inv, BeginStep
<1>3. /\ \A j \in Tasks : j # k => runs'[j] = runs[j]
      /\ DOMAIN runs'[k] = DOMAIN runs[k] \cup {n}
      /\ \A j \in DOMAIN runs[k] : runs'[k][j] = runs[k][j]
  BY BeginRuns
<1>4. q.ends <= 1 /\ (q.status \in {"running", "waiting_approval"} => q.ends = 0)
  <2>1. CASE EndsRun(out)
    BY <2>1, BeginRuns DEF EndsRun
  <2>2. CASE out.run = "same"
    BY <2>2, BeginRuns
  <2> QED
    BY <1>2, <2>1, <2>2, BeginOut
<1>5. \A j \in Tasks : \A m \in DOMAIN runs'[j] :
        /\ runs'[j][m].ends <= 1
        /\ runs'[j][m].status \in {"running", "waiting_approval"} => runs'[j][m].ends = 0
  BY <1>2, <1>3, <1>4 DEF OnceOK
<1>6. ASSUME NEW u \in Threads, th'[u].pc = "call"
      PROVE  LET p == runs'[th'[u].task][th'[u].run] IN
             /\ p.status \in {"running", "waiting_approval"}
             /\ p.status = "waiting_approval" => lock' = u
  <2>1. CASE u = t
    <3>1. out.to # "idle" /\ th'[u].task = k /\ th'[u].run = n
      BY <1>6, <2>1, BeginRest DEF Idle
    <3>2. out.run = "same"
      BY <1>2, <3>1, BeginOut
    <3>3. q.status = "running"
      BY <3>2, BeginRuns
    <3> QED
      BY <3>1, <3>3
  <2>2. CASE u # t
    <3>1. th'[u] = th[u] /\ th[u].pc = "call"
      BY <1>6, <2>2, BeginRest
    <3>2. th[u].task \in Tasks /\ ThreadOK(u)
      BY <1>2, <3>1, ThreadShape DEF Calls, Inv
    <3>3. PICK j \in Tasks, m \in Nat : th[u].task = j /\ th[u].run = m /\ m \in DOMAIN runs[j]
      BY <1>2, <3>1, <3>2, ThreadShape DEF ThreadOK, Calls
    <3>4. runs'[j][m] = runs[j][m]
      BY <1>3, <3>3
    <3>5. /\ runs[j][m].status \in {"running", "waiting_approval"}
          /\ runs[j][m].status = "waiting_approval" => lock = u
      BY <1>2, <3>1, <3>3 DEF OnceOK
    <3>6. lock = u => lock' = u
      BY <2>2, BeginRest
    <3> QED
      BY <3>1, <3>3, <3>4, <3>5, <3>6
  <2> QED
    BY <2>1, <2>2
<1>7. \A u, v \in Threads : \A j \in Tasks : \A m \in DOMAIN runs'[j] :
        Works(u, j, m)' /\ Works(v, j, m)' => u = v
  BY <1>2, BeginTwo DEF OnceOK
<1> QED
  BY <1>5, <1>6, <1>7

LEMMA BeginUndisturbed ==
  ASSUME Inv, NEW t \in Threads, NEW k \in Tasks, NEW kind, NEW out, BeginStep(t, k, kind, out)
  PROVE  UndisturbedOK(k)'
<1>1. SUFFICES ASSUME k \notin disturbed' PROVE UndisturbedOK(k)'
  BY DEF UndisturbedOK
<1>2. k \notin disturbed /\ runs[k] = << >> /\ task[k].status = "created"
  BY <1>1 DEF BeginStep, Inv, UndisturbedOK
<1>3. Len(runs[k]) + 1 = 1
  BY <1>2
<1>4. Len(runs'[k]) = 1 /\ runs'[k] # << >> /\ runs'[k][1].kind = kind
  <2>1. Len(runs'[k]) = 1 /\ runs'[k][1].kind = kind
    <3>1. Len(runs'[k]) = Len(runs[k]) + 1 /\ runs'[k][Len(runs[k]) + 1].kind = kind
      BY BeginRuns
    <3> QED
      BY <1>3, <3>1
  <2>2. Len(<< >>) # 1
    OBVIOUS
  <2> QED
    BY <2>1, <2>2
<1>5. /\ FitsBegin(kind, out) /\ kind \in AllKinds
      /\ task'[k].status = Keep("created", out.task)
  BY <1>2, BeginRest
<1>6. /\ \A u \in Threads : Works(u, k, 1)' => u = t /\ out.to # "idle"
      /\ out.to # "idle" => Works(t, k, 1)'
  BY <1>3, BeginWorks
<1>7. ASSUME \A u \in Threads : ~Works(u, k, 1)' PROVE task'[k].status \in StatusUnder(runs'[k][1])
  <2>1. out.to = "idle"
    BY <1>6, <1>7
  <2>2. CASE EndsRun(out)
    <3>1. runs'[k][1].status = out.run
      BY <1>3, <2>2, BeginRuns
    <3>2. task'[k].status = out.task
      BY <1>5, <2>2 DEF Keep, EndsRun
    <3> QED
      BY <2>2, <3>1, <3>2 DEF EndsRun, StatusUnder
  <2>3. CASE out.run = "same" /\ Raises(out) /\ kind = "document"
    <3>1. runs'[k][1].status = "running"
      BY <1>3, <2>3, BeginRuns
    <3>2. task'[k].status = "created"
      BY <1>5, <2>3 DEF FitsBegin, Keep
    <3> QED
      BY <3>1, <3>2 DEF StatusUnder
  <2> QED
    BY <1>5, <2>1, <2>2, <2>3, BeginOut
<1>8. ASSUME kind = "document", Works(t, k, 1)'
      PROVE  /\ task'[k].status = StatusAt[th'[t].at]
             /\ runs'[k][1].status \in {"running", "waiting_approval"}
  <2>1. out.to # "idle"
    BY <1>6, <1>8
  <2>2. out.run = "same" /\ out.to = "plan" /\ out.task = "same"
    BY <1>5, <1>8, <2>1, BeginOut DEF FitsBegin
  <2>3. th'[t].at = "plan" /\ runs'[k][1].status = "running"
    BY <1>3, <2>1, <2>2, BeginRest, BeginRuns
  <2> QED
    BY <1>5, <2>2, <2>3 DEF Keep, StatusAt
<1> QED
  BY <1>4, <1>6, <1>7, <1>8 DEF UndisturbedOK

LEMMA BeginElsewhere ==
  ASSUME Inv, NEW t \in Threads, NEW k \in Tasks, NEW kind, NEW out, BeginStep(t, k, kind, out),
         NEW j \in Tasks, j # k
  PROVE  RunsOK(j)' /\ TaskOK(j)' /\ UndisturbedOK(j)'
<1>1. runs'[j] = runs[j] /\ task'[j] = task[j] /\ approvals'[j] = approvals[j] /\ inner'[j] = inner[j]
  BY BeginRuns, BeginRest
<1>2. \A u \in Threads : Works(u, j, 1)' <=> Works(u, j, 1)
  BY BeginWorks
<1>3. \A u \in Threads : Works(u, j, 1) => th'[u] = th[u]
  BY BeginWorks, BeginRest
<1>4. UndisturbedOK(j) /\ (j \notin disturbed' => j \notin disturbed)
  BY DEF Inv, BeginStep
<1>5. UndisturbedOK(j)'
  BY <1>1, <1>2, <1>3, <1>4 DEF UndisturbedOK
<1> QED
  BY <1>1, <1>5, TaskStays

LEMMA BeginStepInv ==
  ASSUME Inv, NEW t \in Threads, NEW k \in Tasks, NEW kind, NEW out, BeginStep(t, k, kind, out)
  PROVE  Inv'
<1>1. TypeInv'
  BY BeginRest
<1>2. \A j \in Tasks : RunsOK(j)' /\ TaskOK(j)' /\ UndisturbedOK(j)'
  BY BeginElsewhere, BeginRunsOK, BeginTaskOK, BeginUndisturbed
<1>3. \A u \in Threads : ThreadOK(u)'
  BY BeginOthers, BeginThread
<1>4. \A u, v \in Threads : AloneEarly(u, v)'
  BY BeginTwo DEF Inv, AloneEarly
<1>5. OnceOK'
  BY BeginOnce
<1> QED
  BY <1>1, <1>2, <1>3, <1>4, <1>5 DEF Inv

-----------------------------------------------------------------------------
(* The steps that move no run                                              *)

\* Requests other than workflows decide approvals, complete Skill and Tool Runs,
\* pause and cancel tasks, and take or give back the lock.
Aside ==
  /\ runs' = runs /\ resumed' = resumed /\ disturbed \subseteq disturbed'
  /\ \A k \in Tasks :
       /\ Monotone(k) /\ Len(approvals'[k]) = Len(approvals[k])
       /\ task'[k].approval = task[k].approval
       /\ k \notin disturbed' => task'[k].status = task[k].status
       /\ inner'[k].approval = inner[k].approval
       /\ inner'[k].status = "none" <=> inner[k].status = "none"
       /\ inner'[k].status = "done" =>
            \/ inner[k].status = "done"
            \/ ~HasRun(k, "skill_missing")
            \/ approvals[k][inner[k].approval] = "approved"
  /\ \A u \in Threads :
       /\ th'[u].pc = "call" \/ th[u].pc = "call" => th'[u] = th[u]
       /\ th'[u].pc = "decided" => lock' = u
       /\ th'[u].pc = "tool" =>
            HasRun(th'[u].task, "tool_call") /\ inner'[th'[u].task].status # "none"
       /\ th[u].pc = "call" /\ lock = u => lock' = u

LEMMA AsideTask ==
  ASSUME Inv, Aside, TypeInv', NEW k \in Tasks
  PROVE  RunsOK(k)' /\ TaskOK(k)' /\ UndisturbedOK(k)'
<1>1. TypeInv /\ RunsOK(k) /\ TaskOK(k) /\ UndisturbedOK(k) /\ runs' = runs
      /\ runs' \in [Tasks -> Seq(RunRecords)]
  BY DEF Inv, Aside, TypeInv
<1>2. /\ Monotone(k) /\ Len(approvals'[k]) = Len(approvals[k]) /\ Len(approvals[k]) \in Nat
      /\ task'[k].approval = task[k].approval
      /\ inner'[k].approval = inner[k].approval
      /\ inner'[k].status = "none" <=> inner[k].status = "none"
      /\ inner'[k].status = "done" =>
           \/ inner[k].status = "done"
           \/ ~HasRun(k, "skill_missing")
           \/ approvals[k][inner[k].approval] = "approved"
  BY <1>1, Typed DEF Aside
<1>3. ASSUME NEW i \in DOMAIN runs[k], runs[k][i].gate # 0, Consented(k, i) PROVE Consented(k, i)'
  <2>1. runs[k][i].gate \in 1 .. Len(approvals[k])
    BY <1>1, <1>2, <1>3 DEF RunsOK
  <2> QED
    BY <1>1, <1>2, <1>3, <2>1, ConsentStays
<1>4. RunsOK(k)'
  BY <1>1, <1>2, <1>3 DEF RunsOK
<1>5. \A kind : HasRun(k, kind)' <=> HasRun(k, kind)
  BY <1>1 DEF HasRun
<1>6. ASSUME inner'[k].status = "done", HasRun(k, "skill_missing") PROVE Cleared(k)'
  <2>1. runs[k] # << >>
    BY <1>6 DEF HasRun
  <2>2. inner[k].approval # 0 /\ inner[k].approval \in 0 .. Len(approvals[k])
    BY <1>1, <1>2, <1>6 DEF TaskOK
  <2>3. Cleared(k)
    <3>1. CASE inner[k].status = "done"
      BY <1>1, <1>6, <3>1 DEF TaskOK
    <3>2. CASE approvals[k][inner[k].approval] = "approved"
      <4>1. inner[k].approval \in DOMAIN approvals[k]
        BY <1>1, <2>2, Typed
      <4> QED
        BY <2>2, <3>2, <4>1 DEF Cleared
    <3> QED
      BY <1>2, <1>6, <3>1, <3>2
  <2> QED
    BY <1>1, <1>2, <2>1, <2>2, <2>3, ClearedStays
<1>7. TaskOK(k)'
  BY <1>1, <1>2, <1>5, <1>6 DEF TaskOK
<1>8. UndisturbedOK(k)'
  <2>1. \A u \in Threads : (Works(u, k, 1)' <=> Works(u, k, 1)) /\ (Works(u, k, 1) => th'[u] = th[u])
    BY DEF Aside, Works
  <2>2. k \notin disturbed' => k \notin disturbed /\ task'[k].status = task[k].status
    BY DEF Aside
  <2> QED
    BY <1>1, <2>1, <2>2 DEF UndisturbedOK
<1> QED
  BY <1>4, <1>7, <1>8

LEMMA AsideThread ==
  ASSUME Inv, Aside, TypeInv', NEW u \in Threads
  PROVE  ThreadOK(u)'
<1>1. TypeInv
  BY DEF Inv
<1>2. CASE th'[u].pc = "call"
  <2>1. th'[u] = th[u] /\ th[u].pc = "call"
    BY <1>2 DEF Aside
  <2>2. /\ runs' \in [Tasks -> Seq(RunRecords)] /\ approvals' \in [Tasks -> Seq(Final \cup Undecided)]
        /\ \A j \in Tasks : Monotone(j)
    BY DEF TypeInv, Aside
  <2>3. th[u].task \in Tasks
    BY <1>1, <2>1, ThreadShape DEF Calls
  <2>4. RunKept(th[u].task, th[u].run)
    BY <2>3 DEF RunKept, Aside
  <2> QED
    BY <2>1, <2>2, <2>4, ThreadStays
<1>3. CASE th'[u].pc # "call"
  <2>1. /\ th'[u].pc = "decided" => lock' = u
        /\ th'[u].pc = "tool" => inner'[th'[u].task].status # "none"
    BY DEF Aside
  <2>2. ASSUME th'[u].pc = "tool" PROVE HasRun(th[u].task, "tool_call")'
    <3>1. HasRun(th'[u].task, "tool_call")
      BY <2>2 DEF Aside
    <3> QED
      BY <3>1 DEF Aside, HasRun
  <2> QED
    BY <1>3, <2>1, <2>2 DEF ThreadOK
<1> QED
  BY <1>2, <1>3

LEMMA AsideInv ==
  ASSUME Inv, Aside, TypeInv'
  PROVE  Inv'
<1>1. \A k \in Tasks : RunsOK(k)' /\ TaskOK(k)' /\ UndisturbedOK(k)'
  BY AsideTask
<1>2. \A u \in Threads : ThreadOK(u)'
  BY AsideThread
<1>3. \A u \in Threads : \A k, i : Works(u, k, i)' <=> Works(u, k, i)
  BY DEF Aside, Works
<1>4. \A u, v \in Threads : AloneEarly(u, v)'
  BY <1>3 DEF Inv, AloneEarly, Aside
<1>5. OnceOK'
  <2>1. /\ runs' = runs /\ resumed' = resumed /\ OnceOK
        /\ \A u \in Threads : th'[u].pc = "call" =>
             th'[u] = th[u] /\ (lock = u => lock' = u)
    BY DEF Aside, Inv
  <2> QED
    BY <1>3, <2>1 DEF OnceOK
<1> QED
  BY <1>1, <1>2, <1>4, <1>5 DEF Inv

\* An approval is decided, by a request of its own or with the task.
Decides(k, a, d) ==
  /\ a \in DOMAIN approvals[k] /\ d \in Final \cup Undecided
  /\ approvals[k][a] \in Undecided \cup {d}
  /\ approvals' = [approvals EXCEPT ![k][a] = d]

LEMMA DecidesFacts ==
  ASSUME Inv, NEW k \in Tasks, NEW a, NEW d, Decides(k, a, d), UNCHANGED <<runs, inner>>
  PROVE  /\ approvals' \in [Tasks -> Seq(Final \cup Undecided)]
         /\ \A j \in Tasks : Monotone(j) /\ Len(approvals'[j]) = Len(approvals[j])
<1>1. TypeInv /\ approvals \in [Tasks -> Seq(Final \cup Undecided)]
  BY DEF Inv, TypeInv
<1>2. /\ approvals[k] \in Seq(Final \cup Undecided) /\ a \in DOMAIN approvals[k]
      /\ d \in Final \cup Undecided /\ approvals[k][a] \in Undecided \cup {d}
  BY <1>1 DEF Decides
<1>3. approvals' = [approvals EXCEPT ![k] = [approvals[k] EXCEPT ![a] = d]]
  BY DEF Decides
<1>4. /\ [approvals[k] EXCEPT ![a] = d] \in Seq(Final \cup Undecided)
      /\ Len([approvals[k] EXCEPT ![a] = d]) = Len(approvals[k])
      /\ DOMAIN [approvals[k] EXCEPT ![a] = d] = DOMAIN approvals[k]
      /\ \A b \in DOMAIN approvals[k] : b # a => [approvals[k] EXCEPT ![a] = d][b] = approvals[k][b]
      /\ [approvals[k] EXCEPT ![a] = d][a] = d
  BY <1>2
<1>5. Final \cap Undecided = {}
  BY DEF Final, Undecided
<1>6. ASSUME NEW j \in Tasks PROVE Monotone(j) /\ Len(approvals'[j]) = Len(approvals[j])
  <2>1. Len(runs[j]) \in Nat /\ runs' = runs /\ inner' = inner
    BY <1>1, Typed
  <2>2. CASE j # k
    <3>1. approvals'[j] = approvals[j]
      BY <1>1, <1>3, <2>2
    <3> QED
      BY <2>1, <3>1 DEF Monotone
  <2>3. CASE j = k
    <3>1. approvals'[j] = [approvals[k] EXCEPT ![a] = d]
      BY <1>1, <1>3, <2>3
    <3>2. \A b \in DOMAIN approvals[k] :
            /\ b \in DOMAIN approvals'[k]
            /\ approvals[k][b] \in Final => approvals'[k][b] = approvals[k][b]
      BY <1>2, <1>4, <1>5, <2>3, <3>1
    <3>3. Len(approvals'[j]) = Len(approvals[j])
      BY <1>4, <2>3, <3>1
    <3> QED
      BY <2>1, <2>3, <3>2, <3>3 DEF Monotone
  <2> QED
    BY <2>2, <2>3
<1> QED
  BY <1>1, <1>3, <1>4, <1>6

LEMMA DecideApprovalInv ==
  ASSUME Inv, NEW k \in Tasks, NEW a, NEW d \in Final \cup {"need_more_info"}, DecideApproval(k, a, d)
  PROVE  Inv'
<1>1. UNCHANGED <<task, runs, inner, th, lock, disturbed, resumed>> /\ TypeInv
      /\ \A u \in Threads : ThreadOK(u)
  BY DEF DecideApproval, Inv
<1>2. Decides(k, a, d)
  BY DEF DecideApproval, Decides, Undecided
<1>3. /\ approvals' \in [Tasks -> Seq(Final \cup Undecided)]
      /\ \A j \in Tasks : Monotone(j) /\ Len(approvals'[j]) = Len(approvals[j])
  BY <1>1, <1>2, DecidesFacts
<1>4. TypeInv'
  BY <1>1, <1>3 DEF TypeInv
<1>5. Aside
  BY <1>1, <1>3 DEF Aside, ThreadOK
<1> QED
  BY <1>4, <1>5, AsideInv

LEMMA DecideAndResumeInv ==
  ASSUME Inv, NEW t \in Threads, NEW k \in Tasks, NEW d \in {"approved", "rejected"},
         DecideAndResume(t, k, d)
  PROVE  Inv'
<1>1. /\ UNCHANGED <<task, runs, inner, disturbed, resumed>> /\ TypeInv /\ TaskOK(k)
      /\ \A u \in Threads : ThreadOK(u)
  BY DEF DecideAndResume, Inv
<1>2. Decides(k, task[k].approval, d)
  <2>1. /\ task[k].approval # 0 /\ approvals[k][task[k].approval] \in Undecided \cup {d}
        /\ approvals' = [approvals EXCEPT ![k][task[k].approval] = d]
    BY DEF DecideAndResume
  <2>2. task[k].approval \in DOMAIN approvals[k]
    BY <1>1, <2>1, Typed DEF TaskOK
  <2> QED
    BY <2>1, <2>2 DEF Decides, Final
<1>3. /\ approvals' \in [Tasks -> Seq(Final \cup Undecided)]
      /\ \A j \in Tasks : Monotone(j) /\ Len(approvals'[j]) = Len(approvals[j])
  BY <1>1, <1>2, DecidesFacts
<1>4. /\ th[t].pc = "idle" /\ lock = NoThread /\ lock' = t
      /\ th' = [th EXCEPT ![t] = [pc |-> "decided", task |-> k]]
  BY DEF DecideAndResume
<1>5. /\ th' \in [Threads -> {Idle} \cup Calls \cup Decided \cup AtTool]
      /\ th'[t].pc = "decided" /\ \A u \in Threads : u # t => th'[u] = th[u]
  <2>1. th \in [Threads -> {Idle} \cup Calls \cup Decided \cup AtTool]
    BY <1>1 DEF TypeInv
  <2>2. [pc |-> "decided", task |-> k] \in Decided
    BY DEF Decided
  <2> QED
    BY <1>4, <2>1, <2>2
<1>6. TypeInv'
  BY <1>1, <1>3, <1>4, <1>5 DEF TypeInv
<1>7. \A u \in Threads : u # lock /\ th[u].pc # "decided"
  BY <1>1, <1>4, NoThreadAssumption DEF ThreadOK
<1>8. Aside
  <2>1. \A u \in Threads :
          /\ th'[u].pc = "call" \/ th[u].pc = "call" => th'[u] = th[u]
          /\ th'[u].pc = "decided" => lock' = u
          /\ th'[u].pc = "tool" =>
               HasRun(th'[u].task, "tool_call") /\ inner'[th'[u].task].status # "none"
          /\ th[u].pc = "call" /\ lock = u => lock' = u
    BY <1>1, <1>4, <1>5, <1>7 DEF ThreadOK
  <2> QED
    BY <1>1, <1>3, <2>1 DEF Aside
<1> QED
  BY <1>6, <1>8, AsideInv

LEMMA SetStatusInv ==
  ASSUME Inv, NEW k \in Tasks, NEW s \in {"paused", "cancelled"}, SetStatus(k, s)
  PROVE  Inv'
<1>1. /\ UNCHANGED <<runs, approvals, inner, th, lock, resumed>> /\ TypeInv
      /\ disturbed' = disturbed \cup {k} /\ task' = [task EXCEPT ![k].status = s]
      /\ \A u \in Threads : ThreadOK(u)
  BY DEF SetStatus, Inv
<1>2. /\ task' \in [Tasks -> TaskRecords]
      /\ \A j \in Tasks : /\ task'[j].approval = task[j].approval
                          /\ j # k => task'[j].status = task[j].status
  <2>1. task \in [Tasks -> TaskRecords] /\ s \in TaskStatus
    BY <1>1 DEF TypeInv, TaskStatus
  <2> QED
    BY <1>1, <2>1 DEF TaskRecords
<1>3. \A j \in Tasks : Monotone(j)
  <2>1. \A j \in Tasks : Len(runs[j]) \in Nat
    BY <1>1, Typed
  <2> QED
    BY <1>1, <2>1 DEF Monotone
<1>4. TypeInv'
  BY <1>1, <1>2 DEF TypeInv
<1>5. Aside
  BY <1>1, <1>2, <1>3 DEF Aside, ThreadOK
<1> QED
  BY <1>4, <1>5, AsideInv

\* The Skill or Tool Run of a task changes its status.
LEMMA InnerChanges ==
  ASSUME Inv, NEW k \in Tasks, NEW s \in {"done", "refused"}, inner' = [inner EXCEPT ![k].status = s],
         UNCHANGED <<task, runs, approvals>>, inner[k].status # "none"
  PROVE  /\ inner' \in [Tasks -> InnerRecords]
         /\ \A j \in Tasks :
              /\ Monotone(j) /\ inner'[j].approval = inner[j].approval
              /\ inner'[j].status = "none" <=> inner[j].status = "none"
              /\ j # k => inner'[j].status = inner[j].status
<1>1. inner \in [Tasks -> InnerRecords] /\ \A j \in Tasks : Len(runs[j]) \in Nat
  BY Typed DEF Inv, TypeInv
<1>2. /\ inner' \in [Tasks -> InnerRecords]
      /\ \A j \in Tasks :
           /\ inner'[j].approval = inner[j].approval
           /\ inner'[j].status = IF j = k THEN s ELSE inner[j].status
  BY <1>1 DEF InnerRecords
<1>3. \A j \in Tasks : inner'[j].status = "none" <=> inner[j].status = "none"
  BY <1>2
<1> QED
  BY <1>1, <1>2, <1>3 DEF Monotone

LEMMA CompleteSkillRunInv ==
  ASSUME Inv, NEW k \in Tasks, CompleteSkillRun(k)
  PROVE  Inv'
<1>1. /\ UNCHANGED <<task, runs, approvals, th, lock, disturbed, resumed>> /\ TypeInv
      /\ inner[k].status = "waiting" /\ approvals[k][inner[k].approval] = "approved"
      /\ \A u \in Threads : ThreadOK(u)
  BY DEF CompleteSkillRun, InnerApproved, Inv
<1>2. PICK s \in {"done", "refused"} : inner' = [inner EXCEPT ![k].status = s]
  BY DEF CompleteSkillRun
<1>3. /\ inner' \in [Tasks -> InnerRecords]
      /\ \A j \in Tasks :
           /\ Monotone(j) /\ inner'[j].approval = inner[j].approval
           /\ inner'[j].status = "none" <=> inner[j].status = "none"
           /\ j # k => inner'[j].status = inner[j].status
  BY <1>1, <1>2, InnerChanges
<1>4. TypeInv'
  BY <1>1, <1>3 DEF TypeInv
<1>5. \A u \in Threads : th[u].pc = "tool" => th[u].task \in Tasks
  BY <1>1, ThreadShape DEF AtTool
<1>6. Aside
  BY <1>1, <1>3, <1>5 DEF Aside, ThreadOK
<1> QED
  BY <1>4, <1>6, AsideInv

LEMMA CompleteToolRunInv ==
  ASSUME Inv, NEW t \in Threads, NEW k \in Tasks, CompleteToolRun(t, k)
  PROVE  Inv'
<1>1. /\ UNCHANGED <<task, runs, approvals, inner, lock, disturbed, resumed>> /\ TypeInv
      /\ inner[k].status = "waiting" /\ HasRun(k, "tool_call") /\ th[t].pc = "idle"
      /\ th' = [th EXCEPT ![t] = [pc |-> "tool", task |-> k]]
      /\ \A u \in Threads : ThreadOK(u)
  BY DEF CompleteToolRun, InnerApproved, HasRun, Inv
<1>2. /\ th' \in [Threads -> {Idle} \cup Calls \cup Decided \cup AtTool]
      /\ th'[t].pc = "tool" /\ th'[t].task = k /\ \A u \in Threads : u # t => th'[u] = th[u]
  <2>1. th \in [Threads -> {Idle} \cup Calls \cup Decided \cup AtTool]
    BY <1>1 DEF TypeInv
  <2>2. [pc |-> "tool", task |-> k] \in AtTool
    BY DEF AtTool
  <2> QED
    BY <1>1, <2>1, <2>2
<1>3. TypeInv'
  BY <1>1, <1>2 DEF TypeInv
<1>4. \A j \in Tasks : Monotone(j)
  <2>1. \A j \in Tasks : Len(runs[j]) \in Nat
    BY <1>1, Typed
  <2> QED
    BY <1>1, <2>1 DEF Monotone
<1>5. Aside
  BY <1>1, <1>2, <1>4 DEF Aside, ThreadOK
<1> QED
  BY <1>3, <1>5, AsideInv

LEMMA ToolRunCompletesInv ==
  ASSUME Inv, NEW t \in Threads, ToolRunCompletes(t)
  PROVE  Inv'
<1>1. /\ UNCHANGED <<task, runs, approvals, lock, disturbed, resumed>> /\ TypeInv
      /\ th[t].pc = "tool" /\ th' = [th EXCEPT ![t] = Idle]
      /\ \A u \in Threads : ThreadOK(u)
  BY DEF ToolRunCompletes, Inv
<1>2. PICK k \in Tasks : k = th[t].task
  BY <1>1, ThreadShape DEF AtTool
<1>3. inner[k].status # "none" /\ HasRun(k, "tool_call") /\ RunsOK(k)
      /\ inner' = [inner EXCEPT ![k].status = "done"]
  BY <1>1, <1>2 DEF ThreadOK, ToolRunCompletes, HasRun, Inv
<1>4. /\ inner' \in [Tasks -> InnerRecords]
      /\ \A j \in Tasks :
           /\ Monotone(j) /\ inner'[j].approval = inner[j].approval
           /\ inner'[j].status = "none" <=> inner[j].status = "none"
           /\ j # k => inner'[j].status = inner[j].status
  BY <1>1, <1>3, InnerChanges
<1>5. /\ th' \in [Threads -> {Idle} \cup Calls \cup Decided \cup AtTool]
      /\ th'[t].pc = "idle" /\ \A u \in Threads : u # t => th'[u] = th[u]
  <2>1. th \in [Threads -> {Idle} \cup Calls \cup Decided \cup AtTool]
    BY <1>1 DEF TypeInv
  <2> QED
    BY <1>1, <2>1 DEF Idle
<1>6. TypeInv'
  BY <1>1, <1>4, <1>5 DEF TypeInv
<1>7. ~HasRun(k, "skill_missing")
  BY <1>3 DEF HasRun, RunsOK
<1>8. \A u \in Threads : th[u].pc = "tool" => th[u].task \in Tasks
  BY <1>1, ThreadShape DEF AtTool
<1>9. Aside
  BY <1>1, <1>4, <1>5, <1>7, <1>8 DEF Aside, ThreadOK
<1> QED
  BY <1>6, <1>9, AsideInv

\* A decision that resumes nothing gives the lock back.
LEMMA DecidedStops ==
  ASSUME Inv, NEW t \in Threads, th[t].pc = "decided", th' = [th EXCEPT ![t] = Idle],
         lock' = NoThread, UNCHANGED <<task, runs, approvals, inner, disturbed, resumed>>
  PROVE  Inv'
<1>1. TypeInv /\ (\A u \in Threads : ThreadOK(u)) /\ lock = t
  BY DEF Inv, ThreadOK
<1>2. /\ th' \in [Threads -> {Idle} \cup Calls \cup Decided \cup AtTool]
      /\ th'[t].pc = "idle" /\ \A u \in Threads : u # t => th'[u] = th[u]
  <2>1. th \in [Threads -> {Idle} \cup Calls \cup Decided \cup AtTool]
    BY <1>1 DEF TypeInv
  <2> QED
    BY <2>1 DEF Idle
<1>3. TypeInv'
  BY <1>1, <1>2 DEF TypeInv
<1>4. \A j \in Tasks : Monotone(j)
  <2>1. \A j \in Tasks : Len(runs[j]) \in Nat
    BY <1>1, Typed
  <2> QED
    BY <2>1 DEF Monotone
<1>5. Aside
  BY <1>1, <1>2, <1>4 DEF Aside, ThreadOK
<1> QED
  BY <1>3, <1>5, AsideInv

-----------------------------------------------------------------------------
(* The invariant holds                                                     *)

LEMMA ContinueInv ==
  ASSUME Inv, NEW t \in Threads, Continue(t)
  PROVE  Inv'
<1>1. th[t].pc = "call" /\ disturbed' = disturbed /\ resumed' = resumed
  BY DEF Continue
<1>2. TypeInv /\ ThreadOK(t)
  BY DEF Inv
<1>3. PICK k \in Tasks, i \in Nat, a \in Nat : th[t].task = k /\ th[t].run = i /\ th[t].asked = a
  BY <1>1, <1>2, ThreadShape DEF Calls
<1>4. PICK v, out : /\ out \in Outcomes(runs[k][i].kind, th[t].at, v, inner[k].status)
                    /\ Takes(t, k, runs[k], i, a, out)
  <2> DEFINE v == IF a = 0 THEN "none" ELSE approvals[k][a]
  <2>1. \E out \in Outcomes(runs[k][i].kind, th[t].at, v, inner[k].status) :
          Takes(t, k, runs[k], i, a, out)
    BY <1>3 DEF Continue
  <2> QED
    BY <2>1
<1>5. i \in DOMAIN runs[k] /\ Works(t, k, i)
  BY <1>1, <1>2, <1>3 DEF ThreadOK, Works
<1>6. Ready(t, k, i, a, out)
  BY <1>3, <1>4, <1>5, ContinueEarly, ContinueLate
<1>7. WorkStep(t, k, i, a, out)
  BY <1>1, <1>4, <1>6 DEF WorkStep
<1>8. resumed' \in BOOLEAN /\ (~resumed' => ~resumed /\ ReadyOnce(t, k, i))
  BY <1>1, <1>2, <1>5, ContinueOnce DEF TypeInv
<1> QED
  BY <1>7, <1>8, WorkStepInv

LEMMA ResumesInv ==
  ASSUME Inv, NEW t \in Threads, NEW k \in Tasks, Resumes(t, k), UNCHANGED disturbed,
         \/ th[t].pc = "idle" /\ resumed' = TRUE
         \/ th[t].pc = "decided" /\ resumed' = resumed
  PROVE  Inv'
<1>1. PICK out \in ResumeOutcomes(k) : Takes(t, k, runs[k], Resumable(k), 0, out)
  BY DEF Resumes
<1>2. TypeInv /\ Resumable(k) \in DOMAIN runs[k] /\ runs[k][Resumable(k)].status = "waiting_approval"
  BY <1>1, ResumeFits DEF Inv
<1>3. PICK i \in DOMAIN runs[k] : i = Resumable(k)
  BY <1>2
<1>4. Ready(t, k, i, 0, out)
  BY <1>1, <1>3, ResumeReady
<1>5. WorkStep(t, k, i, 0, out)
  BY <1>1, <1>3, <1>4 DEF WorkStep
<1>6. resumed' \in BOOLEAN /\ (~resumed' => ~resumed /\ ReadyOnce(t, k, i))
  BY <1>2, <1>3, ResumeOnce DEF TypeInv
<1> QED
  BY <1>5, <1>6, WorkStepInv

LEMMA BeginInv ==
  ASSUME Inv, NEW t \in Threads, NEW k \in Tasks, NEW kind \in Kinds, Begin(t, k, kind)
  PROVE  Inv'
<1>1. kind \in AllKinds
  BY KindsAssumption DEF AllKinds
<1>2. PICK out \in Flow[kind]["begin"] :
        Takes(t, k, Append(runs[k], NewRun(kind)), Len(runs[k]) + 1, 0, out)
  BY DEF Begin
<1>3. BeginStep(t, k, kind, out)
  BY <1>1, <1>2 DEF Begin, BeginStep
<1> QED
  BY <1>3, BeginStepInv

LEMMA ResumeDecidedInv ==
  ASSUME Inv, NEW t \in Threads, ResumeDecided(t)
  PROVE  Inv'
<1>1. th[t].pc = "decided" /\ UNCHANGED <<disturbed, resumed>>
  BY DEF ResumeDecided
<1>2. PICK k \in Tasks : k = th[t].task
  BY <1>1, ThreadShape DEF Inv, Decided
<1>3. CASE Resumes(t, k)
  BY <1>1, <1>3, ResumesInv
<1>4. CASE /\ th' = [th EXCEPT ![t] = Idle] /\ lock' = NoThread
           /\ UNCHANGED <<task, runs, approvals, inner>>
  BY <1>1, <1>4, DecidedStops
<1> QED
  BY <1>2, <1>3, <1>4 DEF ResumeDecided

LEMMA InitInv ==
  ASSUME Init
  PROVE  Inv
<1>1. TypeInv
  <2>1. [status |-> "created", approval |-> 0] \in TaskRecords
    BY DEF TaskRecords, TaskStatus
  <2>2. [status |-> "none", approval |-> 0] \in InnerRecords
    BY DEF InnerRecords
  <2>3. << >> \in Seq(RunRecords) /\ << >> \in Seq(Final \cup Undecided)
    OBVIOUS
  <2>4. task \in [Tasks -> TaskRecords] /\ inner \in [Tasks -> InnerRecords]
    BY <2>1, <2>2 DEF Init
  <2>5. runs \in [Tasks -> Seq(RunRecords)] /\ approvals \in [Tasks -> Seq(Final \cup Undecided)]
    BY <2>3 DEF Init
  <2>6. th \in [Threads -> {Idle} \cup Calls \cup Decided \cup AtTool]
    BY DEF Init
  <2>7. lock \in Threads \cup {NoThread} /\ disturbed \subseteq Tasks /\ resumed \in BOOLEAN
    BY DEF Init
  <2> QED
    BY <2>4, <2>5, <2>6, <2>7 DEF TypeInv
<1>2. \A k \in Tasks : runs[k] = << >> /\ approvals[k] = << >> /\ Len(runs[k]) = 0
  BY DEF Init
<1>3. \A k \in Tasks : /\ task[k].status = "created" /\ task[k].approval = 0
                       /\ inner[k].status = "none" /\ inner[k].approval = 0
  BY DEF Init
<1>4. \A t \in Threads : th[t].pc = "idle"
  BY DEF Init, Idle
<1>5. \A k \in Tasks : 0 \in 0 .. Len(approvals[k])
  BY <1>2
<1>6. \A k \in Tasks : RunsOK(k)
  BY <1>2 DEF RunsOK
<1>7. \A k \in Tasks : TaskOK(k)
  BY <1>2, <1>3, <1>5 DEF TaskOK
<1>8. \A k \in Tasks : UndisturbedOK(k)
  BY <1>2, <1>3 DEF UndisturbedOK
<1>9. \A t \in Threads : ThreadOK(t) /\ \A u \in Threads : AloneEarly(t, u)
  BY <1>4 DEF ThreadOK, AloneEarly, Works
<1>10. OnceOK
  BY <1>2, <1>4 DEF OnceOK, Works
<1> QED
  BY <1>1, <1>6, <1>7, <1>8, <1>9, <1>10 DEF Inv

LEMMA StutterInv ==
  ASSUME Inv, UNCHANGED vars
  PROVE  Inv'
<1>1. TypeInv /\ (\A u \in Threads : ThreadOK(u)) /\ UNCHANGED vars
  BY DEF Inv
<1>2. TypeInv'
  BY <1>1 DEF TypeInv, vars
<1>3. \A j \in Tasks : Monotone(j)
  <2>1. \A j \in Tasks : Len(runs[j]) \in Nat
    BY <1>1, Typed
  <2> QED
    BY <1>1, <2>1 DEF Monotone, vars
<1>4. Aside
  BY <1>1, <1>3 DEF Aside, ThreadOK, vars
<1> QED
  BY <1>2, <1>4, AsideInv

LEMMA NextInv ==
  ASSUME Inv, [Next]_vars
  PROVE  Inv'
<1>1. ASSUME NEW t \in Threads, NEW k \in Tasks, NEW kind \in Kinds, Begin(t, k, kind) PROVE Inv'
  BY <1>1, BeginInv
<1>2. ASSUME NEW t \in Threads, NEW k \in Tasks, ResumeTask(t, k) PROVE Inv'
  BY <1>2, ResumesInv DEF ResumeTask
<1>3. ASSUME NEW t \in Threads, NEW k \in Tasks, NEW d \in {"approved", "rejected"},
             DecideAndResume(t, k, d)
      PROVE  Inv'
  BY <1>3, DecideAndResumeInv
<1>4. ASSUME NEW t \in Threads, NEW k \in Tasks, CompleteToolRun(t, k) PROVE Inv'
  BY <1>4, CompleteToolRunInv
<1>5. ASSUME NEW t \in Threads, Continue(t) PROVE Inv'
  BY <1>5, ContinueInv
<1>6. ASSUME NEW t \in Threads, ResumeDecided(t) PROVE Inv'
  BY <1>6, ResumeDecidedInv
<1>7. ASSUME NEW t \in Threads, ToolRunCompletes(t) PROVE Inv'
  BY <1>7, ToolRunCompletesInv
<1>8. ASSUME NEW k \in Tasks, NEW a \in 1 .. Len(approvals[k]), NEW d \in Final \cup {"need_more_info"},
             DecideApproval(k, a, d)
      PROVE  Inv'
  BY <1>8, DecideApprovalInv
<1>9. ASSUME NEW k \in Tasks, PauseTask(k) \/ CancelTask(k) PROVE Inv'
  BY <1>9, SetStatusInv DEF PauseTask, CancelTask
<1>10. ASSUME NEW k \in Tasks, CompleteSkillRun(k) PROVE Inv'
  BY <1>10, CompleteSkillRunInv
<1>11. ASSUME UNCHANGED vars PROVE Inv'
  BY <1>11, StutterInv
<1> QED
  BY <1>1, <1>2, <1>3, <1>4, <1>5, <1>6, <1>7, <1>8, <1>9, <1>10, <1>11 DEF Next

LEMMA InvAlways == Spec => []Inv
<1>1. Init => Inv
  BY InitInv
<1>2. Inv /\ [Next]_vars => Inv'
  BY NextInv
<1> QED
  BY <1>1, <1>2, PTL DEF Spec

-----------------------------------------------------------------------------
(* The properties                                                          *)

LEMMA InvTypes ==
  ASSUME Inv
  PROVE  TypeOK
<1>1. ASSUME NEW k \in Tasks
      PROVE  /\ task[k].status \in TaskStatus
             /\ task[k].approval \in 0 .. Len(approvals[k])
             /\ \A i \in DOMAIN runs[k] :
                  /\ runs[k][i].status \in RunStatus
                  /\ runs[k][i].gate \in 0 .. Len(approvals[k])
             /\ \A a \in DOMAIN approvals[k] : approvals[k][a] \in Final \cup Undecided
             /\ inner[k].status \in {"none", "waiting", "done", "refused"}
             /\ inner[k].approval \in 0 .. Len(approvals[k])
  <2>1. TypeInv /\ RunsOK(k) /\ TaskOK(k)
    BY DEF Inv
  <2>2. /\ task[k] \in TaskRecords /\ inner[k] \in InnerRecords
        /\ \A i \in DOMAIN runs[k] : runs[k][i] \in RunRecords
        /\ \A a \in DOMAIN approvals[k] : approvals[k][a] \in Final \cup Undecided
    BY <2>1, Typed
  <2> QED
    BY <2>1, <2>2 DEF RunsOK, TaskOK, TaskRecords, InnerRecords, RunRecords
<1>2. ASSUME NEW t \in Threads, th[t].pc = "call"
      PROVE  /\ th[t].run \in DOMAIN runs[th[t].task]
             /\ th[t].asked \in 0 .. Len(approvals[th[t].task])
  BY <1>2 DEF Inv, ThreadOK
<1> QED
  BY <1>1, <1>2 DEF TypeOK, Inv, TypeInv

LEMMA InvAgrees ==
  ASSUME Inv
  PROVE  TaskAgreesWithRun
<1>1. SUFFICES ASSUME NEW k \in Tasks, Quiet(k), runs[k] # << >>
               PROVE  task[k].status \in StatusUnder(Latest(k))
  BY DEF TaskAgreesWithRun
<1>2. UndisturbedOK(k) /\ k \notin disturbed /\ TypeInv
  BY <1>1 DEF Quiet, Inv
<1>3. Len(runs[k]) = 1
  <2>1. Len(runs[k]) <= 1 /\ Len(runs[k]) \in Nat /\ runs[k] \in Seq(RunRecords)
    BY <1>2, Typed DEF UndisturbedOK
  <2>2. Len(runs[k]) # 0
    BY <1>1, <2>1
  <2> QED
    BY <2>1, <2>2, OneOrNone
<1>4. \A t \in Threads : ~Works(t, k, 1)
  BY <1>1 DEF Quiet, Works
<1> QED
  BY <1>2, <1>3, <1>4 DEF UndisturbedOK, Latest

LEMMA InvGated ==
  ASSUME Inv
  PROVE  GatedWork
<1>1. ASSUME NEW t \in Threads, th[t].pc = "call", runs[th[t].task][th[t].run].gate # 0,
             th[t].at \notin Refusals
      PROVE  Consented(th[t].task, th[t].run)
  BY <1>1 DEF Inv, ThreadOK
<1>2. ASSUME NEW k \in Tasks, NEW i \in DOMAIN runs[k], runs[k][i].gate # 0,
             runs[k][i].left \in {"completed", "needs_approval"}
      PROVE  Consented(k, i)
  BY <1>2 DEF Inv, RunsOK
<1> QED
  BY <1>1, <1>2 DEF GatedWork

LEMMA InvOnce ==
  ASSUME Inv
  PROVE  FinishedOnce
BY DEF Inv, OnceOK, FinishedOnce

LEMMA InvResumes ==
  ASSUME Inv
  PROVE  ApprovedCanResume
<1>1. SUFFICES ASSUME NEW k \in Tasks, Quiet(k), runs[k] # << >>, Latest(k).status = "waiting_approval",
                      task[k].status = "needs_approval", task[k].approval # 0,
                      approvals[k][task[k].approval] = "approved", inner[k].status # "refused"
               PROVE  ResumeOutcomes(k) # {}
  BY DEF ApprovedCanResume
<1> DEFINE r == runs[k][1]
           v == approvals[k][task[k].approval]
<1>2. UndisturbedOK(k) /\ k \notin disturbed /\ TypeInv /\ RunsOK(k) /\ TaskOK(k)
  BY <1>1 DEF Quiet, Inv
<1>3. Len(runs[k]) = 1 /\ DOMAIN runs[k] = {1}
  <2>1. /\ Len(runs[k]) <= 1 /\ Len(runs[k]) \in Nat /\ runs[k] \in Seq(RunRecords)
        /\ DOMAIN runs[k] = 1 .. Len(runs[k])
    BY <1>2, Typed DEF UndisturbedOK
  <2>2. Len(runs[k]) # 0
    BY <1>1, <2>1
  <2>3. Len(runs[k]) = 1
    BY <2>1, <2>2, OneOrNone
  <2> QED
    BY <2>1, <2>3
<1>4. r.status = "waiting_approval" /\ r.gate # 0 /\ r.kind \in Gated /\ task[k].approval = r.gate
  BY <1>1, <1>2, <1>3 DEF Latest, RunsOK, TaskOK
<1>5. Resumable(k) = 1
  <2>1. CASE r.kind \in {"skill_missing", "approval", "github", "tool_call"}
    BY <1>3, <2>1 DEF Resumable
  <2>2. CASE r.kind = "document"
    <3>1. {i \in DOMAIN runs[k] : runs[k][i].kind = "document"} = {1}
      BY <1>3, <2>2
    <3>2. (CHOOSE i \in {1} : \A j \in {1} : j <= i) = 1
      OBVIOUS
    <3> QED
      BY <1>3, <2>2, <3>1, <3>2 DEF Resumable
  <2> QED
    BY <1>4, <2>1, <2>2 DEF Gated
<1>6. ResumeOutcomes(k) =
        CASE r.kind = "document" -> ResumeDocument(v)
          [] r.kind = "skill_missing" -> ResumeSkillMissing(k)
          [] r.kind = "approval" -> ResumeApproval(v)
          [] r.kind = "github" -> ResumeGithub(v)
          [] r.kind = "tool_call" -> ResumeToolCall(k, v)
  <2>1. ~(\/ task[k].status # "needs_approval" \/ task[k].approval = 0
          \/ Resumable(k) = 0 \/ runs[k][Resumable(k)].status # "waiting_approval")
    BY <1>1, <1>4, <1>5
  <2>2. runs[k][Resumable(k)] = r
    BY <1>5
  <2> HIDE DEF v
  <2>3. v = approvals[k][task[k].approval]
    BY DEF v
  <2> QED
    BY <2>1, <2>2, <2>3 DEF ResumeOutcomes
<1>7. CASE r.kind = "document"
  <2>1. Go("write", "executing") \in ResumeDocument(v)
    BY <1>1 DEF ResumeDocument
  <2> QED
    BY <1>6, <1>7, <2>1
<1>8. CASE r.kind = "skill_missing"
  <2>1. inner[k].status \in {"waiting", "done"} /\ inner[k].approval = task[k].approval
    <3>1. inner[k].status \in {"none", "waiting", "done", "refused"}
      BY <1>2, Typed DEF InnerRecords
    <3> QED
      BY <1>1, <1>2, <1>3, <1>4, <1>8, <3>1 DEF TaskOK
  <2>2. ResumeSkillMissing(k) # {}
    BY <1>1, <2>1 DEF ResumeSkillMissing, Propose
  <2> QED
    BY <1>6, <1>8, <2>2
<1>9. CASE r.kind = "approval"
  BY <1>1, <1>6, <1>9 DEF ResumeApproval
<1>10. CASE r.kind = "github"
  BY <1>1, <1>6, <1>10 DEF ResumeGithub
<1>11. CASE r.kind = "tool_call"
  BY <1>1, <1>6, <1>11 DEF ResumeToolCall
<1> QED
  BY <1>4, <1>7, <1>8, <1>9, <1>10, <1>11 DEF Gated

-----------------------------------------------------------------------------
(* Theorems                                                                *)

\* Whatever requests interleave, every record keeps its type, every thread's
\* run exists, and every approval that a task, a run or a Skill or Tool Run
\* links has been asked for.
THEOREM TypeCorrect == Spec => []TypeOK
<1>1. Inv => TypeOK
  BY InvTypes
<1> QED
  BY <1>1, InvAlways, PTL

\* However the requests on it interleave, a task nobody paused, cancelled or
\* ran again is left in a status its workflow run accounts for: complete_run
\* follows every transition, and a second resumption reaches the same verdict.
THEOREM QuietTaskAgreesWithRun == Spec => []TaskAgreesWithRun
<1>1. Inv => TaskAgreesWithRun
  BY InvAgrees
<1> QED
  BY <1>1, InvAlways, PTL

\* A run that waited for a decision works and ends well only with the consent
\* it waited for, whichever thread resumes it and however often it is resumed.
THEOREM WorkIsGated == Spec => []GatedWork
<1>1. Inv => GatedWork
  BY InvGated
<1> QED
  BY <1>1, InvAlways, PTL

\* As long as nobody calls /resume, decisions on /tasks/{id}/decision, repeated
\* or concurrent, make complete_run end each workflow run at most once.
THEOREM RunFinishesOnce == Spec => []FinishedOnce
<1>1. Inv => FinishedOnce
  BY InvOnce
<1> QED
  BY <1>1, InvAlways, PTL

\* An undisturbed task whose approval was given is never stuck: resume_task
\* finds the run that waits for it and what that run waited for.
THEOREM ApprovedTaskResumes == Spec => []ApprovedCanResume
<1>1. Inv => ApprovedCanResume
  BY InvResumes
<1> QED
  BY <1>1, InvAlways, PTL

=============================================================================
