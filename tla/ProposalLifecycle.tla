------------------------- MODULE ProposalLifecycle --------------------------
(***************************************************************************)
(* Skill, Agent, improvement and GitHub proposals: asked for, approved,    *)
(* tested in the sandbox and registered.  Request threads share the        *)
(* records; other threads run while one syncs.  A sync lists all records   *)
(* when it starts and writes them table by table: an approval or proposal  *)
(* is written as it is when its turn comes, a catalog entry, which is      *)
(* replaced when it changes, as it was listed.  A crash keeps the rows,    *)
(* and a process whose two catalogs disagree does not start.               *)
(***************************************************************************)
EXTENDS Integers

CONSTANTS Threads, Proposals,
          Staff,        \* the agents of the default catalog
          AgentIds, SkillIds,
          Drafts,       \* what each proposal may ask for
          AllowLists,   \* the lists of agents a catalog skill may allow
          Decisions,    \* the decisions Human Root may take
          None,
          MaxDocs, MaxCrashes   \* bounds on documents of a proposal, on crashes

Kinds == {"skill", "agent", "improvement", "github"}

ASSUME DraftsAssumption ==
  \A p \in Proposals : \A d \in Drafts[p] :
    /\ d.kind \in Kinds
    /\ d.kind = "skill" => d.id \in SkillIds
    /\ d.kind = "agent" => d.id \in AgentIds
    /\ d.asks \in {"pending", "blocked", "none", "approved"}
    /\ d.sound \in BOOLEAN
ASSUME DecisionsAssumption ==
  Decisions \subseteq {"approved", "rejected", "modified", "blocked", "need_more_info"}
ASSUME IdsAssumption == Staff \subseteq AgentIds /\ AllowLists \subseteq SUBSET AgentIds
ProposalType ==
  [draft : UNION {Drafts[p] : p \in Proposals}, sandbox : {"not_run", "passed", "failed"},
   status : {"proposed", "pending_approval", "approved", "rejected", "blocked", "registered"}]

ASSUME NoneAssumption ==
  /\ \A skills \in SUBSET SkillIds, from \in Proposals \cup {None} :
        None # [skills |-> skills, from |-> from]
  /\ \A agents \in SUBSET AgentIds, from \in Proposals \cup {None} :
        None # [agents |-> agents, from |-> from]
  /\ None \notin Proposals \cup ProposalType
ASSUME ThreadsAssumption == Threads # {}
ASSUME BoundsAssumption == MaxDocs \in Nat /\ MaxCrashes \in Nat

VARIABLES
  mem,        \* the records of the process
  db,         \* the stored rows
  th,         \* what each request thread is doing
  fresh,      \* proposal ids not drawn yet
  confirmed,  \* proposals whose registration has returned
  crashes

vars == <<mem, db, th, fresh, confirmed, crashes>>

Undecided == {"pending", "need_more_info"}
Final == {"approved", "rejected", "modified", "blocked"}

Idle == [pc |-> "idle"]

\* Mutated: the approvals are left out of the sync.
SyncNoApprovals(next) ==
  [pc |-> "save_agents", next |-> next,
   catalog   |-> [docs |-> mem'.docs, agents |-> mem'.agents, skills |-> mem'.skills],
   proposals |-> {p \in Proposals : mem'.proposals[p] # None}]

\* The listing of sync, in the state a step leads to.
Sync(next) ==
  [pc |-> "save_approvals", next |-> next,
   approvals |-> {p \in Proposals : mem'.approvals[p] # "none"},
   catalog   |-> [docs |-> mem'.docs, agents |-> mem'.agents, skills |-> mem'.skills],
   proposals |-> {p \in Proposals : mem'.proposals[p] # None}]

Init ==
  /\ mem = [agents    |-> [a \in AgentIds |->
                             IF a \in Staff THEN [skills |-> {}, from |-> None] ELSE None],
            skills    |-> [s \in SkillIds |-> None],
            docs      |-> [p \in Proposals |-> 0],
            approvals |-> [p \in Proposals |-> "none"],
            proposals |-> [p \in Proposals |-> None]]
  /\ db = mem
  /\ th = [t \in Threads |-> Idle]
  /\ fresh = Proposals
  /\ confirmed = {} /\ crashes = 0

\* allow_agent and grant_skill: the entry is replaced by one with one more.
AllowAgent(skill, a) == [skill EXCEPT !.agents = @ \cup {a}]
GrantSkill(agent, s) == [agent EXCEPT !.skills = @ \cup {s}]

Agents == {a \in AgentIds : mem.agents[a] # None}
Skills == {s \in SkillIds : mem.skills[s] # None}

-----------------------------------------------------------------------------
(* missing_skill, missing_agent, propose_improvement_from_review and       *)
(* analyze_github_absorption                                               *)

\* Improvements and GitHub analyses are asked for by a registered agent.
MayPropose(t, p, d) ==
  /\ th[t].pc = "idle"
  /\ p \in fresh
  /\ d.kind \in {"improvement", "github"} => d.by \in Agents
  /\ fresh' = fresh \ {p}
  /\ UNCHANGED <<confirmed, crashes>>

\* request_action_approval: what is asked follows from the draft's risk and
\* from the actor's level; the proposal is not stored before it has synced.
Propose(t, p, d) ==
  /\ MayPropose(t, p, d)
  /\ d.asks # "approved"
  /\ mem' = [mem EXCEPT !.approvals[p] = d.asks]
  /\ th' = [th EXCEPT ![t] = Sync([pc |-> "store", p |-> p, draft |-> d])]
  /\ UNCHANGED db

\* Mutated: the status of the approval is taken over.
StatusOf(v) == v

\* _proposal_status_from_approval
StatusFrom(v) ==
  CASE v = "none" -> "proposed"
    [] v \in {"blocked", "approved", "rejected"} -> v
    [] OTHER -> "pending_approval"

NewProposal(d, v) == [draft |-> d, status |-> StatusFrom(v), sandbox |-> "not_run"]

Store(t) ==
  LET p == th[t].p IN
  /\ th[t].pc = "store"
  /\ mem' = [mem EXCEPT !.proposals[p] = NewProposal(th[t].draft, mem.approvals[p])]
  /\ th' = [th EXCEPT ![t] = Sync(Idle)]
  /\ UNCHANGED <<db, fresh, confirmed, crashes>>

\* The GitHub workflow hands over its own approval, decided and stored before.
ProposeApproved(t, p, d) ==
  /\ MayPropose(t, p, d)
  /\ d.asks = "approved" /\ d.kind = "github"
  /\ mem' = [mem EXCEPT !.approvals[p] = "approved",
                        !.proposals[p] = NewProposal(d, "approved")]
  /\ db' = [db EXCEPT !.approvals[p] = "approved"]
  /\ th' = [th EXCEPT ![t] = Sync(Idle)]

DecideApproval(t, p, v) ==
  /\ th[t].pc = "idle"
  /\ mem.approvals[p] \in Undecided
  /\ mem' = [mem EXCEPT !.approvals[p] = v]
  /\ th' = [th EXCEPT ![t] = Sync(Idle)]
  /\ UNCHANGED <<db, fresh, confirmed, crashes>>

-----------------------------------------------------------------------------
(* The sandbox and the registration of a proposal                          *)

\* _refresh_proposal_statuses: a registered proposal, and one that needed no
\* approval, is left alone.
Refreshed(p) ==
  LET q == mem.proposals[p] IN
  IF q = None \/ mem.approvals[p] = "none" THEN q
  ELSE IF q.status = "registered" THEN q
  ELSE [q EXCEPT !.status = StatusFrom(mem.approvals[p])]

\* Each request refreshes all proposals first, and syncs when that changed one.
Stale == \E p \in Proposals : Refreshed(p) # mem.proposals[p]

Refresh(t, next) ==
  /\ th[t].pc = "idle"
  /\ Stale
  /\ mem' = [mem EXCEPT !.proposals = [p \in Proposals |-> Refreshed(p)]]
  /\ th' = [th EXCEPT ![t] = Sync(next)]
  /\ UNCHANGED <<db, fresh, confirmed, crashes>>

RefreshFor(t, p, what) ==
  /\ mem.proposals[p] # None
  /\ Refresh(t, [pc |-> what, p |-> p])

At(t, p, what) ==
  /\ mem.proposals[p] # None
  /\ \/ th[t] = [pc |-> what, p |-> p]
     \/ th[t].pc = "idle" /\ ~Stale

\* ProposalSandbox
Passes(d) == d.sound /\ (d.kind \in {"skill", "github"} => d.by \in Agents)

Sandbox(t, p) ==
  /\ At(t, p, "sandbox")
  /\ mem' = [mem EXCEPT !.proposals[p].sandbox =
               IF Passes(mem.proposals[p].draft) THEN "passed" ELSE "failed"]
  /\ th' = [th EXCEPT ![t] = Sync(Idle)]
  /\ UNCHANGED <<db, fresh, confirmed, crashes>>

\* Mutated: the approval is not looked at.
RegistrableTested(p) == mem.proposals[p].sandbox = "passed"

\* _ensure_proposal_approved and _ensure_proposal_sandbox_passed
Registrable(p) == mem.approvals[p] = "approved" /\ mem.proposals[p].sandbox = "passed"

\* The id a skill or agent would get is taken, or its agent is not registered.
Unlistable(d) ==
  \/ d.kind = "skill" /\ (d.id \in Skills \/ d.by \notin Agents)
  \/ d.kind = "agent" /\ d.id \in Agents

RegisterRefused(t, p) ==
  /\ At(t, p, "register")
  /\ ~Registrable(p) \/ Unlistable(mem.proposals[p].draft)
  /\ th' = [th EXCEPT ![t] = Idle]
  /\ UNCHANGED <<mem, db, fresh, confirmed, crashes>>

\* Mutated: the agent is not given the skill.
SkillOnly(p, d) ==
  [mem EXCEPT !.skills[d.id] = [agents |-> {d.by}, from |-> p]]

\* skills.register and grant_skill
WithSkill(p, d) ==
  [mem EXCEPT !.skills[d.id] = [agents |-> {d.by}, from |-> p],
              !.agents[d.by] = GrantSkill(@, d.id)]

\* Proposed agents start without skills.
WithAgent(p, d) == [mem EXCEPT !.agents[d.id] = [skills |-> {}, from |-> p]]

WithDoc(p) == [mem EXCEPT !.docs[p] = @ + 1]

Register(t, p) ==
  LET d == mem.proposals[p].draft
      published == CASE d.kind = "skill" -> WithSkill(p, d)
                     [] d.kind = "agent" -> WithAgent(p, d)
                     [] OTHER -> WithDoc(p) IN
  /\ At(t, p, "register")
  /\ Registrable(p) /\ ~Unlistable(d)
  /\ d.kind \in {"improvement", "github"} => mem.docs[p] < MaxDocs
  /\ mem' = [published EXCEPT !.proposals[p].status = "registered"]
  /\ th' = [th EXCEPT ![t] = Sync([pc |-> "return", p |-> p])]
  /\ UNCHANGED <<db, fresh, confirmed, crashes>>

-----------------------------------------------------------------------------
(* The catalog endpoints register_agent and register_skill                 *)

CatalogAgent(t, a, skills) ==
  /\ th[t].pc = "idle"
  /\ a \notin Agents /\ skills \subseteq Skills
  /\ mem' = [mem EXCEPT
       !.agents[a] = [skills |-> skills, from |-> None],
       !.skills = [s \in SkillIds |-> IF s \in skills
                     THEN AllowAgent(@[s], a) ELSE @[s]]]
  /\ th' = [th EXCEPT ![t] = Sync(Idle)]
  /\ UNCHANGED <<db, fresh, confirmed, crashes>>

CatalogSkill(t, s, agents) ==
  /\ th[t].pc = "idle"
  /\ s \notin Skills /\ agents \subseteq Agents
  /\ mem' = [mem EXCEPT
       !.skills[s] = [agents |-> agents, from |-> None],
       !.agents = [a \in AgentIds |-> IF a \in agents
                     THEN GrantSkill(@[a], s) ELSE @[a]]]
  /\ th' = [th EXCEPT ![t] = Sync(Idle)]
  /\ UNCHANGED <<db, fresh, confirmed, crashes>>

-----------------------------------------------------------------------------
(* sync_state, one table at a time                                         *)

Saved(t, next) ==
  /\ th' = [th EXCEPT ![t] = next]
  /\ UNCHANGED <<mem, fresh, crashes>>

SaveApprovals(t) ==
  /\ th[t].pc = "save_approvals"
  /\ db' = [db EXCEPT !.approvals = [p \in Proposals |->
              IF p \in th[t].approvals THEN mem.approvals[p] ELSE @[p]]]
  /\ UNCHANGED confirmed
  /\ Saved(t, [pc |-> "save_agents", next |-> th[t].next,
              catalog |-> th[t].catalog, proposals |-> th[t].proposals])

Row(listed, stored) == IF listed # None THEN listed ELSE stored

\* Documents are only added; agents and then skills are written as listed.
SaveAgents(t) ==
  LET listed == th[t].catalog IN
  /\ th[t].pc = "save_agents"
  /\ db' = [db EXCEPT
       !.docs = [p \in Proposals |-> IF @[p] < listed.docs[p] THEN listed.docs[p] ELSE @[p]],
       !.agents = [a \in AgentIds |-> Row(listed.agents[a], @[a])]]
  /\ UNCHANGED confirmed
  /\ Saved(t, [pc |-> "save_skills", next |-> th[t].next,
              skills |-> listed.skills, proposals |-> th[t].proposals])

SaveSkills(t) ==
  /\ th[t].pc = "save_skills"
  /\ db' = [db EXCEPT !.skills = [s \in SkillIds |-> Row(th[t].skills[s], @[s])]]
  /\ UNCHANGED confirmed
  /\ Saved(t, [pc |-> "save_proposals", next |-> th[t].next,
              proposals |-> th[t].proposals])

\* A registration returns when its sync has.
SaveProposals(t) ==
  LET next == th[t].next
      returns == next.pc = "return" IN
  /\ th[t].pc = "save_proposals"
  /\ db' = [db EXCEPT !.proposals = [p \in Proposals |->
              IF p \in th[t].proposals THEN mem.proposals[p] ELSE @[p]]]
  /\ confirmed' = confirmed \cup (IF returns THEN {next.p} ELSE {})
  /\ Saved(t, IF returns THEN Idle ELSE next)

\* _validate_catalog_references: what one catalog grants the other knows.
References(r) ==
  \A a \in AgentIds, s \in SkillIds :
    (r.agents[a] # None /\ s \in r.agents[a].skills)
      <=> (r.skills[s] # None /\ a \in r.skills[s].agents)

Down == [pc |-> "down"]
Up == \A t \in Threads : th[t] # Down

\* The process dies and a new one loads the rows, if it can.
Crash ==
  /\ crashes < MaxCrashes
  /\ Up
  /\ crashes' = crashes + 1
  /\ mem' = db
  /\ th' = [t \in Threads |-> IF References(db) THEN Idle ELSE Down]
  /\ UNCHANGED <<db, fresh, confirmed>>

-----------------------------------------------------------------------------
Next ==
  \/ \E t \in Threads :
       \/ \E p \in Proposals :
            \/ \E d \in Drafts[p] : Propose(t, p, d) \/ ProposeApproved(t, p, d)
            \/ \E v \in Decisions : DecideApproval(t, p, v)
            \/ \E what \in {"sandbox", "register"} : RefreshFor(t, p, what)
            \/ Sandbox(t, p) \/ RegisterRefused(t, p) \/ Register(t, p)
       \/ Store(t) \/ Refresh(t, Idle)      \* list_skill_proposals and its like
       \/ \E a \in AgentIds, skills \in SUBSET SkillIds : CatalogAgent(t, a, skills)
       \/ \E s \in SkillIds, agents \in AllowLists : CatalogSkill(t, s, agents)
       \/ SaveApprovals(t) \/ SaveAgents(t) \/ SaveSkills(t) \/ SaveProposals(t)
  \/ Crash

Spec == Init /\ [][Next]_vars

-----------------------------------------------------------------------------
RecordsOK(r) ==
  /\ r.agents \in [AgentIds -> {None} \cup
       [skills : SUBSET SkillIds, from : Proposals \cup {None}]]
  /\ r.skills \in [SkillIds -> {None} \cup
       [agents : SUBSET AgentIds, from : Proposals \cup {None}]]
  /\ r.docs \in [Proposals -> 0..MaxDocs]
  /\ r.approvals \in [Proposals -> {"none"} \cup Undecided \cup Final]
  /\ r.proposals \in [Proposals -> {None} \cup ProposalType]

\* The records in memory and in the rows are those of the models, whatever
\* mixture of moments a crash left.
TypeOK ==
  /\ RecordsOK(mem) /\ RecordsOK(db)
  /\ fresh \subseteq Proposals /\ confirmed \subseteq Proposals
  /\ crashes \in 0..MaxCrashes

\* Some catalog entry or document of r was made from p.
HasEntry(r, p) ==
  \/ \E s \in SkillIds : r.skills[s] # None /\ r.skills[s].from = p
  \/ \E a \in AgentIds : r.agents[a] # None /\ r.agents[a].from = p
  \/ r.docs[p] > 0

\* In a process that has not been restarted a registered proposal has the
\* entry it was registered for, its approval stands, and no later sandbox
\* run has failed it: of proposals with one name only one gets registered.
RegisteredIsEarned ==
  crashes = 0 =>
    \A p \in Proposals :
      (mem.proposals[p] # None /\ mem.proposals[p].status = "registered") =>
        /\ HasEntry(mem, p)
        /\ mem.approvals[p] = "approved"
        /\ mem.proposals[p].sandbox = "passed"

\* The two catalogs of a running process agree on who may use what, through
\* proposals and the catalog endpoints alike and whatever rows a crash left:
\* the Skill Runtime looks at both.
GrantsMutual == Up => References(mem)

\* A skill whose registration has returned stays callable: the process starts
\* again with the skill granted on both sides.
RegisteredIsCallable ==
  \A p \in confirmed :
    (mem.proposals[p] # None /\ mem.proposals[p].draft.kind = "skill") =>
      LET d == mem.proposals[p].draft IN
      Up /\ d.id \in Skills /\ d.by \in mem.skills[d.id].agents

Gate == INSTANCE CapabilityGate WITH
          approved <- {p \in Proposals : mem.approvals[p] = "approved"},
          published <- {p \in Proposals : HasEntry(mem, p)}

\* Nothing is published without consent, and a registration that has returned
\* survives a crash, although syncs of other threads, begun before it, go on
\* writing the rows: CapabilityGate.
ImplementsGate == Gate!GateSpec
=============================================================================
