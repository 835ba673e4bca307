---------------------- MODULE ProposalLifecycle_proofs ----------------------
(***************************************************************************)
(* Proofs about ProposalLifecycle, for every set of threads, proposals,    *)
(* drafts, agents and skills, and any number of crashes.                   *)
(***************************************************************************)
EXTENDS ProposalLifecycle, TLAPS

-----------------------------------------------------------------------------
(* Shapes                                                                  *)

AllDrafts == UNION {Drafts[p] : p \in Proposals}
Origins == Proposals \cup {None}
AgentRows == {None} \cup [skills : SUBSET SkillIds, from : Origins]
SkillRows == {None} \cup [agents : SUBSET AgentIds, from : Origins]
Asked == {"none"} \cup Undecided \cup Final

Records == [agents : [AgentIds -> AgentRows], skills : [SkillIds -> SkillRows],
            docs : [Proposals -> 0..MaxDocs], approvals : [Proposals -> Asked],
            proposals : [Proposals -> {None} \cup ProposalType]]

Catalogs == [docs : [Proposals -> 0..MaxDocs], agents : [AgentIds -> AgentRows],
             skills : [SkillIds -> SkillRows]]

\* What a thread does after its sync.
Storing == [pc : {"store"}, p : Proposals, draft : AllDrafts]
Returning == [pc : {"return"}, p : Proposals]
Following == [pc : {"sandbox", "register"}, p : Proposals]
Afterwards == {Idle} \cup Storing \cup Following
Continuations == Afterwards \cup Returning

SavingApprovals == [pc : {"save_approvals"}, next : Continuations, approvals : SUBSET Proposals,
                    catalog : Catalogs, proposals : SUBSET Proposals]
SavingAgents == [pc : {"save_agents"}, next : Continuations,
                 catalog : Catalogs, proposals : SUBSET Proposals]
SavingSkills == [pc : {"save_skills"}, next : Continuations,
                 skills : [SkillIds -> SkillRows], proposals : SUBSET Proposals]
SavingProposals == [pc : {"save_proposals"}, next : Continuations, proposals : SUBSET Proposals]
ThreadStates == Afterwards \cup {Down} \cup SavingApprovals \cup SavingAgents
                \cup SavingSkills \cup SavingProposals

TypeInv ==
  /\ mem \in Records /\ db \in Records
  /\ th \in [Threads -> ThreadStates]
  /\ fresh \subseteq Proposals /\ confirmed \subseteq Proposals
  /\ crashes \in 0..MaxCrashes

LEMMA TypeInvImpliesTypeOK == TypeInv => TypeOK
BY DEF TypeInv, TypeOK, RecordsOK, Records, AgentRows, SkillRows, Asked, Origins

LEMMA DraftFacts ==
  ASSUME NEW d \in AllDrafts
  PROVE  /\ d.kind \in Kinds
         /\ d.kind = "skill" => d.id \in SkillIds
         /\ d.kind = "agent" => d.id \in AgentIds
         /\ d.asks \in {"pending", "blocked", "none", "approved"}
         /\ d.sound \in BOOLEAN
BY DraftsAssumption DEF AllDrafts

LEMMA EntriesAreNotNone ==
  /\ \A skills \in SUBSET SkillIds, from \in Origins : [skills |-> skills, from |-> from] # None
  /\ \A agents \in SUBSET AgentIds, from \in Origins : [agents |-> agents, from |-> from] # None
  /\ \A e \in [skills : SUBSET SkillIds, from : Origins] : e # None
  /\ \A e \in [agents : SUBSET AgentIds, from : Origins] : e # None
BY NoneAssumption DEF Origins

\* The pc of a thread tells what its state holds.
LEMMA Phases ==
  ASSUME NEW x \in ThreadStates
  PROVE  /\ x.pc \in {"idle", "store", "sandbox", "register", "down", "save_approvals",
                      "save_agents", "save_skills", "save_proposals"}
         /\ x.pc = "store" => x \in Storing
         /\ x.pc = "save_approvals" => x \in SavingApprovals
         /\ x.pc = "save_agents" => x \in SavingAgents
         /\ x.pc = "save_skills" => x \in SavingSkills
         /\ x.pc = "save_proposals" => x \in SavingProposals
         /\ x.pc = "idle" => x = Idle
         /\ x.pc = "down" => x = Down
BY DEF ThreadStates, Afterwards, Idle, Down, Storing, Following, SavingApprovals,
       SavingAgents, SavingSkills, SavingProposals

LEMMA NextPhases ==
  ASSUME NEW x \in Continuations
  PROVE  /\ x.pc \in {"idle", "store", "sandbox", "register", "return"}
         /\ x.pc = "return" => x \in Returning
         /\ x.pc = "store" => x \in Storing
         /\ x.pc # "return" => x \in Afterwards
BY DEF Continuations, Afterwards, Idle, Storing, Following, Returning

\* A sync lists records and goes on as it was told.
LEMMA SyncShape ==
  ASSUME mem' \in Records, NEW next \in Continuations
  PROVE  /\ Sync(next) \in SavingApprovals
         /\ Sync(next) \in ThreadStates
         /\ Sync(next).next = next
         /\ Sync(next).pc = "save_approvals"
         /\ Sync(next).catalog = [docs |-> mem'.docs, agents |-> mem'.agents,
                                  skills |-> mem'.skills]
         /\ Sync(next).approvals = {p \in Proposals : mem'.approvals[p] # "none"}
         /\ Sync(next).proposals = {p \in Proposals : mem'.proposals[p] # None}
<1>1. [docs |-> mem'.docs, agents |-> mem'.agents, skills |-> mem'.skills] \in Catalogs
  BY DEF Records, Catalogs
<1>2. Sync(next) \in SavingApprovals
  BY <1>1 DEF Sync, SavingApprovals
<1> QED
  BY <1>2 DEF Sync, ThreadStates

LEMMA IdleContinues == Idle \in Afterwards /\ Idle \in Continuations /\ Idle \in ThreadStates
                       /\ Idle.pc = "idle" /\ Idle # Down /\ Down.pc = "down"
BY DEF Afterwards, Continuations, ThreadStates, Idle, Down

-----------------------------------------------------------------------------
(* What each request does to the records.  Begins is common to them: the   *)
(* thread starts a sync and knows how to go on after it.                   *)

Begins(t, next) ==
  /\ mem' \in Records /\ db' \in Records
  /\ next \in Continuations
  /\ th' = [th EXCEPT ![t] = Sync(next)]
  /\ fresh' \subseteq fresh
  /\ UNCHANGED <<confirmed, crashes>>

CatalogsStay == mem'.agents = mem.agents /\ mem'.skills = mem.skills /\ mem'.docs = mem.docs

LEMMA ProposeFacts ==
  ASSUME TypeInv, NEW t \in Threads, NEW p \in Proposals, NEW d \in Drafts[p], Propose(t, p, d)
  PROVE  /\ CatalogsStay /\ mem'.proposals = mem.proposals
         /\ mem'.approvals = [mem.approvals EXCEPT ![p] = d.asks] /\ d.asks # "approved"
         /\ p \in fresh /\ fresh' = fresh \ {p} /\ th[t].pc = "idle" /\ db' = db
         /\ Begins(t, [pc |-> "store", p |-> p, draft |-> d])
<1>1. d \in AllDrafts
  BY DEF AllDrafts
<1>2. d.asks \in Asked
  BY <1>1, DraftFacts DEF Asked, Undecided, Final
<1>3. [pc |-> "store", p |-> p, draft |-> d] \in Continuations
  BY <1>1 DEF Continuations, Afterwards, Storing
<1>4. mem' = [mem EXCEPT !.approvals[p] = d.asks] /\ db' = db
  BY DEF Propose
<1>5. /\ mem' \in Records /\ CatalogsStay /\ mem'.proposals = mem.proposals
      /\ mem'.approvals = [mem.approvals EXCEPT ![p] = d.asks]
  BY <1>2, <1>4 DEF TypeInv, Records, CatalogsStay
<1> QED
  BY <1>3, <1>4, <1>5 DEF Propose, MayPropose, Begins, TypeInv

LEMMA StatusShape ==
  ASSUME NEW v \in Asked
  PROVE  /\ StatusFrom(v) \in {"proposed", "pending_approval", "approved", "rejected", "blocked"}
         /\ StatusFrom(v) # "registered"
BY DEF StatusFrom, Asked, Undecided, Final

LEMMA NewProposalShape ==
  ASSUME NEW d \in AllDrafts, NEW v \in Asked
  PROVE  /\ NewProposal(d, v) \in ProposalType
         /\ NewProposal(d, v).status # "registered"
         /\ NewProposal(d, v).sandbox = "not_run"
<1>1. StatusFrom(v) \in {"proposed", "pending_approval", "approved", "rejected", "blocked"}
  BY StatusShape
<1>2. StatusFrom(v) # "registered"
  BY StatusShape
<1> QED
  BY <1>1, <1>2 DEF NewProposal, ProposalType, AllDrafts

LEMMA StoreFacts ==
  ASSUME TypeInv, NEW t \in Threads, Store(t)
  PROVE  /\ CatalogsStay /\ mem'.approvals = mem.approvals
         /\ th[t] \in Storing
         /\ mem'.proposals = [mem.proposals EXCEPT
                                ![th[t].p] = NewProposal(th[t].draft, mem.approvals[th[t].p])]
         /\ db' = db /\ fresh' = fresh
         /\ Begins(t, Idle)
<1>1. th[t] \in Storing
  BY Phases DEF TypeInv, Store
<1>2. th[t].p \in Proposals /\ th[t].draft \in AllDrafts
  BY <1>1 DEF Storing
<1> DEFINE q == NewProposal(th[t].draft, mem.approvals[th[t].p])
<1>3. q \in ProposalType
  BY <1>2, NewProposalShape DEF TypeInv, Records
<1>4. mem' = [mem EXCEPT !.proposals[th[t].p] = q] /\ db' = db
  BY DEF Store
<1> HIDE DEF q
<1>5. /\ mem' \in Records /\ CatalogsStay /\ mem'.approvals = mem.approvals
      /\ mem'.proposals = [mem.proposals EXCEPT ![th[t].p] = q]
  BY <1>2, <1>3, <1>4 DEF TypeInv, Records, CatalogsStay
<1> QED
  BY <1>1, <1>4, <1>5, IdleContinues DEF Store, Begins, TypeInv, q

LEMMA ProposeApprovedFacts ==
  ASSUME TypeInv, NEW t \in Threads, NEW p \in Proposals, NEW d \in Drafts[p],
         ProposeApproved(t, p, d)
  PROVE  /\ CatalogsStay
         /\ mem'.approvals = [mem.approvals EXCEPT ![p] = "approved"]
         /\ mem'.proposals = [mem.proposals EXCEPT ![p] = NewProposal(d, "approved")]
         /\ db'.agents = db.agents /\ db'.skills = db.skills /\ db'.docs = db.docs
         /\ db'.proposals = db.proposals
         /\ db'.approvals = [db.approvals EXCEPT ![p] = "approved"]
         /\ p \in fresh /\ fresh' = fresh \ {p} /\ th[t].pc = "idle"
         /\ d \in AllDrafts
         /\ Begins(t, Idle)
<1>1. d \in AllDrafts
  BY DEF AllDrafts
<1>2. "approved" \in Asked
  BY DEF Asked, Final
<1> DEFINE q == NewProposal(d, "approved")
<1>3. q \in ProposalType
  BY <1>1, <1>2, NewProposalShape
<1>4. /\ mem' = [mem EXCEPT !.approvals[p] = "approved", !.proposals[p] = q]
      /\ db' = [db EXCEPT !.approvals[p] = "approved"]
  BY DEF ProposeApproved
<1> HIDE DEF q
<1>5. /\ mem' \in Records /\ CatalogsStay
      /\ mem'.approvals = [mem.approvals EXCEPT ![p] = "approved"]
      /\ mem'.proposals = [mem.proposals EXCEPT ![p] = q]
  BY <1>2, <1>3, <1>4 DEF TypeInv, Records, CatalogsStay
<1>6. /\ db' \in Records /\ db'.proposals = db.proposals
      /\ db'.agents = db.agents /\ db'.skills = db.skills /\ db'.docs = db.docs
      /\ db'.approvals = [db.approvals EXCEPT ![p] = "approved"]
  BY <1>2, <1>4 DEF TypeInv, Records
<1> QED
  BY <1>1, <1>5, <1>6, IdleContinues DEF ProposeApproved, MayPropose, Begins, q

LEMMA DecideFacts ==
  ASSUME TypeInv, NEW t \in Threads, NEW p \in Proposals, NEW v \in Decisions,
         DecideApproval(t, p, v)
  PROVE  /\ CatalogsStay /\ mem'.proposals = mem.proposals
         /\ mem'.approvals = [mem.approvals EXCEPT ![p] = v]
         /\ mem.approvals[p] \in Undecided
         /\ th[t].pc = "idle" /\ db' = db /\ fresh' = fresh
         /\ Begins(t, Idle)
<1>1. v \in Asked
  BY DecisionsAssumption DEF Asked, Undecided, Final
<1>2. mem' = [mem EXCEPT !.approvals[p] = v] /\ db' = db
  BY DEF DecideApproval
<1>3. /\ mem' \in Records /\ CatalogsStay /\ mem'.proposals = mem.proposals
      /\ mem'.approvals = [mem.approvals EXCEPT ![p] = v]
  BY <1>1, <1>2 DEF TypeInv, Records, CatalogsStay
<1> QED
  BY <1>2, <1>3, IdleContinues DEF DecideApproval, Begins, TypeInv

LEMMA RefreshedShape ==
  ASSUME TypeInv, NEW p \in Proposals
  PROVE  /\ Refreshed(p) \in {None} \cup ProposalType
         /\ Refreshed(p) = None <=> mem.proposals[p] = None
         /\ Refreshed(p) # None =>
              /\ Refreshed(p).draft = mem.proposals[p].draft
              /\ Refreshed(p).sandbox = mem.proposals[p].sandbox
              /\ Refreshed(p).status = "registered" <=> mem.proposals[p].status = "registered"
<1> DEFINE q == mem.proposals[p]
           v == mem.approvals[p]
           r == [q EXCEPT !.status = StatusFrom(v)]
<1>1. q \in {None} \cup ProposalType /\ v \in Asked /\ None \notin ProposalType
  BY NoneAssumption DEF TypeInv, Records
<1>2. /\ StatusFrom(v) \in {"proposed", "pending_approval", "approved", "rejected", "blocked"}
      /\ StatusFrom(v) # "registered"
  BY <1>1, StatusShape
<1>3. Refreshed(p) = IF q = None \/ v = "none" THEN q
                     ELSE IF q.status = "registered" THEN q ELSE r
  BY DEF Refreshed
<1>4. q # None => /\ r \in ProposalType
                  /\ r.draft = q.draft /\ r.sandbox = q.sandbox /\ r.status # "registered"
  BY <1>1, <1>2 DEF ProposalType
<1> HIDE DEF q, v, r
<1>5. /\ Refreshed(p) \in {None} \cup ProposalType
      /\ Refreshed(p) = None <=> q = None
  BY <1>1, <1>3, <1>4
<1>6. Refreshed(p) # None => /\ Refreshed(p).draft = q.draft
                             /\ Refreshed(p).sandbox = q.sandbox
                             /\ Refreshed(p).status = "registered" <=> q.status = "registered"
  BY <1>1, <1>3, <1>4
<1> QED
  BY <1>5, <1>6 DEF q

LEMMA RefreshFacts ==
  ASSUME TypeInv, NEW t \in Threads, NEW next \in Afterwards, Refresh(t, next)
  PROVE  /\ CatalogsStay /\ mem'.approvals = mem.approvals
         /\ mem'.proposals = [p \in Proposals |-> Refreshed(p)]
         /\ th[t].pc = "idle" /\ db' = db /\ fresh' = fresh
         /\ Begins(t, next)
<1>1. mem' = [mem EXCEPT !.proposals = [p \in Proposals |-> Refreshed(p)]] /\ db' = db
  BY DEF Refresh
<1>2. [p \in Proposals |-> Refreshed(p)] \in [Proposals -> {None} \cup ProposalType]
  BY RefreshedShape
<1>3. /\ mem' \in Records /\ CatalogsStay /\ mem'.approvals = mem.approvals
      /\ mem'.proposals = [p \in Proposals |-> Refreshed(p)]
  BY <1>1, <1>2 DEF TypeInv, Records, CatalogsStay
<1>4. next \in Continuations
  BY DEF Continuations
<1> QED
  BY <1>1, <1>3, <1>4 DEF Refresh, Begins, TypeInv

LEMMA AtFacts ==
  ASSUME TypeInv, NEW t \in Threads, NEW p \in Proposals, NEW what \in {"sandbox", "register"},
         At(t, p, what)
  PROVE  /\ th[t].pc \in {"idle", "sandbox", "register"}
         /\ mem.proposals[p] \in ProposalType /\ mem.proposals[p] # None
         /\ mem.proposals[p].draft \in AllDrafts
BY DEF TypeInv, At, Records, ProposalType, AllDrafts

LEMMA SandboxFacts ==
  ASSUME TypeInv, NEW t \in Threads, NEW p \in Proposals, Sandbox(t, p)
  PROVE  LET d == mem.proposals[p].draft
             q == [mem.proposals[p] EXCEPT !.sandbox = IF Passes(d) THEN "passed" ELSE "failed"]
         IN  /\ CatalogsStay /\ mem'.approvals = mem.approvals
             /\ mem'.proposals = [mem.proposals EXCEPT ![p] = q]
             /\ mem.proposals[p] \in ProposalType
             /\ th[t].pc \in {"idle", "sandbox", "register"} /\ db' = db /\ fresh' = fresh
             /\ Begins(t, Idle)
<1> DEFINE d == mem.proposals[p].draft
           q == [mem.proposals[p] EXCEPT !.sandbox = IF Passes(d) THEN "passed" ELSE "failed"]
<1>1. /\ th[t].pc \in {"idle", "sandbox", "register"} /\ mem.proposals[p] \in ProposalType
  BY AtFacts DEF Sandbox
<1>2. q \in ProposalType
  BY <1>1 DEF ProposalType
<1>3. mem' = [mem EXCEPT !.proposals[p].sandbox = IF Passes(d) THEN "passed" ELSE "failed"]
  BY DEF Sandbox
<1>4. mem' = [mem EXCEPT !.proposals = [mem.proposals EXCEPT ![p] = q]]
  BY <1>3
<1>5. db' = db
  BY DEF Sandbox
<1> HIDE DEF q
<1>6. /\ mem' \in Records /\ CatalogsStay /\ mem'.approvals = mem.approvals
      /\ mem'.proposals = [mem.proposals EXCEPT ![p] = q]
  BY <1>2, <1>4 DEF TypeInv, Records, CatalogsStay
<1> QED
  BY <1>1, <1>5, <1>6, IdleContinues DEF Sandbox, Begins, TypeInv, q

LEMMA SkillEntry ==
  ASSUME NEW a \in AgentIds, NEW from \in Origins
  PROVE  [agents |-> {a}, from |-> from] \in SkillRows
BY DEF SkillRows

\* A registration makes a skill, an agent or a document, under an id not taken.
SkillMade(p, d) ==
  /\ d.kind = "skill" /\ d.id \in SkillIds /\ mem.skills[d.id] = None
  /\ d.by \in AgentIds /\ mem.agents[d.by] # None
  /\ mem'.skills = [mem.skills EXCEPT ![d.id] = [agents |-> {d.by}, from |-> p]]
  /\ mem'.agents = [mem.agents EXCEPT
                      ![d.by] = GrantSkill(mem.agents[d.by], d.id)]
  /\ mem'.docs = mem.docs

AgentMade(p, d) ==
  /\ d.kind = "agent" /\ d.id \in AgentIds /\ mem.agents[d.id] = None
  /\ mem'.agents = [mem.agents EXCEPT ![d.id] = [skills |-> {}, from |-> p]]
  /\ mem'.skills = mem.skills /\ mem'.docs = mem.docs

DocMade(p) ==
  /\ mem'.docs = [mem.docs EXCEPT ![p] = mem.docs[p] + 1]
  /\ mem'.agents = mem.agents /\ mem'.skills = mem.skills

Made(p, d) == SkillMade(p, d) \/ AgentMade(p, d) \/ DocMade(p)

LEMMA RegisterFacts ==
  ASSUME TypeInv, NEW t \in Threads, NEW p \in Proposals, Register(t, p)
  PROVE  LET q == [mem.proposals[p] EXCEPT !.status = "registered"]
         IN  /\ Made(p, mem.proposals[p].draft)
             /\ mem'.approvals = mem.approvals
             /\ mem'.proposals = [mem.proposals EXCEPT ![p] = q]
             /\ Registrable(p) /\ mem.proposals[p] \in ProposalType
             /\ th[t].pc \in {"idle", "sandbox", "register"} /\ db' = db /\ fresh' = fresh
             /\ Begins(t, [pc |-> "return", p |-> p])
<1> DEFINE d == mem.proposals[p].draft
           q == [mem.proposals[p] EXCEPT !.status = "registered"]
           skill == [agents |-> {d.by}, from |-> p]
           agent == GrantSkill(mem.agents[d.by], d.id)
           made == [skills |-> {}, from |-> p]
<1>1. /\ th[t].pc \in {"idle", "sandbox", "register"} /\ mem.proposals[p] \in ProposalType
      /\ d \in AllDrafts
  BY AtFacts DEF Register
<1>2. q \in ProposalType
  BY <1>1 DEF ProposalType
<1>3. d.kind \in Kinds
  BY <1>1, DraftFacts
<1> DEFINE published == CASE d.kind = "skill" -> WithSkill(p, d)
                          [] d.kind = "agent" -> WithAgent(p, d)
                          [] OTHER -> WithDoc(p)
<1>4. mem' = [published EXCEPT !.proposals[p].status = "registered"]
  BY DEF Register
<1>5. ~Unlistable(d) /\ Registrable(p) /\ db' = db
  BY DEF Register
<1>6. p \in Origins /\ [pc |-> "return", p |-> p] \in Continuations
  BY DEF Origins, Continuations, Returning
<1>7. CASE d.kind = "skill"
  <2>1. d.id \in SkillIds
    BY <1>1, <1>7, DraftFacts
  <2>2. mem.skills[d.id] = None /\ d.by \in AgentIds /\ mem.agents[d.by] # None
    BY <1>5, <1>7, <2>1 DEF Unlistable, Skills, Agents
  <2>3. skill \in SkillRows
    BY <2>2, <1>6, SkillEntry
  <2>4. mem.agents[d.by] \in [skills : SUBSET SkillIds, from : Origins]
    BY <2>2 DEF TypeInv, Records, AgentRows
  <2>5. agent \in AgentRows
    BY <2>1, <2>4 DEF AgentRows, GrantSkill
  <2>6. published = [mem EXCEPT !.skills = [mem.skills EXCEPT ![d.id] = skill],
                                !.agents = [mem.agents EXCEPT ![d.by] = agent]]
    BY <1>7 DEF WithSkill
  <2> HIDE DEF skill, agent, published, q
  <2>7. /\ published \in Records /\ published.proposals = mem.proposals
        /\ published.skills = [mem.skills EXCEPT ![d.id] = skill]
        /\ published.agents = [mem.agents EXCEPT ![d.by] = agent]
        /\ published.docs = mem.docs /\ published.approvals = mem.approvals
    BY <2>1, <2>2, <2>3, <2>5, <2>6 DEF TypeInv, Records
  <2>8. mem' = [published EXCEPT !.proposals = [mem.proposals EXCEPT ![p] = q]]
    BY <1>4, <2>7 DEF q
  <2>9. /\ mem' \in Records
        /\ mem'.skills = [mem.skills EXCEPT ![d.id] = skill]
        /\ mem'.agents = [mem.agents EXCEPT ![d.by] = agent]
        /\ mem'.docs = mem.docs /\ mem'.approvals = mem.approvals
        /\ mem'.proposals = [mem.proposals EXCEPT ![p] = q]
    BY <1>2, <2>7, <2>8 DEF TypeInv, Records
  <2>10. Made(p, d)
    BY <1>7, <2>1, <2>2, <2>9 DEF Made, SkillMade, skill, agent
  <2> QED
    BY <1>1, <1>5, <1>6, <2>9, <2>10 DEF Register, Begins, TypeInv, q
<1>8. CASE d.kind = "agent"
  <2>1. d.id \in AgentIds
    BY <1>1, <1>8, DraftFacts
  <2>2. mem.agents[d.id] = None
    BY <1>5, <1>8, <2>1 DEF Unlistable, Agents
  <2>3. made \in AgentRows
    BY <1>6 DEF AgentRows
  <2>4. published = [mem EXCEPT !.agents = [mem.agents EXCEPT ![d.id] = made]]
    BY <1>8 DEF WithAgent
  <2> HIDE DEF made, published, q
  <2>5. /\ published \in Records /\ published.proposals = mem.proposals
        /\ published.agents = [mem.agents EXCEPT ![d.id] = made]
        /\ published.skills = mem.skills
        /\ published.docs = mem.docs /\ published.approvals = mem.approvals
    BY <2>1, <2>3, <2>4 DEF TypeInv, Records
  <2>6. mem' = [published EXCEPT !.proposals = [mem.proposals EXCEPT ![p] = q]]
    BY <1>4, <2>5 DEF q
  <2>7. /\ mem' \in Records /\ mem'.skills = mem.skills
        /\ mem'.agents = [mem.agents EXCEPT ![d.id] = made]
        /\ mem'.docs = mem.docs /\ mem'.approvals = mem.approvals
        /\ mem'.proposals = [mem.proposals EXCEPT ![p] = q]
    BY <1>2, <2>5, <2>6 DEF TypeInv, Records
  <2>8. Made(p, d)
    BY <1>8, <2>1, <2>2, <2>7 DEF Made, AgentMade, made
  <2> QED
    BY <1>1, <1>5, <1>6, <2>7, <2>8 DEF Register, Begins, TypeInv, q
<1>9. CASE d.kind \in {"improvement", "github"}
  <2>1. mem.docs[p] < MaxDocs
    BY <1>9 DEF Register
  <2>2. mem.docs[p] + 1 \in 0..MaxDocs
    BY <2>1, BoundsAssumption DEF TypeInv, Records
  <2>3. published = [mem EXCEPT !.docs = [mem.docs EXCEPT ![p] = mem.docs[p] + 1]]
    BY <1>9 DEF WithDoc
  <2> HIDE DEF published, q
  <2>4. /\ published \in Records /\ published.proposals = mem.proposals
        /\ published.agents = mem.agents /\ published.skills = mem.skills
        /\ published.docs = [mem.docs EXCEPT ![p] = mem.docs[p] + 1]
        /\ published.approvals = mem.approvals
    BY <2>2, <2>3 DEF TypeInv, Records
  <2>5. mem' = [published EXCEPT !.proposals = [mem.proposals EXCEPT ![p] = q]]
    BY <1>4, <2>4 DEF q
  <2>6. /\ mem' \in Records /\ mem'.skills = mem.skills /\ mem'.agents = mem.agents
        /\ mem'.docs = [mem.docs EXCEPT ![p] = mem.docs[p] + 1]
        /\ mem'.approvals = mem.approvals
        /\ mem'.proposals = [mem.proposals EXCEPT ![p] = q]
    BY <1>2, <2>4, <2>5 DEF TypeInv, Records
  <2>7. Made(p, d)
    BY <2>6 DEF Made, DocMade
  <2> QED
    BY <1>1, <1>5, <1>6, <2>6, <2>7 DEF Register, Begins, TypeInv, q
<1> QED
  BY <1>3, <1>7, <1>8, <1>9 DEF Kinds

LEMMA CatalogAgentFacts ==
  ASSUME TypeInv, NEW t \in Threads, NEW a \in AgentIds, NEW skills \in SUBSET SkillIds,
         CatalogAgent(t, a, skills)
  PROVE  /\ mem.agents[a] = None /\ \A s \in skills : mem.skills[s] # None
         /\ mem'.agents = [mem.agents EXCEPT ![a] = [skills |-> skills, from |-> None]]
         /\ mem'.skills = [s \in SkillIds |->
              IF s \in skills THEN AllowAgent(mem.skills[s], a) ELSE mem.skills[s]]
         /\ mem'.docs = mem.docs /\ mem'.approvals = mem.approvals
         /\ mem'.proposals = mem.proposals
         /\ th[t].pc = "idle" /\ db' = db /\ fresh' = fresh
         /\ Begins(t, Idle)
<1> DEFINE agent == [skills |-> skills, from |-> None]
           rows == [s \in SkillIds |->
              IF s \in skills THEN AllowAgent(mem.skills[s], a) ELSE mem.skills[s]]
<1>1. mem.agents[a] = None /\ \A s \in skills : mem.skills[s] # None
  BY DEF CatalogAgent, Agents, Skills
<1>2. agent \in AgentRows
  BY DEF AgentRows, Origins
<1>3. \A s \in skills : AllowAgent(mem.skills[s], a) \in SkillRows
  BY <1>1 DEF TypeInv, Records, SkillRows, AllowAgent
<1>4. rows \in [SkillIds -> SkillRows]
  BY <1>3 DEF TypeInv, Records
<1>5. mem' = [mem EXCEPT !.agents = [mem.agents EXCEPT ![a] = agent], !.skills = rows]
  BY DEF CatalogAgent
<1> HIDE DEF agent, rows
<1>6. /\ mem' \in Records
      /\ mem'.agents = [mem.agents EXCEPT ![a] = agent] /\ mem'.skills = rows
      /\ mem'.docs = mem.docs /\ mem'.approvals = mem.approvals
      /\ mem'.proposals = mem.proposals
  BY <1>2, <1>4, <1>5 DEF TypeInv, Records
<1> QED
  BY <1>1, <1>6, IdleContinues DEF CatalogAgent, Begins, TypeInv, agent, rows

LEMMA CatalogSkillFacts ==
  ASSUME TypeInv, NEW t \in Threads, NEW s \in SkillIds, NEW agents \in AllowLists,
         CatalogSkill(t, s, agents)
  PROVE  /\ agents \subseteq AgentIds
         /\ mem.skills[s] = None /\ \A a \in agents : mem.agents[a] # None
         /\ mem'.skills = [mem.skills EXCEPT ![s] = [agents |-> agents, from |-> None]]
         /\ mem'.agents = [a \in AgentIds |->
              IF a \in agents THEN GrantSkill(mem.agents[a], s) ELSE mem.agents[a]]
         /\ mem'.docs = mem.docs /\ mem'.approvals = mem.approvals
         /\ mem'.proposals = mem.proposals
         /\ th[t].pc = "idle" /\ db' = db /\ fresh' = fresh
         /\ Begins(t, Idle)
<1> DEFINE skill == [agents |-> agents, from |-> None]
           rows == [a \in AgentIds |->
              IF a \in agents THEN GrantSkill(mem.agents[a], s) ELSE mem.agents[a]]
<1>0. agents \subseteq AgentIds
  BY IdsAssumption
<1>1. mem.skills[s] = None /\ \A a \in agents : mem.agents[a] # None
  BY DEF CatalogSkill, Agents, Skills
<1>2. skill \in SkillRows
  BY <1>0 DEF SkillRows, Origins
<1>3. \A a \in agents : GrantSkill(mem.agents[a], s) \in AgentRows
  BY <1>0, <1>1 DEF TypeInv, Records, AgentRows, GrantSkill
<1>4. rows \in [AgentIds -> AgentRows]
  BY <1>3 DEF TypeInv, Records
<1>5. mem' = [mem EXCEPT !.skills = [mem.skills EXCEPT ![s] = skill], !.agents = rows]
  BY DEF CatalogSkill
<1> HIDE DEF skill, rows
<1>6. /\ mem' \in Records
      /\ mem'.skills = [mem.skills EXCEPT ![s] = skill] /\ mem'.agents = rows
      /\ mem'.docs = mem.docs /\ mem'.approvals = mem.approvals
      /\ mem'.proposals = mem.proposals
  BY <1>2, <1>4, <1>5 DEF TypeInv, Records
<1> QED
  BY <1>0, <1>1, <1>6, IdleContinues DEF CatalogSkill, Begins, TypeInv, skill, rows

LEMMA SaveApprovalsFacts ==
  ASSUME TypeInv, NEW t \in Threads, SaveApprovals(t)
  PROVE  /\ th[t] \in SavingApprovals
         /\ db' \in Records
         /\ db'.approvals = [p \in Proposals |->
              IF p \in th[t].approvals THEN mem.approvals[p] ELSE db.approvals[p]]
         /\ db'.agents = db.agents /\ db'.skills = db.skills /\ db'.docs = db.docs
         /\ db'.proposals = db.proposals
         /\ th' = [th EXCEPT ![t] = [pc |-> "save_agents", next |-> th[t].next,
                                     catalog |-> th[t].catalog, proposals |-> th[t].proposals]]
         /\ th'[t] \in SavingAgents /\ th' \in [Threads -> ThreadStates]
         /\ UNCHANGED <<mem, fresh, crashes, confirmed>>
<1> DEFINE rows == [p \in Proposals |->
              IF p \in th[t].approvals THEN mem.approvals[p] ELSE db.approvals[p]]
           next == [pc |-> "save_agents", next |-> th[t].next,
                    catalog |-> th[t].catalog, proposals |-> th[t].proposals]
<1>1. th[t] \in SavingApprovals
  BY Phases DEF TypeInv, SaveApprovals
<1>2. rows \in [Proposals -> Asked]
  BY DEF TypeInv, Records
<1>3. next \in SavingAgents
  BY <1>1 DEF SavingApprovals, SavingAgents
<1>4. /\ db' = [db EXCEPT !.approvals = rows] /\ th' = [th EXCEPT ![t] = next]
      /\ UNCHANGED <<mem, fresh, crashes, confirmed>>
  BY DEF SaveApprovals, Saved
<1> HIDE DEF rows, next
<1>5. /\ db' \in Records /\ db'.approvals = rows
      /\ db'.agents = db.agents /\ db'.skills = db.skills /\ db'.docs = db.docs
      /\ db'.proposals = db.proposals
  BY <1>2, <1>4 DEF TypeInv, Records
<1>6. th'[t] = next /\ th' \in [Threads -> ThreadStates]
  BY <1>3, <1>4 DEF TypeInv, ThreadStates
<1> QED
  BY <1>1, <1>3, <1>4, <1>5, <1>6 DEF rows, next

\* A row that was listed is written, and a document stays.
Rows(listed) ==
  [docs |-> [p \in Proposals |->
               IF db.docs[p] < listed.docs[p] THEN listed.docs[p] ELSE db.docs[p]],
   agents |-> [a \in AgentIds |-> Row(listed.agents[a], db.agents[a])]]

LEMMA SaveAgentsFacts ==
  ASSUME TypeInv, NEW t \in Threads, SaveAgents(t)
  PROVE  /\ th[t] \in SavingAgents
         /\ db' \in Records
         /\ db'.agents = Rows(th[t].catalog).agents /\ db'.docs = Rows(th[t].catalog).docs
         /\ db'.skills = db.skills
         /\ db'.approvals = db.approvals /\ db'.proposals = db.proposals
         /\ th' = [th EXCEPT ![t] = [pc |-> "save_skills", next |-> th[t].next,
                           skills |-> th[t].catalog.skills, proposals |-> th[t].proposals]]
         /\ th'[t] \in SavingSkills /\ th' \in [Threads -> ThreadStates]
         /\ UNCHANGED <<mem, fresh, crashes, confirmed>>
<1> DEFINE listed == th[t].catalog
           next == [pc |-> "save_skills", next |-> th[t].next,
                    skills |-> listed.skills, proposals |-> th[t].proposals]
           docs == [p \in Proposals |->
                      IF db.docs[p] < listed.docs[p] THEN listed.docs[p] ELSE db.docs[p]]
           agents == [a \in AgentIds |-> Row(listed.agents[a], db.agents[a])]
<1>1. th[t] \in SavingAgents
  BY Phases DEF TypeInv, SaveAgents
<1>2. listed \in Catalogs
  BY <1>1 DEF SavingAgents
<1>3. docs \in [Proposals -> 0..MaxDocs]
  BY <1>2 DEF TypeInv, Records, Catalogs
<1>4. agents \in [AgentIds -> AgentRows]
  BY <1>2 DEF TypeInv, Records, Catalogs, Row
<1>5. next \in SavingSkills
  BY <1>1, <1>2 DEF SavingAgents, SavingSkills, Catalogs
<1>6. /\ db' = [db EXCEPT !.docs = docs, !.agents = agents] /\ th' = [th EXCEPT ![t] = next]
      /\ UNCHANGED <<mem, fresh, crashes, confirmed>>
  BY DEF SaveAgents, Saved
<1>7. Rows(listed).agents = agents /\ Rows(listed).docs = docs
  BY DEF Rows
<1> HIDE DEF docs, agents, next, listed
<1>8. /\ db' \in Records /\ db'.agents = agents /\ db'.docs = docs
      /\ db'.skills = db.skills
      /\ db'.approvals = db.approvals /\ db'.proposals = db.proposals
  BY <1>3, <1>4, <1>6 DEF TypeInv, Records
<1>9. th'[t] = next /\ th' \in [Threads -> ThreadStates]
  BY <1>5, <1>6 DEF TypeInv, ThreadStates
<1> QED
  BY <1>1, <1>5, <1>6, <1>7, <1>8, <1>9 DEF next, listed

LEMMA SaveSkillsFacts ==
  ASSUME TypeInv, NEW t \in Threads, SaveSkills(t)
  PROVE  /\ th[t] \in SavingSkills
         /\ db' \in Records
         /\ db'.skills = [s \in SkillIds |-> Row(th[t].skills[s], db.skills[s])]
         /\ db'.agents = db.agents /\ db'.docs = db.docs
         /\ db'.approvals = db.approvals /\ db'.proposals = db.proposals
         /\ th' = [th EXCEPT ![t] = [pc |-> "save_proposals", next |-> th[t].next,
                                     proposals |-> th[t].proposals]]
         /\ th'[t] \in SavingProposals /\ th' \in [Threads -> ThreadStates]
         /\ UNCHANGED <<mem, fresh, crashes, confirmed>>
<1> DEFINE next == [pc |-> "save_proposals", next |-> th[t].next, proposals |-> th[t].proposals]
           skills == [s \in SkillIds |-> Row(th[t].skills[s], db.skills[s])]
<1>1. th[t] \in SavingSkills
  BY Phases DEF TypeInv, SaveSkills
<1>2. skills \in [SkillIds -> SkillRows]
  BY <1>1 DEF TypeInv, Records, Row, SavingSkills
<1>3. next \in SavingProposals
  BY <1>1 DEF SavingProposals, SavingSkills
<1>4. /\ db' = [db EXCEPT !.skills = skills] /\ th' = [th EXCEPT ![t] = next]
      /\ UNCHANGED <<mem, fresh, crashes, confirmed>>
  BY DEF SaveSkills, Saved
<1> HIDE DEF skills, next
<1>5. /\ db' \in Records /\ db'.skills = skills
      /\ db'.agents = db.agents /\ db'.docs = db.docs
      /\ db'.approvals = db.approvals /\ db'.proposals = db.proposals
  BY <1>2, <1>4 DEF TypeInv, Records
<1>6. th'[t] = next /\ th' \in [Threads -> ThreadStates]
  BY <1>3, <1>4 DEF TypeInv, ThreadStates
<1> QED
  BY <1>1, <1>3, <1>4, <1>5, <1>6 DEF skills, next

LEMMA SaveProposalsFacts ==
  ASSUME TypeInv, NEW t \in Threads, SaveProposals(t)
  PROVE  /\ th[t] \in SavingProposals
         /\ db' \in Records
         /\ db'.agents = db.agents /\ db'.skills = db.skills /\ db'.docs = db.docs
         /\ db'.approvals = db.approvals
         /\ th' = [th EXCEPT ![t] = IF th[t].next.pc = "return" THEN Idle ELSE th[t].next]
         /\ th'[t] \in Afterwards /\ th' \in [Threads -> ThreadStates]
         /\ confirmed' = confirmed \cup
              (IF th[t].next.pc = "return" THEN {th[t].next.p} ELSE {})
         /\ confirmed' \subseteq Proposals
         /\ UNCHANGED <<mem, fresh, crashes>>
<1> DEFINE rows == [p \in Proposals |->
              IF p \in th[t].proposals THEN mem.proposals[p] ELSE db.proposals[p]]
           next == IF th[t].next.pc = "return" THEN Idle ELSE th[t].next
<1>1. th[t] \in SavingProposals
  BY Phases DEF TypeInv, SaveProposals
<1>2. th[t].next \in Continuations
  BY <1>1 DEF SavingProposals
<1>3. next \in Afterwards /\ (th[t].next.pc = "return" => th[t].next \in Returning)
  BY <1>2, NextPhases, IdleContinues
<1>4. rows \in [Proposals -> {None} \cup ProposalType]
  BY DEF TypeInv, Records
<1>5. /\ db' = [db EXCEPT !.proposals = rows] /\ th' = [th EXCEPT ![t] = next]
      /\ confirmed' = confirmed \cup (IF th[t].next.pc = "return" THEN {th[t].next.p} ELSE {})
      /\ UNCHANGED <<mem, fresh, crashes>>
  BY DEF SaveProposals, Saved
<1>6. confirmed' \subseteq Proposals
  BY <1>3, <1>5 DEF TypeInv, Returning
<1> HIDE DEF rows, next
<1>7. /\ db' \in Records /\ db'.agents = db.agents /\ db'.skills = db.skills
      /\ db'.docs = db.docs /\ db'.approvals = db.approvals
  BY <1>4, <1>5 DEF TypeInv, Records
<1>8. th'[t] = next /\ th' \in [Threads -> ThreadStates]
  BY <1>3, <1>5 DEF TypeInv, ThreadStates
<1> QED
  BY <1>1, <1>3, <1>5, <1>6, <1>7, <1>8 DEF next

LEMMA CrashFacts ==
  ASSUME TypeInv, Crash
  PROVE  /\ mem' = db /\ db' = db /\ fresh' = fresh /\ confirmed' = confirmed
         /\ crashes' = crashes + 1
         /\ th' \in [Threads -> ThreadStates]
         /\ \A t \in Threads : th'[t] = IF References(db) THEN Idle ELSE Down
         /\ TypeInv'
<1>1. crashes' \in 0..MaxCrashes
  BY BoundsAssumption DEF TypeInv, Crash
<1>2. Idle \in ThreadStates /\ Down \in ThreadStates
  BY IdleContinues DEF ThreadStates
<1> QED
  BY <1>1, <1>2 DEF TypeInv, Crash

LEMMA RefusedFacts ==
  ASSUME TypeInv, NEW t \in Threads, NEW p \in Proposals, RegisterRefused(t, p)
  PROVE  /\ th' = [th EXCEPT ![t] = Idle] /\ th[t].pc \in {"idle", "sandbox", "register"}
         /\ UNCHANGED <<mem, db, fresh, confirmed, crashes>>
         /\ TypeInv'
BY AtFacts, IdleContinues DEF RegisterRefused, TypeInv

-----------------------------------------------------------------------------
(* Types, and the steps by kind                                            *)

LEMMA BeginsTypes ==
  ASSUME TypeInv, NEW t \in Threads, NEW next, Begins(t, next)
  PROVE  /\ TypeInv'
         /\ th'[t] = Sync(next)
         /\ \A u \in Threads \ {t} : th'[u] = th[u]
<1>1. Sync(next) \in ThreadStates
  BY SyncShape DEF Begins
<1> HIDE DEF Sync
<1> QED
  BY <1>1 DEF Begins, TypeInv

\* A request of thread t, as Next has them.
Request(t) ==
  \/ \E p \in Proposals :
       \/ \E d \in Drafts[p] : Propose(t, p, d) \/ ProposeApproved(t, p, d)
       \/ \E v \in Decisions : DecideApproval(t, p, v)
       \/ \E what \in {"sandbox", "register"} : RefreshFor(t, p, what)
       \/ Sandbox(t, p) \/ Register(t, p)
  \/ Store(t) \/ Refresh(t, Idle)
  \/ \E a \in AgentIds, skills \in SUBSET SkillIds : CatalogAgent(t, a, skills)
  \/ \E s \in SkillIds, agents \in AllowLists : CatalogSkill(t, s, agents)

Save(t) == SaveApprovals(t) \/ SaveAgents(t) \/ SaveSkills(t) \/ SaveProposals(t)

LEMMA RefreshForFacts ==
  ASSUME NEW t \in Threads, NEW p \in Proposals, NEW what \in {"sandbox", "register"},
         RefreshFor(t, p, what)
  PROVE  \E next \in Afterwards : next.pc # "store" /\ Refresh(t, next)
<1>1. [pc |-> what, p |-> p] \in Afterwards /\ what # "store"
  BY DEF Afterwards, Following
<1> QED
  BY <1>1 DEF RefreshFor

LEMMA RefreshIdle ==
  ASSUME NEW t \in Threads, Refresh(t, Idle)
  PROVE  \E next \in Afterwards : next.pc # "store" /\ Refresh(t, next)
<1>1. Idle.pc # "store"
  BY DEF Idle
<1> QED
  BY <1>1, IdleContinues

LEMMA RequestCases ==
  ASSUME NEW t \in Threads, Request(t)
  PROVE  \/ \E p \in Proposals : \E d \in Drafts[p] : Propose(t, p, d)
         \/ \E p \in Proposals : \E d \in Drafts[p] : ProposeApproved(t, p, d)
         \/ \E p \in Proposals : \E v \in Decisions : DecideApproval(t, p, v)
         \/ \E next \in Afterwards : next.pc # "store" /\ Refresh(t, next)
         \/ \E p \in Proposals : Sandbox(t, p)
         \/ \E p \in Proposals : Register(t, p)
         \/ Store(t)
         \/ \E a \in AgentIds, skills \in SUBSET SkillIds : CatalogAgent(t, a, skills)
         \/ \E s \in SkillIds, agents \in AllowLists : CatalogSkill(t, s, agents)
BY RefreshForFacts, RefreshIdle DEF Request

LEMMA RequestBegins ==
  ASSUME TypeInv, NEW t \in Threads, Request(t)
  PROVE  \E next \in Continuations : Begins(t, next)
<1>0. \A next : Begins(t, next) => next \in Continuations
  BY DEF Begins
<1>1. ASSUME NEW p \in Proposals, NEW d \in Drafts[p], Propose(t, p, d)
      PROVE  \E next : Begins(t, next)
  BY <1>1, ProposeFacts
<1>2. ASSUME NEW p \in Proposals, NEW d \in Drafts[p], ProposeApproved(t, p, d)
      PROVE  \E next : Begins(t, next)
  BY <1>2, ProposeApprovedFacts
<1>3. ASSUME NEW p \in Proposals, NEW v \in Decisions, DecideApproval(t, p, v)
      PROVE  \E next : Begins(t, next)
  BY <1>3, DecideFacts
<1>4. ASSUME NEW next \in Afterwards, Refresh(t, next) PROVE \E x : Begins(t, x)
  BY <1>4, RefreshFacts
<1>5. ASSUME NEW p \in Proposals, Sandbox(t, p) PROVE \E next : Begins(t, next)
  BY <1>5, SandboxFacts
<1>6. ASSUME NEW p \in Proposals, Register(t, p) PROVE \E next : Begins(t, next)
  BY <1>6, RegisterFacts
<1>7. ASSUME Store(t) PROVE \E next : Begins(t, next)
  BY <1>7, StoreFacts
<1>8. ASSUME NEW a \in AgentIds, NEW skills \in SUBSET SkillIds, CatalogAgent(t, a, skills)
      PROVE  \E next : Begins(t, next)
  BY <1>8, CatalogAgentFacts
<1>9. ASSUME NEW s \in SkillIds, NEW agents \in AllowLists, CatalogSkill(t, s, agents)
      PROVE  \E next : Begins(t, next)
  BY <1>9, CatalogSkillFacts
<1> QED
  BY <1>0, <1>1, <1>2, <1>3, <1>4, <1>5, <1>6, <1>7, <1>8, <1>9, RequestCases

LEMMA SaveTypes ==
  ASSUME TypeInv, NEW t \in Threads, Save(t)
  PROVE  /\ TypeInv'
         /\ \A u \in Threads \ {t} : th'[u] = th[u]
         /\ UNCHANGED <<mem, fresh, crashes>>
<1>1. CASE SaveApprovals(t)
  BY <1>1, SaveApprovalsFacts DEF TypeInv
<1>2. CASE SaveAgents(t)
  BY <1>2, SaveAgentsFacts DEF TypeInv
<1>3. CASE SaveSkills(t)
  BY <1>3, SaveSkillsFacts DEF TypeInv
<1>4. CASE SaveProposals(t)
  BY <1>4, SaveProposalsFacts DEF TypeInv
<1> QED
  BY <1>1, <1>2, <1>3, <1>4 DEF Save

LEMMA NextCases ==
  ASSUME [Next]_vars
  PROVE  \/ \E t \in Threads : Request(t)
         \/ \E t \in Threads : Save(t)
         \/ \E t \in Threads, p \in Proposals : RegisterRefused(t, p)
         \/ Crash
         \/ UNCHANGED vars
BY DEF Next, Request, Save

LEMMA InitShape == Init => TypeInv /\ mem = db /\ \A t \in Threads : th[t] = Idle
<1> SUFFICES ASSUME Init PROVE TypeInv /\ mem = db /\ \A t \in Threads : th[t] = Idle
  OBVIOUS
<1>1. mem.proposals = [p \in Proposals |-> None]
  BY DEF Init
<1>2. mem \in Records
  <2>1. [a \in AgentIds |-> IF a \in Staff THEN [skills |-> {}, from |-> None] ELSE None]
          \in [AgentIds -> AgentRows]
    BY DEF AgentRows, Origins
  <2>2. [s \in SkillIds |-> None] \in [SkillIds -> SkillRows]
    BY DEF SkillRows
  <2>3. [p \in Proposals |-> 0] \in [Proposals -> 0..MaxDocs]
    BY BoundsAssumption
  <2>4. [p \in Proposals |-> "none"] \in [Proposals -> Asked]
    BY DEF Asked
  <2> QED
    BY <2>1, <2>2, <2>3, <2>4 DEF Init, Records
<1> QED
  BY <1>2, IdleContinues, BoundsAssumption DEF Init, TypeInv

LEMMA TypeInit == Init => TypeInv
BY InitShape

LEMMA TypeStep == TypeInv /\ [Next]_vars => TypeInv'
<1> SUFFICES ASSUME TypeInv, [Next]_vars PROVE TypeInv'
  OBVIOUS
<1>1. CASE UNCHANGED vars
  BY <1>1 DEF vars, TypeInv
<1>2. ASSUME NEW t \in Threads, Request(t) PROVE TypeInv'
  BY <1>2, RequestBegins, BeginsTypes
<1> QED
  BY <1>1, <1>2, NextCases, SaveTypes, RefusedFacts, CrashFacts

\* Records, rows and threads keep their shape, whatever mixture of moments a
\* crash leaves in the rows.
THEOREM TypesAlways == Spec => []TypeOK
BY TypeInit, TypeStep, TypeInvImpliesTypeOK, PTL DEF Spec

-----------------------------------------------------------------------------
(* The two catalogs                                                        *)

LEMMA ReferencesStay ==
  ASSUME TypeInv, CatalogsStay, References(mem)
  PROVE  References(mem')
BY DEF References, CatalogsStay

LEMMA SkillReferences ==
  ASSUME TypeInv, NEW p \in Proposals, NEW d \in AllDrafts, SkillMade(p, d), References(mem)
  PROVE  References(mem')
<1> DEFINE skill == [agents |-> {d.by}, from |-> p]
           agent == GrantSkill(mem.agents[d.by], d.id)
<1>1. mem.agents[d.by] \in [skills : SUBSET SkillIds, from : Origins]
  BY DEF TypeInv, Records, AgentRows, SkillMade
<1>2. agent \in [skills : SUBSET SkillIds, from : Origins]
      /\ agent.skills = mem.agents[d.by].skills \cup {d.id}
  BY <1>1 DEF GrantSkill, SkillMade
<1>3. agent # None /\ skill # None /\ skill.agents = {d.by}
  BY <1>2, EntriesAreNotNone DEF SkillMade, Origins
<1>4. SUFFICES ASSUME NEW a \in AgentIds, NEW s \in SkillIds
               PROVE  (mem'.agents[a] # None /\ s \in mem'.agents[a].skills)
                        <=> (mem'.skills[s] # None /\ a \in mem'.skills[s].agents)
  BY DEF References
<1>5. mem'.agents[a] = IF a = d.by THEN agent ELSE mem.agents[a]
  BY DEF SkillMade, TypeInv, Records
<1>6. mem'.skills[s] = IF s = d.id THEN skill ELSE mem.skills[s]
  BY DEF SkillMade, TypeInv, Records
<1>7. (mem.agents[a] # None /\ s \in mem.agents[a].skills)
        <=> (mem.skills[s] # None /\ a \in mem.skills[s].agents)
  BY DEF References
<1>8. mem.skills[d.id] = None /\ mem.agents[d.by] # None
  BY DEF SkillMade
<1> HIDE DEF skill, agent
<1> QED
  BY <1>2, <1>3, <1>5, <1>6, <1>7, <1>8

LEMMA AgentReferences ==
  ASSUME TypeInv, NEW p \in Proposals, NEW d \in AllDrafts, AgentMade(p, d), References(mem)
  PROVE  References(mem')
<1> DEFINE agent == [skills |-> {}, from |-> p]
<1>1. SUFFICES ASSUME NEW a \in AgentIds, NEW s \in SkillIds
               PROVE  (mem'.agents[a] # None /\ s \in mem'.agents[a].skills)
                        <=> (mem'.skills[s] # None /\ a \in mem'.skills[s].agents)
  BY DEF References
<1>2. mem'.agents[a] = IF a = d.id THEN agent ELSE mem.agents[a]
  BY DEF AgentMade, TypeInv, Records
<1>3. agent.skills = {} /\ mem'.skills = mem.skills /\ mem.agents[d.id] = None
  BY DEF AgentMade
<1>4. (mem.agents[a] # None /\ s \in mem.agents[a].skills)
        <=> (mem.skills[s] # None /\ a \in mem.skills[s].agents)
  BY DEF References
<1> HIDE DEF agent
<1> QED
  BY <1>2, <1>3, <1>4

LEMMA CatalogAgentReferences ==
  ASSUME TypeInv, NEW t \in Threads, NEW a \in AgentIds, NEW skills \in SUBSET SkillIds,
         CatalogAgent(t, a, skills), References(mem)
  PROVE  References(mem')
<1> DEFINE agent == [skills |-> skills, from |-> None]
<1>1. SUFFICES ASSUME NEW b \in AgentIds, NEW s \in SkillIds
               PROVE  (mem'.agents[b] # None /\ s \in mem'.agents[b].skills)
                        <=> (mem'.skills[s] # None /\ b \in mem'.skills[s].agents)
  BY DEF References
<1>0. /\ mem.agents[a] = None /\ \A x \in skills : mem.skills[x] # None
      /\ mem'.agents = [mem.agents EXCEPT ![a] = agent]
      /\ mem'.skills = [x \in SkillIds |->
           IF x \in skills THEN AllowAgent(mem.skills[x], a) ELSE mem.skills[x]]
  BY CatalogAgentFacts
<1>2. /\ mem.agents[a] = None /\ \A x \in skills : mem.skills[x] # None
      /\ mem'.agents[b] = IF b = a THEN agent ELSE mem.agents[b]
      /\ mem'.skills[s] = IF s \in skills THEN AllowAgent(mem.skills[s], a) ELSE mem.skills[s]
  BY <1>0 DEF TypeInv, Records
<1>3. agent # None /\ agent.skills = skills
  BY EntriesAreNotNone DEF Origins
<1>4. mem.skills[s] # None =>
        /\ AllowAgent(mem.skills[s], a) # None
        /\ AllowAgent(mem.skills[s], a).agents = mem.skills[s].agents \cup {a}
  <2>1. mem.skills[s] # None =>
          /\ AllowAgent(mem.skills[s], a) \in [agents : SUBSET AgentIds, from : Origins]
          /\ AllowAgent(mem.skills[s], a).agents = mem.skills[s].agents \cup {a}
    BY DEF TypeInv, Records, SkillRows, AllowAgent
  <2> QED
    BY <2>1, EntriesAreNotNone
<1>5. (mem.agents[b] # None /\ s \in mem.agents[b].skills)
        <=> (mem.skills[s] # None /\ b \in mem.skills[s].agents)
  BY DEF References
<1>6. (mem.agents[a] # None /\ s \in mem.agents[a].skills)
        <=> (mem.skills[s] # None /\ a \in mem.skills[s].agents)
  BY DEF References
<1> HIDE DEF agent
<1> QED
  BY <1>2, <1>3, <1>4, <1>5, <1>6

LEMMA CatalogSkillReferences ==
  ASSUME TypeInv, NEW t \in Threads, NEW s \in SkillIds, NEW agents \in AllowLists,
         CatalogSkill(t, s, agents), References(mem)
  PROVE  References(mem')
<1> DEFINE skill == [agents |-> agents, from |-> None]
<1>1. SUFFICES ASSUME NEW a \in AgentIds, NEW x \in SkillIds
               PROVE  (mem'.agents[a] # None /\ x \in mem'.agents[a].skills)
                        <=> (mem'.skills[x] # None /\ a \in mem'.skills[x].agents)
  BY DEF References
<1>0. /\ mem.skills[s] = None /\ \A b \in agents : mem.agents[b] # None
      /\ mem'.skills = [mem.skills EXCEPT ![s] = skill]
      /\ mem'.agents = [b \in AgentIds |->
           IF b \in agents THEN GrantSkill(mem.agents[b], s) ELSE mem.agents[b]]
      /\ agents \subseteq AgentIds
  BY CatalogSkillFacts
<1>2. /\ mem.skills[s] = None /\ \A b \in agents : mem.agents[b] # None
      /\ mem'.skills[x] = IF x = s THEN skill ELSE mem.skills[x]
      /\ mem'.agents[a] = IF a \in agents THEN GrantSkill(mem.agents[a], s) ELSE mem.agents[a]
      /\ agents \subseteq AgentIds
  BY <1>0 DEF TypeInv, Records
<1>3. skill # None /\ skill.agents = agents
  BY <1>2, EntriesAreNotNone DEF Origins
<1>4. mem.agents[a] # None =>
        /\ GrantSkill(mem.agents[a], s) # None
        /\ GrantSkill(mem.agents[a], s).skills = mem.agents[a].skills \cup {s}
  <2>1. mem.agents[a] # None =>
          /\ GrantSkill(mem.agents[a], s) \in [skills : SUBSET SkillIds, from : Origins]
          /\ GrantSkill(mem.agents[a], s).skills = mem.agents[a].skills \cup {s}
    BY DEF TypeInv, Records, AgentRows, GrantSkill
  <2> QED
    BY <2>1, EntriesAreNotNone
<1>5. (mem.agents[a] # None /\ x \in mem.agents[a].skills)
        <=> (mem.skills[x] # None /\ a \in mem.skills[x].agents)
  BY DEF References
<1>6. (mem.agents[a] # None /\ s \in mem.agents[a].skills)
        <=> (mem.skills[s] # None /\ a \in mem.skills[s].agents)
  BY DEF References
<1> HIDE DEF skill
<1> QED
  BY <1>2, <1>3, <1>4, <1>5, <1>6

LEMMA RequestReferences ==
  ASSUME TypeInv, NEW t \in Threads, Request(t), References(mem)
  PROVE  References(mem')
<1>1. ASSUME NEW p \in Proposals, Register(t, p) PROVE References(mem')
  <2>1. Made(p, mem.proposals[p].draft) /\ mem.proposals[p].draft \in AllDrafts
    BY <1>1, RegisterFacts, AtFacts DEF Register
  <2>3. CASE DocMade(p)
    BY <2>3 DEF DocMade, References
  <2> QED
    BY <2>1, <2>3, SkillReferences, AgentReferences DEF Made
<1>2. CatalogsStay => References(mem')
  BY ReferencesStay
<1> QED
  BY <1>1, <1>2, RequestCases, ProposeFacts, ProposeApprovedFacts, DecideFacts, RefreshFacts,
     SandboxFacts, StoreFacts, CatalogAgentReferences, CatalogSkillReferences

\* A thread that acts is not down, and no request takes a process down.
LEMMA RequestUp ==
  ASSUME TypeInv, NEW t \in Threads, Request(t), Up'
  PROVE  Up
<1>1. th[t].pc # "down"
  BY RequestCases, ProposeFacts, ProposeApprovedFacts, DecideFacts, RefreshFacts,
     SandboxFacts, RegisterFacts, CatalogAgentFacts, CatalogSkillFacts, StoreFacts DEF Storing
<1>2. \A u \in Threads \ {t} : th'[u] = th[u]
  BY RequestBegins, BeginsTypes
<1> QED
  BY <1>1, <1>2, IdleContinues DEF Up

LEMMA SaveUp ==
  ASSUME TypeInv, NEW t \in Threads, Save(t), Up'
  PROVE  Up
<1>1. th[t].pc # "down"
  BY DEF Save, SaveApprovals, SaveAgents, SaveSkills, SaveProposals
<1> QED
  BY <1>1, SaveTypes, IdleContinues DEF Up

LEMMA MutualInit == Init => GrantsMutual
<1> SUFFICES ASSUME Init PROVE References(mem)
  BY DEF GrantsMutual
<1>1. /\ mem.skills = [s \in SkillIds |-> None]
      /\ mem.agents = [a \in AgentIds |->
                         IF a \in Staff THEN [skills |-> {}, from |-> None] ELSE None]
  BY DEF Init
<1> QED
  BY <1>1 DEF References

LEMMA MutualStep == TypeInv /\ GrantsMutual /\ [Next]_vars => GrantsMutual'
<1> SUFFICES ASSUME TypeInv, GrantsMutual, [Next]_vars, Up' PROVE References(mem')
  BY DEF GrantsMutual
<1>1. CASE UNCHANGED vars
  BY <1>1 DEF vars, GrantsMutual, Up
<1>2. ASSUME NEW t \in Threads, Request(t) PROVE References(mem')
  BY <1>2, RequestUp, RequestReferences DEF GrantsMutual
<1>3. ASSUME NEW t \in Threads, Save(t) PROVE References(mem')
  BY <1>3, SaveUp, SaveTypes DEF GrantsMutual
<1>4. ASSUME NEW t \in Threads, NEW p \in Proposals, RegisterRefused(t, p) PROVE References(mem')
  <2>1. Up /\ mem' = mem
    BY <1>4, RefusedFacts, IdleContinues DEF Up, TypeInv
  <2> QED
    BY <2>1 DEF GrantsMutual
<1>5. CASE Crash
  BY <1>5, CrashFacts, ThreadsAssumption DEF Up
<1> QED
  BY <1>1, <1>2, <1>3, <1>4, <1>5, NextCases

\* However requests, syncs and crashes interleave, a process that runs has
\* two catalogs that agree: one that would not does not start.
THEOREM CatalogsAgree == Spec => []GrantsMutual
BY TypeInit, TypeStep, MutualInit, MutualStep, PTL DEF Spec

-----------------------------------------------------------------------------
(* The invariant behind the gate: what is stored is never ahead of memory, *)
(* an approval is stored before an entry made under it, and a sync carries *)
(* what the rows do not have yet of the registration that waits for it.    *)

\* The entries of r are entries of m, made from the same proposals.
Within(r, m) ==
  /\ \A a \in AgentIds : r.agents[a] # None =>
       m.agents[a] # None /\ m.agents[a].from = r.agents[a].from
  /\ \A s \in SkillIds : r.skills[s] # None =>
       m.skills[s] # None /\ m.skills[s].from = r.skills[s].from
  /\ \A p \in Proposals : r.docs[p] <= m.docs[p]

Approved == {p \in Proposals : mem.approvals[p] = "approved"}
Published == {p \in Proposals : HasEntry(mem, p)}
StoredApproved == {p \in Proposals : db.approvals[p] = "approved"}
StoredPublished == {p \in Proposals : HasEntry(db, p)}

Nothing == [docs |-> [p \in Proposals |-> 0], agents |-> [a \in AgentIds |-> None],
            skills |-> [s \in SkillIds |-> None]]

Saving == {"save_approvals", "save_agents", "save_skills", "save_proposals"}

\* What a thread in x has still to write of the catalogs.
Left(x) ==
  IF x.pc \in {"save_approvals", "save_agents"} THEN x.catalog
  ELSE IF x.pc = "save_skills" THEN [Nothing EXCEPT !.skills = x.skills]
  ELSE Nothing

CarriesMade(x, m) == Within(Left(x), m)
CarriesApproved(x, d) ==
  \A p \in Proposals : HasEntry(Left(x), p) =>
    (x.pc = "save_approvals" /\ p \in x.approvals) \/ d.approvals[p] = "approved"
CarriesReturn(x, d) ==
  (x.pc \in Saving /\ x.next.pc = "return") => HasEntry(Left(x), x.next.p) \/ HasEntry(d, x.next.p)
Carries(x, m, d) == CarriesMade(x, m) /\ CarriesApproved(x, d) /\ CarriesReturn(x, d)

FreshInv == \A p \in fresh : mem.approvals[p] = "none" /\ db.approvals[p] = "none"

GateInv ==
  /\ Within(db, mem)
  /\ StoredApproved \subseteq Approved
  /\ Published \subseteq Approved
  /\ StoredPublished \subseteq StoredApproved
  /\ confirmed \subseteq StoredPublished
  /\ FreshInv
  /\ \A t \in Threads : Carries(th[t], mem, db)

LEMMA NothingShape == Nothing \in Catalogs /\ \A p \in Proposals : ~HasEntry(Nothing, p)
<1>1. /\ [p \in Proposals |-> 0] \in [Proposals -> 0..MaxDocs]
      /\ [a \in AgentIds |-> None] \in [AgentIds -> AgentRows]
      /\ [s \in SkillIds |-> None] \in [SkillIds -> SkillRows]
  BY BoundsAssumption DEF AgentRows, SkillRows
<1> QED
  BY <1>1 DEF Nothing, Catalogs, HasEntry

LEMMA LeftShape ==
  ASSUME NEW x \in ThreadStates
  PROVE  Left(x) \in Catalogs
<1>1. CASE x.pc = "save_approvals"
  BY <1>1, Phases DEF Left, SavingApprovals
<1>2. CASE x.pc = "save_agents"
  BY <1>2, Phases DEF Left, SavingAgents
<1>3. CASE x.pc = "save_skills"
  <2>1. x.skills \in [SkillIds -> SkillRows]
    BY <1>3, Phases DEF SavingSkills
  <2>2. Left(x) = [Nothing EXCEPT !.skills = x.skills]
    BY <1>3 DEF Left
  <2> QED
    BY <2>1, <2>2, NothingShape DEF Catalogs
<1>4. CASE x.pc \notin {"save_approvals", "save_agents", "save_skills"}
  BY <1>4, NothingShape DEF Left
<1> QED
  BY <1>1, <1>2, <1>3, <1>4

\* Within speaks of catalogs; records have them too.
HasCatalogs(r) ==
  /\ r.agents \in [AgentIds -> AgentRows] /\ r.skills \in [SkillIds -> SkillRows]
  /\ r.docs \in [Proposals -> 0..MaxDocs]

LEMMA CatalogsOf ==
  /\ \A r \in Records : HasCatalogs(r)
  /\ \A c \in Catalogs : HasCatalogs(c)
BY DEF Records, Catalogs, HasCatalogs

LEMMA WithinEntry ==
  ASSUME NEW r, NEW m, HasCatalogs(r), HasCatalogs(m), Within(r, m),
         NEW p \in Proposals, HasEntry(r, p)
  PROVE  HasEntry(m, p)
BY BoundsAssumption DEF Within, HasEntry, HasCatalogs

LEMMA WithinChain ==
  ASSUME NEW r, NEW m, NEW n, HasCatalogs(r), HasCatalogs(m), HasCatalogs(n),
         Within(r, m), Within(m, n)
  PROVE  Within(r, n)
<1>1. \A p \in Proposals : r.docs[p] <= n.docs[p]
  BY BoundsAssumption DEF Within, HasCatalogs
<1> QED
  BY <1>1 DEF Within

LEMMA WithinSame ==
  ASSUME NEW r, NEW m, HasCatalogs(r), m.agents = r.agents, m.skills = r.skills, m.docs = r.docs
  PROVE  /\ Within(r, m) /\ HasCatalogs(m)
         /\ \A p \in Proposals : HasEntry(m, p) <=> HasEntry(r, p)
<1>1. \A p \in Proposals : r.docs[p] <= m.docs[p]
  BY BoundsAssumption DEF HasCatalogs
<1> QED
  BY <1>1 DEF Within, HasCatalogs, HasEntry

-----------------------------------------------------------------------------
(* What a request does to the gate                                         *)

GateDelta ==
  \/ Approved' = Approved /\ Published' = Published
  \/ \E p \in Proposals : Approved' = Approved \cup {p} /\ Published' = Published
  \/ \E p \in Approved : Approved' = Approved /\ Published' = Published \cup {p}

Effect(next) ==
  /\ Within(mem, mem')
  /\ GateDelta
  /\ StoredApproved \subseteq StoredApproved' /\ StoredApproved' \subseteq Approved'
  /\ db'.agents = db.agents /\ db'.skills = db.skills /\ db'.docs = db.docs
  /\ FreshInv'
  /\ next.pc = "return" => next.p \in Published'

LEMMA StayEffect ==
  ASSUME TypeInv, GateInv, CatalogsStay, db' = db, fresh' = fresh, mem' \in Records,
         mem'.approvals = mem.approvals, NEW next, next.pc # "return"
  PROVE  Effect(next)
<1>1. Within(mem, mem') /\ \A p \in Proposals : HasEntry(mem', p) <=> HasEntry(mem, p)
  BY WithinSame, CatalogsOf DEF CatalogsStay, TypeInv
<1>2. Published' = Published /\ Approved' = Approved /\ StoredApproved' = StoredApproved
  BY <1>1 DEF Published, Approved, StoredApproved
<1>3. FreshInv'
  BY DEF GateInv, FreshInv
<1> QED
  BY <1>1, <1>2, <1>3 DEF Effect, GateDelta, GateInv

LEMMA ProposeEffect ==
  ASSUME TypeInv, GateInv, NEW t \in Threads, NEW p \in Proposals, NEW d \in Drafts[p],
         Propose(t, p, d)
  PROVE  Effect([pc |-> "store", p |-> p, draft |-> d])
<1>1. /\ CatalogsStay /\ p \in fresh /\ fresh' = fresh \ {p} /\ db' = db
      /\ mem'.approvals = [mem.approvals EXCEPT ![p] = d.asks] /\ d.asks # "approved"
  BY ProposeFacts
<1>2. Within(mem, mem') /\ \A q \in Proposals : HasEntry(mem', q) <=> HasEntry(mem, q)
  BY <1>1, WithinSame, CatalogsOf DEF CatalogsStay, TypeInv
<1>3. mem.approvals[p] = "none"
  BY <1>1 DEF GateInv, FreshInv
<1>4. Approved' = Approved
  BY <1>1, <1>3 DEF Approved, TypeInv, Records
<1>5. Published' = Published /\ StoredApproved' = StoredApproved
  BY <1>1, <1>2 DEF Published, StoredApproved
<1>6. FreshInv'
  BY <1>1 DEF GateInv, FreshInv, TypeInv, Records
<1> QED
  BY <1>1, <1>2, <1>4, <1>5, <1>6 DEF Effect, GateDelta, GateInv

LEMMA ProposeApprovedEffect ==
  ASSUME TypeInv, GateInv, NEW t \in Threads, NEW p \in Proposals, NEW d \in Drafts[p],
         ProposeApproved(t, p, d)
  PROVE  Effect(Idle)
<1>1. /\ CatalogsStay /\ p \in fresh /\ fresh' = fresh \ {p}
      /\ mem'.approvals = [mem.approvals EXCEPT ![p] = "approved"]
      /\ db'.agents = db.agents /\ db'.skills = db.skills /\ db'.docs = db.docs
      /\ db'.approvals = [db.approvals EXCEPT ![p] = "approved"]
  BY ProposeApprovedFacts
<1>2. Within(mem, mem') /\ \A q \in Proposals : HasEntry(mem', q) <=> HasEntry(mem, q)
  BY <1>1, WithinSame, CatalogsOf DEF CatalogsStay, TypeInv
<1>3. Approved' = Approved \cup {p}
  BY <1>1 DEF Approved, TypeInv, Records
<1>4. Published' = Published
  BY <1>2 DEF Published
<1>5. StoredApproved' = StoredApproved \cup {p}
  BY <1>1 DEF StoredApproved, TypeInv, Records
<1>6. FreshInv'
  BY <1>1 DEF GateInv, FreshInv, TypeInv, Records
<1>7. Idle.pc # "return"
  BY IdleContinues
<1>8. StoredApproved' \subseteq Approved'
  BY <1>3, <1>5 DEF GateInv
<1> QED
  BY <1>1, <1>2, <1>3, <1>4, <1>5, <1>6, <1>7, <1>8 DEF Effect, GateDelta

LEMMA DecideEffect ==
  ASSUME TypeInv, GateInv, NEW t \in Threads, NEW p \in Proposals, NEW v \in Decisions,
         DecideApproval(t, p, v)
  PROVE  Effect(Idle)
<1>1. /\ CatalogsStay /\ fresh' = fresh /\ db' = db /\ mem.approvals[p] \in Undecided
      /\ mem'.approvals = [mem.approvals EXCEPT ![p] = v]
  BY DecideFacts
<1>2. Within(mem, mem') /\ \A q \in Proposals : HasEntry(mem', q) <=> HasEntry(mem, q)
  BY <1>1, WithinSame, CatalogsOf DEF CatalogsStay, TypeInv
<1>3. mem.approvals[p] # "approved" /\ mem.approvals[p] # "none"
  BY <1>1 DEF Undecided
<1>4. Approved' = Approved \/ Approved' = Approved \cup {p}
  BY <1>1, <1>3 DEF Approved, TypeInv, Records
<1>5. Published' = Published /\ StoredApproved' = StoredApproved
  BY <1>1, <1>2 DEF Published, StoredApproved
<1>6. FreshInv'
  BY <1>1, <1>3 DEF GateInv, FreshInv, TypeInv, Records
<1>7. Idle.pc # "return"
  BY IdleContinues
<1> QED
  BY <1>1, <1>2, <1>4, <1>5, <1>6, <1>7 DEF Effect, GateDelta, GateInv

\* A registration adds the entry of its proposal and takes none away.
LEMMA SkillEntries ==
  ASSUME TypeInv, NEW p \in Proposals, NEW d \in AllDrafts, SkillMade(p, d)
  PROVE  /\ Within(mem, mem')
         /\ \A q \in Proposals : HasEntry(mem', q) <=> (q = p \/ HasEntry(mem, q))
<1> DEFINE skill == [agents |-> {d.by}, from |-> p]
           agent == GrantSkill(mem.agents[d.by], d.id)
<1>1. mem.agents[d.by] \in [skills : SUBSET SkillIds, from : Origins]
  BY DEF TypeInv, Records, AgentRows, SkillMade
<1>2. agent # None /\ agent.from = mem.agents[d.by].from
  <2>1. agent \in [skills : SUBSET SkillIds, from : Origins] /\ agent.from = mem.agents[d.by].from
    BY <1>1 DEF GrantSkill, SkillMade
  <2> QED
    BY <2>1, EntriesAreNotNone
<1>3. skill # None /\ skill.from = p
  BY EntriesAreNotNone DEF SkillMade, Origins
<1>4. \A a \in AgentIds : mem'.agents[a] = IF a = d.by THEN agent ELSE mem.agents[a]
  BY DEF SkillMade, TypeInv, Records
<1>5. \A s \in SkillIds : mem'.skills[s] = IF s = d.id THEN skill ELSE mem.skills[s]
  BY DEF SkillMade, TypeInv, Records
<1>6. /\ mem.skills[d.id] = None /\ mem.agents[d.by] # None /\ d.id \in SkillIds
      /\ d.by \in AgentIds /\ mem'.docs = mem.docs
  BY DEF SkillMade
<1> HIDE DEF skill, agent
<1>7. \A q \in Proposals : mem.docs[q] <= mem'.docs[q]
  BY <1>6, BoundsAssumption DEF TypeInv, Records
<1>8. Within(mem, mem')
  BY <1>2, <1>4, <1>5, <1>6, <1>7 DEF Within
<1>9. ASSUME NEW q \in Proposals PROVE HasEntry(mem', q) <=> (q = p \/ HasEntry(mem, q))
  <2>1. (\E a \in AgentIds : mem'.agents[a] # None /\ mem'.agents[a].from = q)
          <=> (\E a \in AgentIds : mem.agents[a] # None /\ mem.agents[a].from = q)
    BY <1>2, <1>4, <1>6
  <2>2. (\E s \in SkillIds : mem'.skills[s] # None /\ mem'.skills[s].from = q)
          <=> (q = p \/ \E s \in SkillIds : mem.skills[s] # None /\ mem.skills[s].from = q)
    BY <1>3, <1>5, <1>6
  <2> QED
    BY <1>6, <2>1, <2>2 DEF HasEntry
<1> QED
  BY <1>8, <1>9

LEMMA AgentEntries ==
  ASSUME TypeInv, NEW p \in Proposals, NEW d \in AllDrafts, AgentMade(p, d)
  PROVE  /\ Within(mem, mem')
         /\ \A q \in Proposals : HasEntry(mem', q) <=> (q = p \/ HasEntry(mem, q))
<1> DEFINE agent == [skills |-> {}, from |-> p]
<1>1. agent # None /\ agent.from = p
  BY EntriesAreNotNone DEF Origins
<1>2. \A a \in AgentIds : mem'.agents[a] = IF a = d.id THEN agent ELSE mem.agents[a]
  BY DEF AgentMade, TypeInv, Records
<1>3. /\ mem.agents[d.id] = None /\ d.id \in AgentIds
      /\ mem'.docs = mem.docs /\ mem'.skills = mem.skills
  BY DEF AgentMade
<1> HIDE DEF agent
<1>4. \A q \in Proposals : mem.docs[q] <= mem'.docs[q]
  BY <1>3, BoundsAssumption DEF TypeInv, Records
<1>5. Within(mem, mem')
  BY <1>2, <1>3, <1>4 DEF Within
<1>6. ASSUME NEW q \in Proposals PROVE HasEntry(mem', q) <=> (q = p \/ HasEntry(mem, q))
  <2>1. (\E a \in AgentIds : mem'.agents[a] # None /\ mem'.agents[a].from = q)
          <=> (q = p \/ \E a \in AgentIds : mem.agents[a] # None /\ mem.agents[a].from = q)
    BY <1>1, <1>2, <1>3
  <2> QED
    BY <1>3, <2>1 DEF HasEntry
<1> QED
  BY <1>5, <1>6

LEMMA DocEntries ==
  ASSUME TypeInv, NEW p \in Proposals, DocMade(p)
  PROVE  /\ Within(mem, mem')
         /\ \A q \in Proposals : HasEntry(mem', q) <=> (q = p \/ HasEntry(mem, q))
<1>1. \A q \in Proposals : mem.docs[q] \in Nat
  BY BoundsAssumption DEF TypeInv, Records
<1>2. \A q \in Proposals : mem'.docs[q] = IF q = p THEN mem.docs[q] + 1 ELSE mem.docs[q]
  BY DEF DocMade, TypeInv, Records
<1>3. \A q \in Proposals : /\ mem.docs[q] <= mem'.docs[q]
                           /\ mem'.docs[q] > 0 <=> (q = p \/ mem.docs[q] > 0)
  BY <1>1, <1>2
<1> QED
  BY <1>3 DEF DocMade, Within, HasEntry

LEMMA RegisterEffect ==
  ASSUME TypeInv, GateInv, NEW t \in Threads, NEW p \in Proposals, Register(t, p)
  PROVE  Effect([pc |-> "return", p |-> p])
<1>1. /\ Made(p, mem.proposals[p].draft) /\ mem'.approvals = mem.approvals
      /\ Registrable(p) /\ db' = db /\ fresh' = fresh
  BY RegisterFacts
<1>2. mem.proposals[p].draft \in AllDrafts
  BY AtFacts DEF Register
<1>3. /\ Within(mem, mem')
      /\ \A q \in Proposals : HasEntry(mem', q) <=> (q = p \/ HasEntry(mem, q))
  BY <1>1, <1>2, SkillEntries, AgentEntries, DocEntries DEF Made
<1>4. Approved' = Approved /\ p \in Approved
  BY <1>1 DEF Approved, Registrable
<1>5. Published' = Published \cup {p} /\ StoredApproved' = StoredApproved
  BY <1>1, <1>3 DEF Published, StoredApproved
<1>6. FreshInv'
  BY <1>1 DEF GateInv, FreshInv
<1> QED
  BY <1>1, <1>3, <1>4, <1>5, <1>6 DEF Effect, GateDelta, GateInv

\* The catalog endpoints make entries that come from no proposal.
LEMMA CatalogAgentEffect ==
  ASSUME TypeInv, GateInv, NEW t \in Threads, NEW a \in AgentIds,
         NEW skills \in SUBSET SkillIds, CatalogAgent(t, a, skills)
  PROVE  Effect(Idle)
<1> DEFINE agent == [skills |-> skills, from |-> None]
<1>0. mem'.docs = mem.docs /\ mem'.approvals = mem.approvals /\ db' = db /\ fresh' = fresh
  BY CatalogAgentFacts
<1>1. /\ mem.agents[a] = None /\ \A x \in skills : mem.skills[x] # None
      /\ mem'.agents = [mem.agents EXCEPT ![a] = agent]
      /\ mem'.skills = [x \in SkillIds |->
           IF x \in skills THEN AllowAgent(mem.skills[x], a) ELSE mem.skills[x]]
  BY CatalogAgentFacts
<1>2. agent # None /\ agent.from \notin Proposals
  BY NoneAssumption, EntriesAreNotNone DEF Origins
<1> HIDE DEF agent
<1>3. \A b \in AgentIds : mem'.agents[b] = IF b = a THEN agent ELSE mem.agents[b]
  BY <1>1 DEF TypeInv, Records
<1>4. \A x \in SkillIds : mem.skills[x] # None =>
        mem'.skills[x] # None /\ mem'.skills[x].from = mem.skills[x].from
  <2>1. \A x \in SkillIds : mem.skills[x] # None =>
          /\ AllowAgent(mem.skills[x], a) \in [agents : SUBSET AgentIds, from : Origins]
          /\ AllowAgent(mem.skills[x], a).from = mem.skills[x].from
    BY DEF TypeInv, Records, SkillRows, AllowAgent
  <2> QED
    BY <1>1, <2>1, EntriesAreNotNone
<1>5. \A x \in SkillIds : mem.skills[x] = None => mem'.skills[x] = None
  BY <1>1
<1>6. \A q \in Proposals : mem.docs[q] <= mem'.docs[q]
  BY <1>0, BoundsAssumption DEF TypeInv, Records
<1>7. Within(mem, mem')
  BY <1>1, <1>3, <1>4, <1>6 DEF Within
<1>8. \A q \in Proposals : HasEntry(mem', q) <=> HasEntry(mem, q)
  <2> TAKE q \in Proposals
  <2>1. (\E b \in AgentIds : mem'.agents[b] # None /\ mem'.agents[b].from = q)
          <=> (\E b \in AgentIds : mem.agents[b] # None /\ mem.agents[b].from = q)
    BY <1>1, <1>2, <1>3
  <2>2. (\E x \in SkillIds : mem'.skills[x] # None /\ mem'.skills[x].from = q)
          <=> (\E x \in SkillIds : mem.skills[x] # None /\ mem.skills[x].from = q)
    BY <1>4, <1>5
  <2> QED
    BY <1>0, <2>1, <2>2 DEF HasEntry
<1>9. Published' = Published /\ Approved' = Approved /\ StoredApproved' = StoredApproved
  BY <1>0, <1>8 DEF Published, Approved, StoredApproved
<1>10. FreshInv'
  BY <1>0 DEF GateInv, FreshInv
<1> QED
  BY <1>0, <1>1, <1>7, <1>9, <1>10, IdleContinues DEF Effect, GateDelta, GateInv

LEMMA CatalogSkillEffect ==
  ASSUME TypeInv, GateInv, NEW t \in Threads, NEW s \in SkillIds,
         NEW agents \in AllowLists, CatalogSkill(t, s, agents)
  PROVE  Effect(Idle)
<1> DEFINE skill == [agents |-> agents, from |-> None]
<1>1. /\ mem.skills[s] = None /\ \A b \in agents : mem.agents[b] # None
      /\ mem'.skills = [mem.skills EXCEPT ![s] = skill]
      /\ mem'.agents = [b \in AgentIds |->
           IF b \in agents THEN GrantSkill(mem.agents[b], s) ELSE mem.agents[b]]
      /\ mem'.docs = mem.docs /\ mem'.approvals = mem.approvals
      /\ db' = db /\ fresh' = fresh /\ agents \subseteq AgentIds
  BY CatalogSkillFacts
<1>2. skill # None /\ skill.from \notin Proposals
  BY <1>1, NoneAssumption, EntriesAreNotNone DEF Origins
<1> HIDE DEF skill
<1>3. \A x \in SkillIds : mem'.skills[x] = IF x = s THEN skill ELSE mem.skills[x]
  BY <1>1 DEF TypeInv, Records
<1>4. \A b \in AgentIds : mem.agents[b] # None =>
        mem'.agents[b] # None /\ mem'.agents[b].from = mem.agents[b].from
  <2>1. \A b \in AgentIds : mem.agents[b] # None =>
          /\ GrantSkill(mem.agents[b], s) \in [skills : SUBSET SkillIds, from : Origins]
          /\ GrantSkill(mem.agents[b], s).from = mem.agents[b].from
    BY DEF TypeInv, Records, AgentRows, GrantSkill
  <2> QED
    BY <1>1, <2>1, EntriesAreNotNone
<1>5. \A b \in AgentIds : mem.agents[b] = None => mem'.agents[b] = None
  BY <1>1
<1>6. \A q \in Proposals : mem.docs[q] <= mem'.docs[q]
  BY <1>1, BoundsAssumption DEF TypeInv, Records
<1>7. Within(mem, mem')
  BY <1>1, <1>3, <1>4, <1>6 DEF Within
<1>8. \A q \in Proposals : HasEntry(mem', q) <=> HasEntry(mem, q)
  <2> TAKE q \in Proposals
  <2>1. (\E b \in AgentIds : mem'.agents[b] # None /\ mem'.agents[b].from = q)
          <=> (\E b \in AgentIds : mem.agents[b] # None /\ mem.agents[b].from = q)
    BY <1>4, <1>5
  <2>2. (\E x \in SkillIds : mem'.skills[x] # None /\ mem'.skills[x].from = q)
          <=> (\E x \in SkillIds : mem.skills[x] # None /\ mem.skills[x].from = q)
    BY <1>1, <1>2, <1>3
  <2> QED
    BY <1>1, <2>1, <2>2 DEF HasEntry
<1>9. Published' = Published /\ Approved' = Approved /\ StoredApproved' = StoredApproved
  BY <1>1, <1>8 DEF Published, Approved, StoredApproved
<1>10. FreshInv'
  BY <1>1 DEF GateInv, FreshInv
<1> QED
  BY <1>1, <1>7, <1>9, <1>10, IdleContinues DEF Effect, GateDelta, GateInv

LEMMA RequestEffect ==
  ASSUME TypeInv, GateInv, NEW t \in Threads, Request(t)
  PROVE  \E next \in Continuations : Begins(t, next) /\ Effect(next)
<1>0. \A next : Begins(t, next) => next \in Continuations /\ mem' \in Records
  BY DEF Begins
<1>1. ASSUME NEW p \in Proposals, NEW d \in Drafts[p], Propose(t, p, d)
      PROVE  \E next : Begins(t, next) /\ Effect(next)
  BY <1>1, ProposeFacts, ProposeEffect
<1>2. ASSUME NEW p \in Proposals, NEW d \in Drafts[p], ProposeApproved(t, p, d)
      PROVE  \E next : Begins(t, next) /\ Effect(next)
  BY <1>2, ProposeApprovedFacts, ProposeApprovedEffect
<1>3. ASSUME NEW p \in Proposals, NEW v \in Decisions, DecideApproval(t, p, v)
      PROVE  \E next : Begins(t, next) /\ Effect(next)
  BY <1>3, DecideFacts, DecideEffect
<1>4. ASSUME NEW next \in Afterwards, Refresh(t, next)
      PROVE  \E x : Begins(t, x) /\ Effect(x)
  <2>1. next.pc # "return"
    BY DEF Afterwards, Idle, Storing, Following
  <2> QED
    BY <1>0, <1>4, <2>1, RefreshFacts, StayEffect
<1>5. ASSUME NEW p \in Proposals, Sandbox(t, p)
      PROVE  \E next : Begins(t, next) /\ Effect(next)
  BY <1>0, <1>5, SandboxFacts, StayEffect, IdleContinues
<1>6. ASSUME NEW p \in Proposals, Register(t, p)
      PROVE  \E next : Begins(t, next) /\ Effect(next)
  BY <1>6, RegisterFacts, RegisterEffect
<1>7. ASSUME Store(t) PROVE \E next : Begins(t, next) /\ Effect(next)
  BY <1>0, <1>7, StoreFacts, StayEffect, IdleContinues
<1>8. ASSUME NEW a \in AgentIds, NEW skills \in SUBSET SkillIds, CatalogAgent(t, a, skills)
      PROVE  \E next : Begins(t, next) /\ Effect(next)
  BY <1>8, CatalogAgentFacts, CatalogAgentEffect
<1>9. ASSUME NEW s \in SkillIds, NEW agents \in AllowLists, CatalogSkill(t, s, agents)
      PROVE  \E next : Begins(t, next) /\ Effect(next)
  BY <1>9, CatalogSkillFacts, CatalogSkillEffect
<1> QED
  BY <1>0, <1>1, <1>2, <1>3, <1>4, <1>5, <1>6, <1>7, <1>8, <1>9, RequestCases

\* What a thread carries stays good when memory grows and the rows stay.
LEMMA CarriesOn ==
  ASSUME NEW x \in ThreadStates, NEW m \in Records, NEW n \in Records,
         NEW d \in Records, NEW e \in Records, Carries(x, m, d), Within(m, n),
         \A p \in Proposals : d.approvals[p] = "approved" => e.approvals[p] = "approved",
         \A p \in Proposals : HasEntry(d, p) => HasEntry(e, p)
  PROVE  Carries(x, n, e)
<1>1. HasCatalogs(Left(x)) /\ HasCatalogs(m) /\ HasCatalogs(n)
  BY LeftShape, CatalogsOf
<1>2. CarriesMade(x, n)
  BY <1>1, WithinChain DEF Carries, CarriesMade
<1>3. CarriesApproved(x, e)
  BY DEF Carries, CarriesApproved
<1>4. CarriesReturn(x, e)
  <2>1. (x.pc \in Saving /\ x.next.pc = "return") => x.next.p \in Proposals
    BY Phases, NextPhases DEF Saving, SavingApprovals, SavingAgents, SavingSkills,
       SavingProposals, Returning
  <2> QED
    BY <2>1 DEF Carries, CarriesReturn
<1> QED
  BY <1>2, <1>3, <1>4 DEF Carries

LEMMA SyncCarries ==
  ASSUME TypeInv, TypeInv', NEW next \in Continuations, Published' \subseteq Approved',
         next.pc = "return" => next.p \in Published'
  PROVE  Carries(Sync(next), mem', db')
<1> DEFINE x == Sync(next)
           listed == [docs |-> mem'.docs, agents |-> mem'.agents, skills |-> mem'.skills]
<1>1. /\ x \in ThreadStates /\ x.next = next /\ x.pc = "save_approvals"
      /\ x.catalog = listed
      /\ x.approvals = {p \in Proposals : mem'.approvals[p] # "none"}
  BY SyncShape DEF TypeInv
<1>2. Left(x) = listed
  BY <1>1 DEF Left
<1>3. /\ Within(listed, mem')
      /\ \A p \in Proposals : HasEntry(listed, p) <=> HasEntry(mem', p)
  <2>1. HasCatalogs(mem')
    BY CatalogsOf DEF TypeInv
  <2>2. /\ listed.agents = mem'.agents /\ listed.skills = mem'.skills
        /\ listed.docs = mem'.docs
    OBVIOUS
  <2>3. HasCatalogs(listed)
    BY <2>1, <2>2 DEF HasCatalogs
  <2> HIDE DEF listed
  <2> QED
    BY <2>1, <2>2, <2>3, WithinSame
<1> HIDE DEF x, listed
<1>4. CarriesMade(x, mem')
  BY <1>2, <1>3 DEF CarriesMade
<1>5. CarriesApproved(x, db')
  <2>1. ASSUME NEW p \in Proposals, HasEntry(listed, p) PROVE p \in x.approvals
    BY <1>1, <1>3, <2>1 DEF Published, Approved
  <2> QED
    BY <1>1, <1>2, <2>1 DEF CarriesApproved
<1>6. CarriesReturn(x, db')
  <2>1. next.pc = "return" => HasEntry(listed, next.p)
    BY <1>3 DEF Published
  <2> QED
    BY <1>1, <1>2, <2>1 DEF CarriesReturn
<1>7. Carries(x, mem', db')
  BY <1>4, <1>5, <1>6 DEF Carries
<1> QED
  BY <1>7 DEF x

LEMMA GateRequest ==
  ASSUME TypeInv, GateInv, NEW t \in Threads, Request(t)
  PROVE  GateInv'
<1>1. PICK next \in Continuations : Begins(t, next) /\ Effect(next)
  BY RequestEffect
<1>2. TypeInv' /\ th'[t] = Sync(next) /\ \A u \in Threads \ {t} : th'[u] = th[u]
  BY <1>1, BeginsTypes
<1>3. Published' \subseteq Approved'
  BY <1>1 DEF Effect, GateDelta, GateInv
<1>4. HasCatalogs(mem) /\ HasCatalogs(mem') /\ HasCatalogs(db) /\ HasCatalogs(db')
  BY <1>2, CatalogsOf DEF TypeInv
<1>5. Within(db, db') /\ Within(db', db)
      /\ \A p \in Proposals : HasEntry(db', p) <=> HasEntry(db, p)
  BY <1>1, <1>4, WithinSame DEF Effect
<1>6. Within(db', mem')
  <2>1. Within(db', mem)
    BY <1>4, <1>5, WithinChain DEF GateInv
  <2> QED
    BY <1>1, <1>4, <2>1, WithinChain DEF Effect
<1>7. StoredPublished' = StoredPublished
  BY <1>5 DEF StoredPublished
<1>8. confirmed' = confirmed
  BY <1>1 DEF Begins
<1>9. Carries(Sync(next), mem', db')
  BY <1>1, <1>2, <1>3, SyncCarries DEF Effect
<1>10. ASSUME NEW u \in Threads PROVE Carries(th'[u], mem', db')
  <2>1. \A p \in Proposals : db.approvals[p] = "approved" => db'.approvals[p] = "approved"
    BY <1>1 DEF Effect, StoredApproved
  <2>2. th[u] \in ThreadStates /\ mem \in Records /\ mem' \in Records
        /\ db \in Records /\ db' \in Records /\ Carries(th[u], mem, db) /\ Within(mem, mem')
    BY <1>1, <1>2 DEF TypeInv, GateInv, Effect
  <2>3. Carries(th[u], mem', db')
    BY <1>5, <2>1, <2>2, CarriesOn
  <2> QED
    BY <1>2, <1>9, <2>3
<1> QED
  BY <1>1, <1>3, <1>6, <1>7, <1>8, <1>10 DEF GateInv, Effect

-----------------------------------------------------------------------------
(* What a save does to the gate                                            *)

LEMMA OthersCarry ==
  ASSUME TypeInv, TypeInv', GateInv, NEW u \in Threads, th'[u] = th[u], mem' = mem,
         StoredApproved \subseteq StoredApproved', StoredPublished \subseteq StoredPublished'
  PROVE  Carries(th'[u], mem', db')
<1>1. Within(mem, mem)
  BY WithinSame, CatalogsOf DEF TypeInv
<1>2. /\ \A p \in Proposals : db.approvals[p] = "approved" => db'.approvals[p] = "approved"
      /\ \A p \in Proposals : HasEntry(db, p) => HasEntry(db', p)
  BY DEF StoredApproved, StoredPublished
<1>3. th[u] \in ThreadStates /\ mem \in Records /\ db \in Records /\ db' \in Records
      /\ Carries(th[u], mem, db)
  BY DEF TypeInv, GateInv
<1> QED
  BY <1>1, <1>2, <1>3, CarriesOn

LEMMA GateSaveApprovals ==
  ASSUME TypeInv, GateInv, NEW t \in Threads, SaveApprovals(t)
  PROVE  GateInv'
<1> DEFINE x == th[t]
           y == [pc |-> "save_agents", next |-> x.next,
                 catalog |-> x.catalog, proposals |-> x.proposals]
<1>1. /\ x \in SavingApprovals /\ x.pc = "save_approvals"
      /\ db'.approvals = [p \in Proposals |->
           IF p \in x.approvals THEN mem.approvals[p] ELSE db.approvals[p]]
      /\ db'.agents = db.agents /\ db'.skills = db.skills /\ db'.docs = db.docs
      /\ th' = [th EXCEPT ![t] = y]
      /\ mem' = mem /\ fresh' = fresh /\ confirmed' = confirmed
  BY SaveApprovalsFacts DEF SaveApprovals
<1>2. TypeInv' /\ \A u \in Threads \ {t} : th'[u] = th[u]
  BY SaveTypes DEF Save
<1>3. th'[t] = y /\ Left(y) = x.catalog /\ Left(x) = x.catalog /\ y.pc = "save_agents"
      /\ y.next = x.next
  BY <1>1 DEF TypeInv, Left
<1>4. Carries(x, mem, db) /\ HasCatalogs(x.catalog) /\ HasCatalogs(mem) /\ HasCatalogs(db)
  BY <1>1, CatalogsOf DEF GateInv, TypeInv, SavingApprovals
<1> HIDE DEF x, y
<1>5. /\ Within(db', mem') /\ \A p \in Proposals : HasEntry(db', p) <=> HasEntry(db, p)
  <2>1. Within(db', db) /\ HasCatalogs(db')
    BY <1>1, <1>2, <1>4, CatalogsOf DEF TypeInv, Within, HasCatalogs
  <2>2. \A p \in Proposals : HasEntry(db', p) <=> HasEntry(db, p)
    BY <1>1, <1>4, WithinSame
  <2> QED
    BY <1>1, <1>4, <2>1, <2>2, WithinChain DEF GateInv
<1>6. StoredApproved \subseteq StoredApproved' /\ StoredApproved' \subseteq Approved'
  BY <1>1 DEF GateInv, StoredApproved, Approved
<1>7. StoredPublished' = StoredPublished /\ Approved' = Approved /\ Published' = Published
  BY <1>1, <1>5 DEF StoredPublished, Approved, Published
<1>8. FreshInv'
  BY <1>1 DEF GateInv, FreshInv, TypeInv
<1>9. Carries(y, mem', db')
  <2>1. CarriesMade(y, mem')
    BY <1>1, <1>3, <1>4 DEF Carries, CarriesMade
  <2>2. CarriesApproved(y, db')
    <3>1. ASSUME NEW p \in Proposals, HasEntry(x.catalog, p)
          PROVE  db'.approvals[p] = "approved"
      <4>1. p \in x.approvals \/ db.approvals[p] = "approved"
        BY <1>3, <1>4, <3>1 DEF Carries, CarriesApproved
      <4>2. mem.approvals[p] = "approved"
        BY <1>3, <1>4, <3>1, WithinEntry DEF Carries, CarriesMade, GateInv, Published, Approved
      <4> QED
        BY <1>1, <4>1, <4>2
    <3> QED
      BY <1>3, <3>1 DEF CarriesApproved
  <2>3. CarriesReturn(y, db')
    <3>1. x.next.pc = "return" => x.next.p \in Proposals
      BY <1>1, NextPhases DEF SavingApprovals, Returning
    <3> QED
      BY <1>1, <1>3, <1>4, <1>5, <3>1 DEF Carries, CarriesReturn, Saving
  <2> QED
    BY <2>1, <2>2, <2>3 DEF Carries
<1>10. ASSUME NEW u \in Threads PROVE Carries(th'[u], mem', db')
  BY <1>1, <1>2, <1>3, <1>6, <1>7, <1>9, OthersCarry
<1> QED
  BY <1>1, <1>5, <1>6, <1>7, <1>8, <1>10 DEF GateInv

\* The rows of a catalog written over the stored ones hold both, and no more.
LEMMA RowsHold ==
  ASSUME NEW d, NEW c, NEW m, NEW e, HasCatalogs(d), HasCatalogs(c), HasCatalogs(m),
         Within(d, m), Within(c, m),
         e.agents = [a \in AgentIds |-> Row(c.agents[a], d.agents[a])],
         e.skills = [s \in SkillIds |-> Row(c.skills[s], d.skills[s])],
         e.docs = [p \in Proposals |->
                     IF d.docs[p] < c.docs[p] THEN c.docs[p] ELSE d.docs[p]]
  PROVE  /\ Within(e, m) /\ HasCatalogs(e)
         /\ \A p \in Proposals : HasEntry(e, p) <=> (HasEntry(d, p) \/ HasEntry(c, p))
<1>1. HasCatalogs(e)
  BY BoundsAssumption DEF HasCatalogs, Row
<1>2. /\ \A a \in AgentIds : e.agents[a] = IF c.agents[a] # None THEN c.agents[a] ELSE d.agents[a]
      /\ \A s \in SkillIds : e.skills[s] = IF c.skills[s] # None THEN c.skills[s] ELSE d.skills[s]
      /\ \A p \in Proposals : e.docs[p] = IF d.docs[p] < c.docs[p] THEN c.docs[p] ELSE d.docs[p]
  BY DEF Row
<1>3. Within(e, m)
  BY <1>2 DEF Within
<1>4. ASSUME NEW p \in Proposals PROVE HasEntry(e, p) <=> (HasEntry(d, p) \/ HasEntry(c, p))
  <2>1. (\E a \in AgentIds : e.agents[a] # None /\ e.agents[a].from = p)
          <=> \/ \E a \in AgentIds : d.agents[a] # None /\ d.agents[a].from = p
              \/ \E a \in AgentIds : c.agents[a] # None /\ c.agents[a].from = p
    <3>1. \A a \in AgentIds : (c.agents[a] # None /\ d.agents[a] # None)
                                => c.agents[a].from = d.agents[a].from
      BY DEF Within
    <3> QED
      BY <1>2, <3>1
  <2>2. (\E s \in SkillIds : e.skills[s] # None /\ e.skills[s].from = p)
          <=> \/ \E s \in SkillIds : d.skills[s] # None /\ d.skills[s].from = p
              \/ \E s \in SkillIds : c.skills[s] # None /\ c.skills[s].from = p
    <3>1. \A s \in SkillIds : (c.skills[s] # None /\ d.skills[s] # None)
                                => c.skills[s].from = d.skills[s].from
      BY DEF Within
    <3> QED
      BY <1>2, <3>1
  <2>3. e.docs[p] > 0 <=> (d.docs[p] > 0 \/ c.docs[p] > 0)
    BY <1>2, BoundsAssumption DEF HasCatalogs
  <2> QED
    BY <2>1, <2>2, <2>3 DEF HasEntry
<1> QED
  BY <1>1, <1>3, <1>4

\* A save that moves part c of what a thread carries into the rows, where the
\* thread goes on as y with the rest.
LEMMA GateMoves ==
  ASSUME TypeInv, TypeInv', GateInv, NEW t \in Threads, NEW c, NEW y, HasCatalogs(c),
         th[t].pc \in {"save_agents", "save_skills"}, y.pc \in Saving \ {"save_approvals"},
         th'[t] = y, \A u \in Threads \ {t} : th'[u] = th[u],
         y.next = th[t].next, HasCatalogs(Left(y)),
         \A p \in Proposals : HasEntry(Left(th[t]), p) <=> (HasEntry(c, p) \/ HasEntry(Left(y), p)),
         Within(Left(th[t]), mem) => Within(c, mem) /\ Within(Left(y), mem),
         db'.agents = [a \in AgentIds |-> Row(c.agents[a], db.agents[a])],
         db'.skills = [s \in SkillIds |-> Row(c.skills[s], db.skills[s])],
         db'.docs = [p \in Proposals |->
                       IF db.docs[p] < c.docs[p] THEN c.docs[p] ELSE db.docs[p]],
         db'.approvals = db.approvals,
         mem' = mem, fresh' = fresh, confirmed' = confirmed
  PROVE  GateInv'
<1>1. Carries(th[t], mem, db) /\ HasCatalogs(mem) /\ HasCatalogs(db) /\ Within(db, mem)
  BY CatalogsOf DEF GateInv, TypeInv
<1>2. Within(c, mem) /\ Within(Left(y), mem)
  BY <1>1 DEF Carries, CarriesMade
<1>3. /\ Within(db', mem')
      /\ \A p \in Proposals : HasEntry(db', p) <=> (HasEntry(db, p) \/ HasEntry(c, p))
  BY <1>1, <1>2, RowsHold
<1>4. \A p \in Proposals : HasEntry(Left(th[t]), p) => db.approvals[p] = "approved"
  BY <1>1 DEF Carries, CarriesApproved
<1>5. StoredApproved' = StoredApproved /\ Approved' = Approved /\ Published' = Published
  BY DEF StoredApproved, Approved, Published
<1>6. StoredPublished \subseteq StoredPublished' /\ StoredPublished' \subseteq StoredApproved
  BY <1>3, <1>4 DEF GateInv, StoredPublished, StoredApproved
<1>7. FreshInv'
  BY DEF GateInv, FreshInv
<1>8. Carries(y, mem', db')
  <2>1. CarriesMade(y, mem')
    BY <1>2 DEF CarriesMade
  <2>2. CarriesApproved(y, db')
    BY <1>4 DEF CarriesApproved
  <2>3. th[t].next \in Continuations
    BY Phases DEF TypeInv, SavingAgents, SavingSkills
  <2>4. th[t].next.pc = "return" => th[t].next.p \in Proposals
    BY <2>3, NextPhases DEF Returning
  <2>5. CarriesReturn(y, db')
    BY <1>1, <1>3, <2>4 DEF Carries, CarriesReturn, Saving
  <2> QED
    BY <2>1, <2>2, <2>5 DEF Carries
<1>9. ASSUME NEW u \in Threads PROVE Carries(th'[u], mem', db')
  BY <1>5, <1>6, <1>8, OthersCarry
<1> QED
  BY <1>3, <1>5, <1>6, <1>7, <1>9 DEF GateInv

LEMMA GateSaveAgents ==
  ASSUME TypeInv, GateInv, NEW t \in Threads, SaveAgents(t)
  PROVE  GateInv'
<1> DEFINE x == th[t]
           c == [Nothing EXCEPT !.docs = x.catalog.docs, !.agents = x.catalog.agents]
           y == [pc |-> "save_skills", next |-> x.next,
                 skills |-> x.catalog.skills, proposals |-> x.proposals]
<1>1. /\ x \in SavingAgents /\ x.pc = "save_agents"
      /\ db'.agents = Rows(x.catalog).agents /\ db'.docs = Rows(x.catalog).docs
      /\ db'.skills = db.skills /\ db'.approvals = db.approvals
      /\ th' = [th EXCEPT ![t] = y]
      /\ mem' = mem /\ fresh' = fresh /\ confirmed' = confirmed
  BY SaveAgentsFacts DEF SaveAgents
<1>2. TypeInv' /\ \A u \in Threads \ {t} : th'[u] = th[u]
  BY SaveTypes DEF Save
<1>3. /\ th'[t] = y /\ y.pc = "save_skills" /\ y.next = x.next
      /\ Left(y) = [Nothing EXCEPT !.skills = x.catalog.skills]
  BY <1>1 DEF TypeInv, Left
<1>4. x.catalog \in Catalogs /\ Left(x) = x.catalog
  BY <1>1 DEF SavingAgents, Left
<1>5. /\ c.docs = x.catalog.docs /\ c.agents = x.catalog.agents
      /\ c.skills = [s \in SkillIds |-> None]
      /\ Left(y).skills = x.catalog.skills
      /\ Left(y).docs = [p \in Proposals |-> 0] /\ Left(y).agents = [a \in AgentIds |-> None]
  BY <1>3 DEF Nothing
<1> HIDE DEF x, c, y
<1>6. HasCatalogs(c) /\ HasCatalogs(Left(y))
  BY <1>4, <1>5, BoundsAssumption DEF HasCatalogs, Catalogs, AgentRows, SkillRows
<1>7. \A p \in Proposals : HasEntry(Left(x), p) <=> (HasEntry(c, p) \/ HasEntry(Left(y), p))
  BY <1>4, <1>5 DEF HasEntry
<1>8. Within(Left(x), mem) => Within(c, mem) /\ Within(Left(y), mem)
  <2>1. \A p \in Proposals : 0 <= mem.docs[p]
    BY BoundsAssumption DEF TypeInv, Records
  <2> QED
    BY <1>4, <1>5, <2>1 DEF Within
<1>9. /\ db'.agents = [a \in AgentIds |-> Row(c.agents[a], db.agents[a])]
      /\ db'.docs = [p \in Proposals |->
                       IF db.docs[p] < c.docs[p] THEN c.docs[p] ELSE db.docs[p]]
  BY <1>1, <1>5 DEF Rows
<1>10. db'.skills = [s \in SkillIds |-> Row(c.skills[s], db.skills[s])]
  BY <1>1, <1>5 DEF Row, TypeInv, Records
<1>11. th[t].pc \in {"save_agents", "save_skills"} /\ y.pc \in Saving \ {"save_approvals"}
       /\ th[t].next = y.next /\ th[t] = x
  BY <1>1, <1>3 DEF x, Saving
<1> QED
  BY <1>1, <1>2, <1>3, <1>6, <1>7, <1>8, <1>9, <1>10, <1>11, GateMoves

LEMMA GateSaveSkills ==
  ASSUME TypeInv, GateInv, NEW t \in Threads, SaveSkills(t)
  PROVE  GateInv'
<1> DEFINE x == th[t]
           y == [pc |-> "save_proposals", next |-> x.next, proposals |-> x.proposals]
<1>1. /\ x \in SavingSkills /\ x.pc = "save_skills"
      /\ db'.skills = [s \in SkillIds |-> Row(x.skills[s], db.skills[s])]
      /\ db'.agents = db.agents /\ db'.docs = db.docs /\ db'.approvals = db.approvals
      /\ th' = [th EXCEPT ![t] = y]
      /\ mem' = mem /\ fresh' = fresh /\ confirmed' = confirmed
  BY SaveSkillsFacts DEF SaveSkills
<1>2. TypeInv' /\ \A u \in Threads \ {t} : th'[u] = th[u]
  BY SaveTypes DEF Save
<1>3. /\ th'[t] = y /\ y.pc = "save_proposals" /\ y.next = x.next /\ Left(y) = Nothing
  BY <1>1 DEF TypeInv, Left
<1>4. /\ Left(x).skills = x.skills
      /\ Left(x).docs = [p \in Proposals |-> 0] /\ Left(x).agents = [a \in AgentIds |-> None]
  BY <1>1 DEF Left, Nothing
<1> HIDE DEF x, y
<1>5. HasCatalogs(Left(x)) /\ HasCatalogs(Left(y))
  BY <1>1, <1>3, LeftShape, NothingShape, CatalogsOf DEF ThreadStates
<1>6. \A p \in Proposals : HasEntry(Left(x), p) <=> (HasEntry(Left(x), p) \/ HasEntry(Left(y), p))
  BY <1>3, NothingShape
<1>7. Within(Left(x), mem) => Within(Left(x), mem) /\ Within(Left(y), mem)
  <2>1. \A p \in Proposals : 0 <= mem.docs[p]
    BY BoundsAssumption DEF TypeInv, Records
  <2> QED
    BY <1>3, <2>1 DEF Within, Nothing
<1>8. /\ db'.agents = [a \in AgentIds |-> Row(Left(x).agents[a], db.agents[a])]
      /\ db'.skills = [s \in SkillIds |-> Row(Left(x).skills[s], db.skills[s])]
  BY <1>1, <1>4 DEF Row, TypeInv, Records
<1>9. db'.docs = [p \in Proposals |->
                    IF db.docs[p] < Left(x).docs[p] THEN Left(x).docs[p] ELSE db.docs[p]]
  <2>1. \A p \in Proposals : ~(db.docs[p] < 0)
    BY BoundsAssumption DEF TypeInv, Records
  <2> QED
    BY <1>1, <1>4, <2>1 DEF TypeInv, Records
<1>10. th[t].pc \in {"save_agents", "save_skills"} /\ y.pc \in Saving \ {"save_approvals"}
       /\ th[t].next = y.next /\ th[t] = x
  BY <1>1, <1>3 DEF x, Saving
<1> QED
  BY <1>1, <1>2, <1>3, <1>5, <1>6, <1>7, <1>8, <1>9, <1>10, GateMoves

LEMMA NothingCarried ==
  ASSUME NEW x \in Afterwards \cup {Down}, NEW m \in Records, NEW d
  PROVE  Carries(x, m, d)
<1>1. x.pc \notin Saving
  BY DEF Afterwards, Idle, Down, Storing, Following, Saving
<1>2. Left(x) = Nothing
  BY <1>1 DEF Left, Saving
<1>3. \A p \in Proposals : 0 <= m.docs[p]
  BY BoundsAssumption DEF Records
<1>4. Within(Nothing, m)
  BY <1>3 DEF Within, Nothing
<1> QED
  BY <1>1, <1>2, <1>4, NothingShape DEF Carries, CarriesMade, CarriesApproved, CarriesReturn

LEMMA GateSaveProposals ==
  ASSUME TypeInv, GateInv, NEW t \in Threads, SaveProposals(t)
  PROVE  /\ GateInv'
         /\ \/ confirmed' = confirmed
            \/ \E p \in Published : confirmed' = confirmed \cup {p}
<1>1. /\ th[t] \in SavingProposals /\ th[t].pc = "save_proposals"
      /\ db'.agents = db.agents /\ db'.skills = db.skills /\ db'.docs = db.docs
      /\ db'.approvals = db.approvals /\ th'[t] \in Afterwards
      /\ confirmed' = confirmed \cup
           (IF th[t].next.pc = "return" THEN {th[t].next.p} ELSE {})
      /\ mem' = mem /\ fresh' = fresh
  BY SaveProposalsFacts DEF SaveProposals
<1>2. TypeInv' /\ \A u \in Threads \ {t} : th'[u] = th[u]
  BY SaveTypes DEF Save
<1>3. HasCatalogs(db) /\ HasCatalogs(db') /\ HasCatalogs(mem)
  BY <1>2, CatalogsOf DEF TypeInv
<1>4. Within(db', db) /\ \A p \in Proposals : HasEntry(db', p) <=> HasEntry(db, p)
  <2>1. Within(db', db)
    BY <1>1, <1>3, WithinSame
  <2> QED
    BY <1>1, <1>3, <2>1, WithinSame
<1>5. Within(db', mem')
  BY <1>1, <1>3, <1>4, WithinChain DEF GateInv
<1>6. /\ StoredApproved' = StoredApproved /\ StoredPublished' = StoredPublished
      /\ Approved' = Approved /\ Published' = Published
  BY <1>1, <1>4 DEF StoredApproved, StoredPublished, Approved, Published
<1>7. th[t].next.pc = "return" => th[t].next.p \in StoredPublished
  <2>1. Left(th[t]) = Nothing
    BY <1>1 DEF Left
  <2>2. th[t].next.pc = "return" => th[t].next.p \in Proposals
    BY <1>1, NextPhases DEF SavingProposals, Returning
  <2>3. CarriesReturn(th[t], db)
    BY DEF GateInv, Carries
  <2> QED
    BY <1>1, <2>1, <2>2, <2>3, NothingShape DEF CarriesReturn, Saving, StoredPublished
<1>8. StoredPublished \subseteq Published
  BY <1>3, WithinEntry DEF GateInv, StoredPublished, Published
<1>9. FreshInv'
  BY <1>1 DEF GateInv, FreshInv
<1>10. ASSUME NEW u \in Threads PROVE Carries(th'[u], mem', db')
  <2>1. CASE u = t
    <3>1. th'[t] \in Afterwards \cup {Down} /\ mem' \in Records
      BY <1>1, <1>2 DEF TypeInv
    <3> QED
      BY <2>1, <3>1, NothingCarried
  <2>2. CASE u # t
    BY <1>1, <1>2, <1>6, <2>2, OthersCarry
  <2> QED
    BY <2>1, <2>2
<1>11. confirmed' \subseteq StoredPublished
  BY <1>1, <1>7 DEF GateInv
<1>12. GateInv'
  BY <1>5, <1>6, <1>9, <1>10, <1>11 DEF GateInv
<1> QED
  BY <1>1, <1>7, <1>8, <1>12

LEMMA GateCrash ==
  ASSUME TypeInv, GateInv, Crash
  PROVE  GateInv'
<1>1. /\ mem' = db /\ db' = db /\ fresh' = fresh /\ confirmed' = confirmed /\ TypeInv'
      /\ \A t \in Threads : th'[t] = IF References(db) THEN Idle ELSE Down
  BY CrashFacts
<1>2. Within(db', mem')
  BY <1>1, WithinSame, CatalogsOf DEF TypeInv
<1>3. /\ Approved' = StoredApproved /\ Published' = StoredPublished
      /\ StoredApproved' = StoredApproved /\ StoredPublished' = StoredPublished
  BY <1>1 DEF Approved, Published, StoredApproved, StoredPublished
<1>4. \A t \in Threads : Carries(th'[t], mem', db')
  <2>1. Idle \in Afterwards \cup {Down} /\ Down \in Afterwards \cup {Down} /\ mem' \in Records
    BY <1>1, IdleContinues DEF TypeInv
  <2> QED
    BY <1>1, <2>1, NothingCarried
<1>5. FreshInv'
  BY <1>1 DEF GateInv, FreshInv
<1> QED
  BY <1>1, <1>2, <1>3, <1>4, <1>5 DEF GateInv

LEMMA GateRefused ==
  ASSUME TypeInv, GateInv, NEW t \in Threads, NEW p \in Proposals, RegisterRefused(t, p)
  PROVE  GateInv'
<1>1. /\ th' = [th EXCEPT ![t] = Idle] /\ TypeInv'
      /\ UNCHANGED <<mem, db, fresh, confirmed, crashes>>
  BY RefusedFacts
<1>2. \A u \in Threads : th'[u] = IF u = t THEN Idle ELSE th[u]
  BY <1>1 DEF TypeInv
<1>3. \A u \in Threads : Carries(th'[u], mem', db')
  <2>1. Carries(Idle, mem, db)
    BY NothingCarried, IdleContinues DEF TypeInv
  <2> QED
    BY <1>1, <1>2, <2>1 DEF GateInv
<1> QED
  BY <1>1, <1>3 DEF GateInv, FreshInv, Approved, Published, StoredApproved, StoredPublished

LEMMA InitEmpty == Init => Approved = {} /\ Published = {}
<1> SUFFICES ASSUME Init PROVE Approved = {} /\ Published = {}
  OBVIOUS
<1>1. Approved = {}
  BY DEF Init, Approved
<1>2. /\ mem.skills = [s \in SkillIds |-> None] /\ mem.docs = [p \in Proposals |-> 0]
      /\ mem.agents = [a \in AgentIds |->
                         IF a \in Staff THEN [skills |-> {}, from |-> None] ELSE None]
  BY DEF Init
<1>3. Published = {}
  BY <1>2, NoneAssumption DEF Published, HasEntry
<1> QED
  BY <1>1, <1>3

LEMMA GateInit == Init => GateInv
<1> SUFFICES ASSUME Init PROVE GateInv
  OBVIOUS
<1>1. TypeInv /\ mem = db /\ \A t \in Threads : th[t] = Idle
  BY InitShape
<1>2. Within(db, mem)
  BY <1>1, WithinSame, CatalogsOf DEF TypeInv
<1>3. Approved = {} /\ Published = {} /\ StoredApproved = {} /\ StoredPublished = {}
  BY <1>1, InitEmpty DEF Approved, Published, StoredApproved, StoredPublished
<1>4. FreshInv /\ confirmed = {}
  BY <1>1 DEF Init, FreshInv
<1>5. \A t \in Threads : Carries(th[t], mem, db)
  BY <1>1, NothingCarried, IdleContinues DEF TypeInv
<1> QED
  BY <1>2, <1>3, <1>4, <1>5 DEF GateInv

LEMMA GateStep == TypeInv /\ GateInv /\ [Next]_vars => GateInv'
<1> SUFFICES ASSUME TypeInv, GateInv, [Next]_vars PROVE GateInv'
  OBVIOUS
<1>1. CASE UNCHANGED vars
  BY <1>1 DEF vars, GateInv, FreshInv, Approved, Published, StoredApproved, StoredPublished
<1>2. ASSUME NEW t \in Threads, Save(t) PROVE GateInv'
  BY <1>2, GateSaveApprovals, GateSaveAgents, GateSaveSkills, GateSaveProposals DEF Save
<1> QED
  BY <1>1, <1>2, NextCases, GateRequest, GateRefused, GateCrash

-----------------------------------------------------------------------------
(* Every step is a step of the gate                                        *)

LEMMA GateInitMaps == Init => Gate!GateInit
BY InitEmpty DEF Gate!GateInit, Init, Approved, Published

LEMMA DeltaMaps ==
  ASSUME TypeInv, GateDelta, confirmed' = confirmed
  PROVE  [Gate!GateNext]_(Gate!gateVars)
<1>1. CASE Approved' = Approved /\ Published' = Published
  BY <1>1 DEF Gate!gateVars, Approved, Published
<1>2. ASSUME NEW p \in Proposals, Approved' = Approved \cup {p}, Published' = Published
      PROVE  Gate!Approve(p)
  BY <1>2 DEF Gate!Approve, Approved, Published
<1>3. ASSUME NEW p \in Approved, Approved' = Approved, Published' = Published \cup {p}
      PROVE  p \in Proposals /\ Gate!Publish(p)
  BY <1>3 DEF Gate!Publish, Approved, Published
<1> QED
  BY <1>1, <1>2, <1>3 DEF GateDelta, Gate!GateNext

LEMMA CrashMaps ==
  ASSUME TypeInv, GateInv, Crash
  PROVE  Gate!Lose
<1>1. /\ mem' = db /\ confirmed' = confirmed
  BY CrashFacts
<1>2. Approved' = StoredApproved /\ Published' = StoredPublished
  BY <1>1 DEF Approved, Published, StoredApproved, StoredPublished
<1>3. StoredPublished \subseteq Published
  BY WithinEntry, CatalogsOf DEF TypeInv, GateInv, StoredPublished, Published
<1>4. Gate!Lose <=> /\ Approved' \in SUBSET Approved
                    /\ Published' \in SUBSET Published
                    /\ confirmed \subseteq Published' /\ Published' \subseteq Approved'
                    /\ confirmed' = confirmed
  BY DEF Gate!Lose, Approved, Published
<1> QED
  BY <1>1, <1>2, <1>3, <1>4 DEF GateInv

LEMMA SaveMaps ==
  ASSUME TypeInv, GateInv, NEW t \in Threads, Save(t)
  PROVE  [Gate!GateNext]_(Gate!gateVars)
<1>1. Approved' = Approved /\ Published' = Published
  BY SaveTypes DEF Approved, Published
<1>2. confirmed' = confirmed \/ \E p \in Published : confirmed' = confirmed \cup {p}
  BY SaveApprovalsFacts, SaveAgentsFacts, SaveSkillsFacts, GateSaveProposals DEF Save
<1>3. CASE confirmed' = confirmed
  BY <1>1, <1>3, DeltaMaps DEF GateDelta
<1>4. ASSUME NEW p \in Published, confirmed' = confirmed \cup {p}
      PROVE  p \in Proposals /\ Gate!Confirm(p)
  BY <1>1, <1>4 DEF Gate!Confirm, Approved, Published
<1> QED
  BY <1>2, <1>3, <1>4 DEF Gate!GateNext

LEMMA StepMaps == TypeInv /\ GateInv /\ [Next]_vars => [Gate!GateNext]_(Gate!gateVars)
<1> SUFFICES ASSUME TypeInv, GateInv, [Next]_vars PROVE [Gate!GateNext]_(Gate!gateVars)
  OBVIOUS
<1>1. CASE UNCHANGED vars
  BY <1>1, DeltaMaps DEF vars, GateDelta, Approved, Published
<1>2. ASSUME NEW t \in Threads, Request(t) PROVE [Gate!GateNext]_(Gate!gateVars)
  BY <1>2, RequestEffect, DeltaMaps DEF Begins, Effect
<1>3. ASSUME NEW t \in Threads, NEW p \in Proposals, RegisterRefused(t, p)
      PROVE  [Gate!GateNext]_(Gate!gateVars)
  BY <1>3, RefusedFacts, DeltaMaps DEF GateDelta, Approved, Published
<1>4. CASE Crash
  BY <1>4, CrashMaps DEF Gate!GateNext
<1> QED
  BY <1>1, <1>2, <1>3, <1>4, NextCases, SaveMaps

\* Whatever syncs overlap and however often the process dies, nothing is
\* published without consent and no confirmed registration is lost.
THEOREM LifecycleImplementsGate == Spec => ImplementsGate
<1>1. Init => Gate!GateInit
  BY GateInitMaps
<1> QED
  BY <1>1, TypeInit, TypeStep, GateInit, GateStep, StepMaps, PTL
  DEF Spec, ImplementsGate, Gate!GateSpec

-----------------------------------------------------------------------------
(* Registered proposals are earned, in a process that has not crashed      *)

\* Passes, and what is asked of one proposal of m.
Sound(d, m) ==
  d.sound /\ (d.kind \in {"skill", "github"} => d.by \in AgentIds /\ m.agents[d.by] # None)

Earned(p, m) ==
  m.proposals[p] # None =>
    /\ m.proposals[p].sandbox = "passed" => Sound(m.proposals[p].draft, m)
    /\ m.proposals[p].status = "registered" =>
         /\ HasEntry(m, p)
         /\ m.approvals[p] = "approved"
         /\ m.proposals[p].sandbox = "passed"

\* A proposal that a thread is about to store has drawn its id.
Drawn(x, f) ==
  /\ x.pc = "store" => x.p \notin f
  /\ (x.pc \in Saving /\ x.next.pc = "store") => x.next.p \notin f

EarnedInv ==
  crashes = 0 =>
    /\ \A p \in Proposals : Earned(p, mem)
    /\ \A p \in fresh : mem.proposals[p] = None
    /\ \A t \in Threads : Drawn(th[t], fresh)

LEMMA PassesIsSound == \A d : Passes(d) <=> Sound(d, mem)
BY DEF Passes, Sound, Agents

\* A proposal that keeps its draft, its sandbox result and its registration
\* stays earned when memory grows.
LEMMA EarnedStays ==
  ASSUME TypeInv, TypeInv', Within(mem, mem'), Approved \subseteq Approved',
         NEW p \in Proposals, Earned(p, mem),
         mem'.proposals[p] # None =>
           /\ mem.proposals[p] # None
           /\ mem'.proposals[p].draft = mem.proposals[p].draft
           /\ mem'.proposals[p].sandbox = mem.proposals[p].sandbox
           /\ mem'.proposals[p].status = "registered" => mem.proposals[p].status = "registered"
  PROVE  Earned(p, mem')
<1>1. HasEntry(mem, p) => HasEntry(mem', p)
  BY WithinEntry, CatalogsOf DEF TypeInv
<1>2. mem.approvals[p] = "approved" => mem'.approvals[p] = "approved"
  BY DEF Approved
<1>3. \A d : Sound(d, mem) => Sound(d, mem')
  BY DEF Sound, Within
<1> QED
  BY <1>1, <1>2, <1>3 DEF Earned

LEMMA NewIsEarned ==
  ASSUME NEW p \in Proposals, NEW m, NEW d \in AllDrafts, NEW v \in Asked,
         m.proposals[p] = NewProposal(d, v)
  PROVE  Earned(p, m)
<1>1. NewProposal(d, v).status # "registered" /\ NewProposal(d, v).sandbox = "not_run"
  BY NewProposalShape
<1> QED
  BY <1>1 DEF Earned

\* What a request leaves of the proposals.
ProposalsEarned == \A p \in Proposals : Earned(p, mem')

LEMMA SameEarned ==
  ASSUME TypeInv, TypeInv', Within(mem, mem'), Approved \subseteq Approved',
         \A p \in Proposals : Earned(p, mem), mem'.proposals = mem.proposals
  PROVE  ProposalsEarned
BY EarnedStays DEF ProposalsEarned

LEMMA StoreEarned ==
  ASSUME TypeInv, TypeInv', Within(mem, mem'), Approved \subseteq Approved',
         \A p \in Proposals : Earned(p, mem), NEW t \in Threads, Store(t)
  PROVE  ProposalsEarned
<1>1. /\ th[t] \in Storing
      /\ mem'.proposals = [mem.proposals EXCEPT
                             ![th[t].p] = NewProposal(th[t].draft, mem.approvals[th[t].p])]
  BY StoreFacts
<1>2. th[t].p \in Proposals /\ th[t].draft \in AllDrafts /\ mem.approvals[th[t].p] \in Asked
  BY <1>1 DEF Storing, TypeInv, Records
<1>3. ASSUME NEW p \in Proposals PROVE Earned(p, mem')
  <2>1. CASE p = th[t].p
    <3>1. mem'.proposals[p] = NewProposal(th[t].draft, mem.approvals[th[t].p])
      BY <1>1, <2>1 DEF TypeInv, Records
    <3> QED
      BY <1>2, <3>1, NewIsEarned
  <2>2. CASE p # th[t].p
    <3>1. mem'.proposals[p] = mem.proposals[p]
      BY <1>1, <2>2 DEF TypeInv, Records
    <3> QED
      BY <3>1, EarnedStays
  <2> QED
    BY <2>1, <2>2
<1> QED
  BY <1>3 DEF ProposalsEarned

LEMMA ProposeApprovedEarned ==
  ASSUME TypeInv, TypeInv', Within(mem, mem'), Approved \subseteq Approved',
         \A p \in Proposals : Earned(p, mem), NEW t \in Threads,
         NEW p \in Proposals, NEW d \in Drafts[p], ProposeApproved(t, p, d)
  PROVE  ProposalsEarned
<1>1. /\ d \in AllDrafts
      /\ mem'.proposals = [mem.proposals EXCEPT ![p] = NewProposal(d, "approved")]
  BY ProposeApprovedFacts
<1>2. "approved" \in Asked
  BY DEF Asked, Final
<1>3. ASSUME NEW q \in Proposals PROVE Earned(q, mem')
  <2>1. CASE q = p
    <3>1. mem'.proposals[q] = NewProposal(d, "approved")
      BY <1>1, <2>1 DEF TypeInv, Records
    <3> QED
      BY <1>1, <1>2, <3>1, NewIsEarned
  <2>2. CASE q # p
    <3>1. mem'.proposals[q] = mem.proposals[q]
      BY <1>1, <2>2 DEF TypeInv, Records
    <3> QED
      BY <3>1, EarnedStays
  <2> QED
    BY <2>1, <2>2
<1> QED
  BY <1>3 DEF ProposalsEarned

LEMMA RefreshEarned ==
  ASSUME TypeInv, TypeInv', Within(mem, mem'), Approved \subseteq Approved',
         \A p \in Proposals : Earned(p, mem), NEW t \in Threads,
         NEW next \in Afterwards, Refresh(t, next)
  PROVE  ProposalsEarned
<1>1. mem'.proposals = [p \in Proposals |-> Refreshed(p)]
  BY RefreshFacts
<1>2. ASSUME NEW p \in Proposals PROVE Earned(p, mem')
  <2>1. mem'.proposals[p] = Refreshed(p)
    BY <1>1
  <2> QED
    BY <2>1, RefreshedShape, EarnedStays
<1> QED
  BY <1>2 DEF ProposalsEarned

\* A sandbox run of a registered proposal passes again.
LEMMA SandboxEarned ==
  ASSUME TypeInv, TypeInv', Within(mem, mem'), Approved \subseteq Approved',
         \A p \in Proposals : Earned(p, mem), NEW t \in Threads,
         NEW p \in Proposals, Sandbox(t, p)
  PROVE  ProposalsEarned
<1> DEFINE old == mem.proposals[p]
           q == [old EXCEPT !.sandbox = IF Passes(old.draft) THEN "passed" ELSE "failed"]
<1>1. /\ mem'.proposals = [mem.proposals EXCEPT ![p] = q] /\ old \in ProposalType
      /\ mem'.approvals = mem.approvals
  BY SandboxFacts
<1>2. /\ q.draft = old.draft /\ q.status = old.status
      /\ q.sandbox = "passed" <=> Passes(old.draft)
  BY <1>1 DEF ProposalType
<1>3. old # None
  BY <1>1, NoneAssumption
<1> HIDE DEF q
<1>4. Earned(p, mem')
  <2>1. mem'.proposals[p] = q
    BY <1>1 DEF TypeInv, Records
  <2>2. HasEntry(mem, p) => HasEntry(mem', p)
    BY WithinEntry, CatalogsOf DEF TypeInv
  <2>3. Sound(old.draft, mem) => Sound(old.draft, mem')
    BY DEF Sound, Within
  <2>4. Earned(p, mem)
    OBVIOUS
  <2> HIDE DEF old
  <2>5. Passes(old.draft) <=> Sound(old.draft, mem)
    BY PassesIsSound
  <2>6. old.status = "registered" => HasEntry(mem, p) /\ mem.approvals[p] = "approved"
                                     /\ Sound(old.draft, mem)
    BY <1>3, <2>4 DEF Earned, old
  <2> QED
    BY <1>1, <1>2, <2>1, <2>2, <2>3, <2>5, <2>6 DEF Earned
<1>5. ASSUME NEW r \in Proposals, r # p PROVE Earned(r, mem')
  <2>1. mem'.proposals[r] = mem.proposals[r]
    BY <1>1, <1>5 DEF TypeInv, Records
  <2> QED
    BY <2>1, EarnedStays
<1> QED
  BY <1>4, <1>5 DEF ProposalsEarned

LEMMA RegisterEarned ==
  ASSUME TypeInv, TypeInv', Within(mem, mem'), Approved \subseteq Approved',
         \A p \in Proposals : Earned(p, mem), NEW t \in Threads,
         NEW p \in Proposals, Register(t, p), HasEntry(mem', p)
  PROVE  ProposalsEarned
<1> DEFINE old == mem.proposals[p]
           q == [old EXCEPT !.status = "registered"]
<1>1. /\ mem'.proposals = [mem.proposals EXCEPT ![p] = q] /\ old \in ProposalType
      /\ mem'.approvals = mem.approvals /\ Registrable(p)
  BY RegisterFacts
<1>2. /\ q.draft = old.draft /\ q.sandbox = old.sandbox
  BY <1>1 DEF ProposalType
<1>3. old # None /\ old.sandbox = "passed" /\ mem.approvals[p] = "approved"
  BY <1>1, NoneAssumption DEF Registrable
<1>4. Earned(p, mem')
  <2>1. mem'.proposals[p] = q
    BY <1>1 DEF TypeInv, Records
  <2>2. Sound(old.draft, mem) => Sound(old.draft, mem')
    BY DEF Sound, Within
  <2>3. Sound(old.draft, mem)
    BY <1>3 DEF Earned
  <2> HIDE DEF q, old
  <2> QED
    BY <1>1, <1>2, <1>3, <2>1, <2>2, <2>3 DEF Earned
<1>5. ASSUME NEW r \in Proposals, r # p PROVE Earned(r, mem')
  <2>1. mem'.proposals[r] = mem.proposals[r]
    BY <1>1, <1>5 DEF TypeInv, Records
  <2> QED
    BY <2>1, EarnedStays
<1> QED
  BY <1>4, <1>5 DEF ProposalsEarned

LEMMA RequestEarned ==
  ASSUME TypeInv, GateInv, NEW t \in Threads, Request(t), \A p \in Proposals : Earned(p, mem)
  PROVE  ProposalsEarned
<1>1. PICK next \in Continuations : Begins(t, next) /\ Effect(next)
  BY RequestEffect
<1>2. TypeInv' /\ Within(mem, mem') /\ Approved \subseteq Approved'
  BY <1>1, BeginsTypes DEF Effect, GateDelta
<1>3. mem'.proposals = mem.proposals => ProposalsEarned
  BY <1>2, SameEarned
<1>4. ASSUME NEW p \in Proposals, Register(t, p) PROVE ProposalsEarned
  <2>1. [pc |-> "return", p |-> p].pc = "return" /\ [pc |-> "return", p |-> p].p = p
    OBVIOUS
  <2>2. HasEntry(mem', p)
    BY <1>4, <2>1, RegisterEffect DEF Effect, Published
  <2> QED
    BY <1>2, <1>4, <2>2, RegisterEarned
<1>5. ASSUME NEW p \in Proposals, NEW d \in Drafts[p], Propose(t, p, d) PROVE ProposalsEarned
  BY <1>3, <1>5, ProposeFacts
<1>6. ASSUME NEW p \in Proposals, NEW v \in Decisions, DecideApproval(t, p, v)
      PROVE  ProposalsEarned
  BY <1>3, <1>6, DecideFacts
<1>7. ASSUME NEW a \in AgentIds, NEW skills \in SUBSET SkillIds, CatalogAgent(t, a, skills)
      PROVE  ProposalsEarned
  BY <1>3, <1>7, CatalogAgentFacts
<1>8. ASSUME NEW s \in SkillIds, NEW agents \in AllowLists, CatalogSkill(t, s, agents)
      PROVE  ProposalsEarned
  BY <1>3, <1>8, CatalogSkillFacts
<1> QED
  BY <1>2, <1>4, <1>5, <1>6, <1>7, <1>8, RequestCases, ProposeApprovedEarned, StoreEarned,
     RefreshEarned, SandboxEarned

\* The ids that are not drawn, and the threads that know of one that is.
Draws(next) ==
  /\ fresh' \subseteq fresh
  /\ \A p \in fresh' : mem'.proposals[p] = None
  /\ next.pc = "store" => next.p \notin fresh'

LEMMA RequestDraws ==
  ASSUME TypeInv, NEW t \in Threads, Request(t),
         \A p \in fresh : mem.proposals[p] = None, Drawn(th[t], fresh)
  PROVE  \E next \in Continuations : Begins(t, next) /\ Draws(next)
<1>0. \A next : Begins(t, next) => next \in Continuations
  BY DEF Begins
<1>1. ASSUME NEW p \in Proposals, NEW d \in Drafts[p], Propose(t, p, d)
      PROVE  \E next : Begins(t, next) /\ Draws(next)
  <2> DEFINE next == [pc |-> "store", p |-> p, draft |-> d]
  <2>1. Begins(t, next) /\ mem'.proposals = mem.proposals /\ fresh' = fresh \ {p}
    BY <1>1, ProposeFacts
  <2>2. next.p = p
    OBVIOUS
  <2> HIDE DEF next
  <2>3. Draws(next)
    BY <2>1, <2>2 DEF Draws
  <2> QED
    BY <2>1, <2>3
<1>2. ASSUME NEW p \in Proposals, NEW d \in Drafts[p], ProposeApproved(t, p, d)
      PROVE  Begins(t, Idle) /\ Draws(Idle)
  <2>1. /\ fresh' = fresh \ {p} /\ Begins(t, Idle)
        /\ mem'.proposals = [mem.proposals EXCEPT ![p] = NewProposal(d, "approved")]
    BY <1>2, ProposeApprovedFacts
  <2>2. \A q \in fresh' : mem'.proposals[q] = mem.proposals[q]
    BY <2>1 DEF TypeInv, Records
  <2> QED
    BY <2>1, <2>2, IdleContinues DEF Draws
<1>3. ASSUME NEW p \in Proposals, NEW v \in Decisions, DecideApproval(t, p, v)
      PROVE  Begins(t, Idle) /\ Draws(Idle)
  BY <1>3, DecideFacts, IdleContinues DEF Draws
<1>4. ASSUME NEW next \in Afterwards, next.pc # "store", Refresh(t, next)
      PROVE  Begins(t, next) /\ Draws(next)
  <2>1. /\ fresh' = fresh /\ Begins(t, next) /\ th[t].pc = "idle"
        /\ mem'.proposals = [p \in Proposals |-> Refreshed(p)]
    BY <1>4, RefreshFacts
  <2>2. \A p \in fresh' : mem'.proposals[p] = None
    BY <2>1, RefreshedShape DEF TypeInv
  <2> QED
    BY <1>4, <2>1, <2>2 DEF Draws
<1>5. ASSUME NEW p \in Proposals, Sandbox(t, p) PROVE Begins(t, Idle) /\ Draws(Idle)
  <2>1. /\ fresh' = fresh /\ Begins(t, Idle) /\ mem.proposals[p] # None
        /\ \E q : mem'.proposals = [mem.proposals EXCEPT ![p] = q]
    BY <1>5, SandboxFacts, NoneAssumption
  <2> QED
    BY <2>1, IdleContinues DEF Draws, TypeInv, Records
<1>6. ASSUME NEW p \in Proposals, Register(t, p)
      PROVE  \E next : Begins(t, next) /\ Draws(next)
  <2> DEFINE next == [pc |-> "return", p |-> p]
  <2>1. /\ fresh' = fresh /\ Begins(t, next) /\ mem.proposals[p] # None
        /\ \E q : mem'.proposals = [mem.proposals EXCEPT ![p] = q]
    BY <1>6, RegisterFacts, NoneAssumption
  <2>2. Draws(next)
    BY <2>1 DEF Draws, TypeInv, Records
  <2> QED
    BY <2>1, <2>2
<1>7. ASSUME Store(t) PROVE Begins(t, Idle) /\ Draws(Idle)
  <2>1. /\ fresh' = fresh /\ Begins(t, Idle) /\ th[t] \in Storing /\ th[t].pc = "store"
        /\ mem'.proposals = [mem.proposals EXCEPT
                               ![th[t].p] = NewProposal(th[t].draft, mem.approvals[th[t].p])]
    BY <1>7, StoreFacts DEF Store
  <2>2. th[t].p \notin fresh'
    BY <2>1 DEF Drawn
  <2>3. \A q \in fresh' : mem'.proposals[q] = mem.proposals[q]
    BY <2>1, <2>2 DEF TypeInv, Records
  <2> QED
    BY <2>1, <2>3, IdleContinues DEF Draws
<1>8. ASSUME NEW a \in AgentIds, NEW skills \in SUBSET SkillIds, CatalogAgent(t, a, skills)
      PROVE  Begins(t, Idle) /\ Draws(Idle)
  BY <1>8, CatalogAgentFacts, IdleContinues DEF Draws
<1>9. ASSUME NEW s \in SkillIds, NEW agents \in AllowLists, CatalogSkill(t, s, agents)
      PROVE  Begins(t, Idle) /\ Draws(Idle)
  BY <1>9, CatalogSkillFacts, IdleContinues DEF Draws
<1> QED
  BY <1>0, <1>1, <1>2, <1>3, <1>4, <1>5, <1>6, <1>7, <1>8, <1>9, RequestCases

LEMMA EarnedRequest ==
  ASSUME TypeInv, GateInv, EarnedInv, NEW t \in Threads, Request(t)
  PROVE  EarnedInv'
<1> SUFFICES ASSUME crashes' = 0
             PROVE  /\ \A p \in Proposals : Earned(p, mem')
                    /\ \A p \in fresh' : mem'.proposals[p] = None
                    /\ \A u \in Threads : Drawn(th'[u], fresh')
  BY DEF EarnedInv
<1>1. crashes = 0
  BY RequestBegins DEF Begins
<1>2. PICK next \in Continuations : Begins(t, next) /\ Draws(next)
  BY <1>1, RequestDraws DEF EarnedInv
<1>3. TypeInv' /\ th'[t] = Sync(next) /\ \A u \in Threads \ {t} : th'[u] = th[u]
  BY <1>2, BeginsTypes
<1>4. Sync(next).pc = "save_approvals" /\ Sync(next).next = next
  BY <1>3, SyncShape DEF TypeInv
<1>5. \A u \in Threads : Drawn(th'[u], fresh')
  <2> HIDE DEF Sync
  <2>1. Drawn(th'[t], fresh')
    BY <1>2, <1>3, <1>4 DEF Drawn, Draws
  <2>2. \A u \in Threads \ {t} : Drawn(th'[u], fresh')
    BY <1>1, <1>2, <1>3 DEF Drawn, Draws, EarnedInv
  <2> QED
    BY <2>1, <2>2
<1>6. ProposalsEarned
  BY <1>1, RequestEarned DEF EarnedInv
<1> QED
  BY <1>2, <1>5, <1>6 DEF ProposalsEarned, Draws

LEMMA EarnedSave ==
  ASSUME TypeInv, EarnedInv, NEW t \in Threads, Save(t)
  PROVE  EarnedInv'
<1>1. /\ UNCHANGED <<mem, fresh, crashes>> /\ \A u \in Threads \ {t} : th'[u] = th[u]
  BY SaveTypes
<1>2. th[t].pc \in Saving
  BY DEF Save, SaveApprovals, SaveAgents, SaveSkills, SaveProposals, Saving
<1>3. Drawn(th[t], fresh) => Drawn(th'[t], fresh)
  <2>1. CASE SaveApprovals(t)
    <3>1. th' = [th EXCEPT ![t] = [pc |-> "save_agents", next |-> th[t].next,
                                   catalog |-> th[t].catalog, proposals |-> th[t].proposals]]
      BY <2>1, SaveApprovalsFacts
    <3>2. th'[t].pc = "save_agents" /\ th'[t].next = th[t].next
      BY <3>1 DEF TypeInv
    <3> QED
      BY <1>2, <3>2 DEF Drawn
  <2>2. CASE SaveAgents(t)
    <3>1. th'[t].pc = "save_skills" /\ th'[t].next = th[t].next
      BY <2>2, SaveAgentsFacts DEF TypeInv
    <3> QED
      BY <1>2, <3>1 DEF Drawn
  <2>3. CASE SaveSkills(t)
    <3>1. th' = [th EXCEPT ![t] = [pc |-> "save_proposals", next |-> th[t].next,
                                   proposals |-> th[t].proposals]]
      BY <2>3, SaveSkillsFacts
    <3>2. th'[t].pc = "save_proposals" /\ th'[t].next = th[t].next
      BY <3>1 DEF TypeInv
    <3> QED
      BY <1>2, <3>2 DEF Drawn
  <2>4. CASE SaveProposals(t)
    <3>1. /\ th'[t] = IF th[t].next.pc = "return" THEN Idle ELSE th[t].next
          /\ th'[t] \in Afterwards
      BY <2>4, SaveProposalsFacts DEF TypeInv
    <3>2. th'[t].pc \notin Saving
      BY <3>1 DEF Afterwards, Idle, Storing, Following, Saving
    <3> QED
      BY <1>2, <3>1, <3>2, IdleContinues DEF Drawn
  <2> QED
    BY <2>1, <2>2, <2>3, <2>4 DEF Save
<1> QED
  BY <1>1, <1>3 DEF EarnedInv

LEMMA EarnedInit == Init => EarnedInv
<1> SUFFICES ASSUME Init PROVE EarnedInv
  OBVIOUS
<1>1. mem.proposals = [p \in Proposals |-> None] /\ fresh = Proposals
  BY DEF Init
<1>2. \A t \in Threads : th[t] = Idle
  BY InitShape
<1>3. Drawn(Idle, fresh)
  BY DEF Drawn, Idle, Saving
<1>4. \A t \in Threads : Drawn(th[t], fresh)
  BY <1>2, <1>3
<1> QED
  BY <1>1, <1>4 DEF EarnedInv, Earned

LEMMA EarnedStep == TypeInv /\ GateInv /\ EarnedInv /\ [Next]_vars => EarnedInv'
<1> SUFFICES ASSUME TypeInv, GateInv, EarnedInv, [Next]_vars PROVE EarnedInv'
  OBVIOUS
<1>1. CASE UNCHANGED vars
  BY <1>1 DEF vars, EarnedInv
<1>2. ASSUME NEW t \in Threads, NEW p \in Proposals, RegisterRefused(t, p) PROVE EarnedInv'
  <2>1. /\ UNCHANGED <<mem, db, fresh, confirmed, crashes>>
        /\ \A u \in Threads : th'[u] = IF u = t THEN Idle ELSE th[u]
    BY <1>2, RefusedFacts DEF TypeInv
  <2>2. Drawn(Idle, fresh)
    BY DEF Drawn, Idle, Saving
  <2> QED
    BY <2>1, <2>2 DEF EarnedInv
<1>3. CASE Crash
  <2>1. crashes' # 0
    BY <1>3, CrashFacts, BoundsAssumption DEF TypeInv
  <2> QED
    BY <2>1 DEF EarnedInv
<1> QED
  BY <1>1, <1>2, <1>3, NextCases, EarnedRequest, EarnedSave

\* Until a crash every registered proposal has its entry, its approval and a
\* sandbox result that no later run has changed.
THEOREM RegistrationsEarned == Spec => []RegisteredIsEarned
<1>1. EarnedInv => RegisteredIsEarned
  BY DEF EarnedInv, RegisteredIsEarned, Earned
<1> QED
  BY <1>1, TypeInit, TypeStep, GateInit, GateStep, EarnedInit, EarnedStep, PTL DEF Spec

=============================================================================
