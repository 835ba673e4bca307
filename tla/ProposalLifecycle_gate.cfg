SPECIFICATION Spec
CONSTANTS
  Threads = {t1, t2}
  p1 = p1
  p2 = p2
  Proposals = {p1, p2}
  Staff = {"ceo"}
  AgentIds = {"ceo", "helper"}
  SkillIds = {"lint"}
  Drafts <- MCDrafts
  AllowLists = {{"ceo"}, {"helper"}}
  Decisions = {"approved"}
  None = None
  MaxDocs = 1
  MaxCrashes = 1
SYMMETRY Symmetry
INVARIANTS
  TypeOK
  RegisteredIsEarned
  GrantsMutual
 
CHECK_DEADLOCK FALSE
