SPECIFICATION Spec
CONSTANTS
  Threads = {t1, t2}
  p1 = p1
  p2 = p2
  Proposals = {p1}
  Staff = {"ceo"}
  AgentIds = {"ceo"}
  SkillIds = {"lint"}
  Drafts <- MCSkillDraft
  AllowLists = {{"ceo"}}
  Decisions = {"approved"}
  None = None
  MaxDocs = 0
  MaxCrashes = 1
SYMMETRY Symmetry
INVARIANT RegisteredIsCallable
CHECK_DEADLOCK FALSE
