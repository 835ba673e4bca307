SPECIFICATION Spec
CONSTANTS
  Callers = {t1, t2}
  Local = Local
  Core = Core
  Paid = Paid
  Providers = {Local, Core, Paid}
  Fallbacks <- MCFallbacks
  Rates <- MCRates
  Policies <- MCPolicies
  First <- Metered
  Asks <- MCAsks
  Docs = {d1}
  Prompt = 1
  Mock = 1
  None = None
  MaxCalls = 3
  MaxRestarts = 1
  MaxIncidents = 9
SYMMETRY Symmetry
INVARIANTS
  TypeOK
  
  OneVoice
  AnsweredIsBooked
  AnswerFitsMode
  DocsAccounted

  
CHECK_DEADLOCK FALSE
