SPECIFICATION Spec
CONSTANTS
  t1 = t1
  t2 = t2
  r1 = r1
  None = None
  Threads = {t1, t2}
  Runs = {r1}
  Deciders = {"human_root", "quality_agent_v1"}
  Catalogs <- SomeCatalogs
  ForbiddenActions <- ForbiddenSample
  HighRiskActions <- HighRiskSample
  MediumRiskActions <- MediumRiskSample
  RootOnlyActions <- RootOnlySample
  MaxRestarts = 1
  MaxEdits = 1
SYMMETRY Symmetries
INVARIANTS TypeOK WaitingHasApproval
PROPERTIES AuthorizedExecution 
CHECK_DEADLOCK FALSE
