SPECIFICATION Spec
CONSTANTS
  t1 = t1
  t2 = t2
  k1 = k1
  b1 = b1
  b2 = b2
  b3 = b3
  a1 = a1
  a2 = a2
  None = None
  Threads = {t1, t2}
  Tasks = {k1}
  Backups = {b1, b2, b3}
  Approvals = {a1, a2}
  Deciders = {"human_root", "quality_agent_v1"}
  MaxVersion = 1
  MaxRestarts = 1
  MaxCorruptions = 1
SYMMETRY Symmetries
INVARIANTS TypeOK ApprovalRestoresOnce AuditImpliesLedger
PROPERTY RestoreIsGenuine
CHECK_DEADLOCK FALSE
