SPECIFICATION Spec
CONSTANTS
  t1 = t1
  t2 = t2
  Threads = {t1, t2}
  Tasks = {1}
  Kinds <- AllKinds
  MaxRuns = 2
  NoThread = NoThread
SYMMETRY ThreadSymmetry
INVARIANTS TypeOK TaskAgreesWithRun GatedWork FinishedOnce ApprovedCanResume
