SPECIFICATION Spec
CONSTANTS
  Threads = {t1, t2}
  Actions = {a1}
  None = None
  MaxSteps = 2
  MaxTasks = 2
  MaxRestarts = 2
SYMMETRY Symmetry
INVARIANTS
  TypeOK
  
  
 
CHECK_DEADLOCK FALSE
