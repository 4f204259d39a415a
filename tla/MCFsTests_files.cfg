SPECIFICATION Spec
CONSTANTS
  Cycles = 1
  Directories = {TRUE, FALSE}
  Incidents = 2
  RunBudget = 1
INVARIANTS LoneRunPasses HandlesClosed 
PROPERTIES RunsClean
CHECK_DEADLOCK FALSE
