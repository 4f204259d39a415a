SPECIFICATION Spec
CONSTANTS
  Drawers = {"boot", "worker"}
  Overlap = FALSE
  Messages <- MCMessages
  TableCodes = {"gb"}
  MaxLines = 2
  BootLogs = 0
  Updates = 1
  Commands = 1
  GyroFound = {TRUE, FALSE}
INVARIANTS   DestroyedOnce
 
CHECK_DEADLOCK FALSE
