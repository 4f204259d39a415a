SPECIFICATION Spec
CONSTANTS
  Order <- MCOrder
  Slots <- MCSlots
  Rounds = 1
  Enough = 2
  FaultBudget = 1
INVARIANTS LockedCountExact NeverBothAcquire
PROPERTIES PassIsClean SuiteEnds
CHECK_DEADLOCK FALSE
