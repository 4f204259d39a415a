SPECIFICATION SupervisorSpec
CONSTANTS
  Stall = 5
  Wrap = 16
INVARIANTS DeletedInTime HandleIsWorker
PROPERTIES OnlyStalledDeleted AlwaysPolledAgain
