SPECIFICATION LockSpec
INVARIANTS AtMostOneLateUpdate
PROPERTIES LockFollowsLink RunsUnlessInterrupted
