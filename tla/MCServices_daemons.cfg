SPECIFICATION Spec
CONSTANTS
  Levels <- MCLevels
  TxPowers = {78}
  Channels = {6}
  Ids = {1}
  FaultBudget = 1
INVARIANTS CalmRoundAgrees AdvertisesOwnName
PROPERTIES NameFollowsId
