SPECIFICATION Spec
CONSTANTS
  KindOrder <- MCKindOrder
  Family <- MCFamily
  NoResult <- MCNoResult
  Work <- MCWork
  Required = NoFile
  AcceptThrottle = TRUE
  OddSight <- MCOddSight
  MaxTrouble = 1
  Idle = Idle
  NoFile = NoFile
  Torn = Torn
CHECK_DEADLOCK FALSE
INVARIANTS
  BundleSound
  PromotedObserved
  CampaignOneSource
