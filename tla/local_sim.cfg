SPECIFICATION RunSpec
CONSTANTS
  MaxInt = 15
  Requested <- AllInts
  Cards <- Deck
  DefaultIterations = 1
  Tables <- Tabled
  Followed <- Asked
INVARIANTS
  TypeOK
  PlanIsWhole
  LoopIsClosedForm
  NeverOverdrawn
  SimTypeOK
  EachDealOnce
  PotIsShared
  RunIsWhole
