CONSTANTS
  MaxSeg = 6
  MaxSess = 2
  StableSegments = 2
  Overlap = FALSE
  MaxUpset = 1
  MaxFault = 1
  MaxCrash = 1
  MaxPower = 1
SPECIFICATION Spec
CONSTRAINT Scenario
INVARIANTS
  TypeOK
  CompleteIsWhole
  StartsAtBoundary
  ListedIsDurable
  CapturedIsKept
  InterruptedIsQuarantined
PROPERTIES
  QuarantineHoldsRing
  StopBoundaryHolds
  LifeSpec
