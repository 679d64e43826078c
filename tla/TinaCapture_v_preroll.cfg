CONSTANTS
  MaxSeg = 5
  MaxSess = 1
  StableSegments = 2
  Overlap = TRUE
  MaxUpset = 0
  MaxFault = 0
  MaxCrash = 0
  MaxPower = 0
SPECIFICATION Spec
INVARIANTS
  StartsAtBoundary
