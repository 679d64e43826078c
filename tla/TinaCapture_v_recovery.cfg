CONSTANTS
  MaxSeg = 5
  MaxSess = 1
  StableSegments = 2
  Overlap = FALSE
  MaxUpset = 1
  MaxFault = 0
  MaxCrash = 0
  MaxPower = 0
SPECIFICATION Spec
PROPERTIES
  NoCaptureWhileQuarantined
