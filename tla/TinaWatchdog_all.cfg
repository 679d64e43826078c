CONSTANTS
  Dogs = {w1, w2}
  Svcs = {s1, s2, s3}
  None = None
  Admins = {a1}
  MaxCmd = 3
  MaxFault = 1
  MaxDogKill = 1
SPECIFICATION FairSpec
INVARIANTS
  StopLeavesNothing
  NoRivals
PROPERTIES
  AskedExitIsNoFailure
  RecorderHasConsumer
CHECK_DEADLOCK FALSE
