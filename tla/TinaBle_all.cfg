SPECIFICATION FairSpec
CONSTANTS
  c1 = c1
  c2 = c2
  None = None
  Cmd <- MCCmd
  AutoCmd <- MCAutoCmd
  Frags = 2
  MaxFaults = 1
INVARIANT
  FailureIsHonest
  CarriedOutInOrder
  BusyIsOwned
  AnswerIsOwn
  MarkerMeansListening
PROPERTY
  LossEndsHelper
  BusyEnds
CONSTRAINT Scenario
CHECK_DEADLOCK FALSE
