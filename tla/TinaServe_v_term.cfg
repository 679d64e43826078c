CONSTANTS
  PassMax = 3
  ConnectTime = 6
  SettleTime = 4
  Room = 2
  Parts = 2
  Horizon = 60
SPECIFICATION FairSpec
PROPERTIES
  TermEnds
CHECK_DEADLOCK FALSE
