SPECIFICATION Spec
CONSTANTS
  t1 = t1
  t2 = t2
  s1 = s1
  s2 = s2
  cam0 = cam0
  Imu = Imu
  None = None
  Threads <- MCThreads
  Sessions <- MCSessions
  Cameras <- MCCameras
  MaxRequests = 4
  MaxKill = 1
  MaxFault = 1
  MaxUnplug = 1
  MaxPower = 1
INVARIANT
  TypeOK
  CompleteIsWhole
  IdleIsSettled
PROPERTY
  LifeSpec
CONSTRAINT FewAccidents
VIEW View
SYMMETRY Symmetry
CHECK_DEADLOCK FALSE
