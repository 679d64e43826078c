SPECIFICATION Spec
CONSTANTS
  t1 = t1
  t2 = t2
  s1 = s1
  s2 = s2
  cam0 = cam0
  Imu = Imu
  None = None
  Threads <- MCThreads
  Sessions <- MCSessions
  Cameras <- MCCameras
  MaxRequests = 3
  MaxKill = 0
  MaxFault = 0
  MaxUnplug = 0
  MaxPower = 0
INVARIANT
  NeverFallsBack
SYMMETRY Symmetry
CHECK_DEADLOCK FALSE
