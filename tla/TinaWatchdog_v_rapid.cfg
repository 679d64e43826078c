CONSTANTS
  Dogs = {w1}
  Svcs = {s1, s2}
  None = None
  Admins = {a1}
  MaxCmd = 1
  MaxFault = 0
  MaxDogKill = 0
SPECIFICATION Spec
INVARIANTS
  CrashLoopIsRapid
CHECK_DEADLOCK FALSE
