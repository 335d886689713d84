SPECIFICATION Spec
CONSTANTS
  MaxPid = 3
  MaxBirths = 4
  MaxFaults = 1
INVARIANTS
  SoleDaemon
  SignalsOnlyDaemons
PROPERTIES
  LockSettles
CHECK_DEADLOCK FALSE
