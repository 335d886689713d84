SPECIFICATION Spec
CONSTANTS
  Keys = {1}
  Cmds = {c1, c2}
  Names = {token}
  Requested = {token}
  MaxCommands = 3
  MaxFaults = 1
INVARIANTS
  RevocationBounded
PROPERTIES
  SoloConsistent
CHECK_DEADLOCK FALSE
