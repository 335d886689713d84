SPECIFICATION CollectSpec
CONSTANTS
  p1 = p1  p2 = p2
  Shape <- MCShape
  Time <- MCTime
  Slots = {p1, p2}
  MaxCommands = 3
  MaxTime = 1
  MaxCollectFaults = 1
SYMMETRY ProcSymmetry
INVARIANTS
  CountsExactly
  DisableForgets
CHECK_DEADLOCK FALSE
