SPECIFICATION Spec
CONSTANTS
  p1 = p1  p2 = p2  w1 = w1  w2 = w2
  Runs = {1, 2}
  Writers = {w1, w2}
  Procs = {p1, p2}
  Keeps = {0, 1}
  MaxRequests = 2
  MaxFaults = 1
SYMMETRY SlotSymmetry
INVARIANTS
  StoreReady
  PruneSparesActive
  HistoryMirrors
CHECK_DEADLOCK FALSE
