\* Two sessions race; every status, one provider event delivered repeatedly.
CONSTANTS
  s1 = s1  s2 = s2  e1 = e1  free = free  team = team
  Sessions = {s1, s2}
  Events = {e1}
  Plans = {free, team}
  Free = free
  TrialDays = 2
  GraceDays = 1
  PastDueDays = 1
  MaxAttempts = 2
  MaxDays = 4
  MaxInstants = 12
SPECIFICATION Spec
SYMMETRY SessionSymmetry
INVARIANTS
  DeadlineCovered
  EventAppliedOnce
CHECK_DEADLOCK FALSE
