SPECIFICATION Spec
CHECK_DEADLOCK FALSE
CONSTANTS
  P = 4
  Threads = {t1, t2, t3}
  NoOne = NoOne
  Slots = 2
  MaxFailures = 0
  SemValueMax = 1
  Suspends = TRUE
SYMMETRY ThreadSymmetry
INVARIANTS
  ChildrenRoused
  NoLostWakeup
