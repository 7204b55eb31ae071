SPECIFICATION Spec
CHECK_DEADLOCK FALSE
CONSTANTS
  P = 2
  Threads = {t1, t2}
  NoOne = NoOne
  Slots = 1
  MaxFailures = 0
  SemValueMax = 1
  Suspends = FALSE
INVARIANT BindProtected
