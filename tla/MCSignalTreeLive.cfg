SPECIFICATION FairSpec
CHECK_DEADLOCK FALSE
CONSTANTS
  P = 4
  Threads = {t1, t2}
  NoOne = NoOne
  Slots = 2
  MaxFailures = 0
  SemValueMax = 1
  Suspends = FALSE
PROPERTIES
  WorkersWake
  WorkersSleep
  ShutdownEnds
