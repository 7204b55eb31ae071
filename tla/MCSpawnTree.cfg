CONSTANTS
  Users = {u1, u2}
  System = {s1, s2}
  NoOne = NoOne
  Fibers = {1, 2, 3, 4, 5}
  Replay = TRUE
  MaxFns = 5
  u1 = u1
  u2 = u2
  s1 = s1
  s2 = s2
SPECIFICATION Spec
SYMMETRY Symmetry
CHECK_DEADLOCK FALSE
INVARIANTS JoinCounts HeldOnce SyncWaits RunsOnHomeStack FibersDisjoint TeamIsTree LeaderCrossesLastSync
PROPERTIES NextFrameKept ImplementsForkJoin
