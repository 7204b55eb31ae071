CONSTANTS
  Users = {u1}
  System = {s1}
  NoOne = NoOne
  Fibers = {1, 2, 3, 4, 5}
  Replay = TRUE
  MaxFns = 3
  u1 = u1
  s1 = s1
SPECIFICATION Spec
CHECK_DEADLOCK FALSE
INVARIANTS SyncHasFrame
