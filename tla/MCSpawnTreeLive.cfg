CONSTANTS
  Users = {u1}
  System = {s1, s2}
  NoOne = NoOne
  Fibers = {1, 2, 3, 4, 5}
  Replay = FALSE
  MaxFns = 4
  u1 = u1
  s1 = s1
  s2 = s2
SPECIFICATION FairSpec
CHECK_DEADLOCK FALSE
PROPERTIES InitialReturns
