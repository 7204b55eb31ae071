CONSTANTS
  Workers = {w1, w2}
  Root = Root
  Fibers = {1, 2, 3, 4, 5, 6, 7, 8, 9, 10, 11}
  NoFiber = NoFiber
  P = 2
  NStacks = 10
  LocalStacks = 2
  SharedStacks = 0
  Batch = 2
  w1 = w1
  w2 = w2
SPECIFICATION FairSpec
VIEW View
CHECK_DEADLOCK FALSE
INVARIANTS OnePlace TotalsAddUp WithinLimits HoardIsBounded
PROPERTIES ShutdownFreesAll CallsEnd
