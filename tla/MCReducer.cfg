CONSTANTS
  N = 3
  MaxThrows = 2
  None = None
SPECIFICATION FairSpec
CHECK_DEADLOCK FALSE
INVARIANTS ViewsInOrder SynchedMap FirstExceptionKept
PROPERTIES SyncCrossed
