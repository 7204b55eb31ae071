CONSTANTS
  Owner = o
  Thieves = {x, y}
  Stealers = {x}
  Watchers = {y}
  Recipient = y
  MaxTasks = 3
  Modes <- MailOrSnapshots
  Isolations = {0, 1}
  MinSize = 2
  o = o
  x = x
  y = y
SPECIFICATION Spec
CHECK_DEADLOCK FALSE
INVARIANTS ExactlyOnce ProxyFreedLast Arbitration InReach NoWorkForgotten
PROPERTIES IsolationKept
