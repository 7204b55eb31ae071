CONSTANTS
  Owner = w
  Thieves = {t1, t2}
  NoOne = none
  LtqSize = 2
  MaxFrames = 3
SPECIFICATION FairSpec
INVARIANTS
  ExactlyOnce
  ExcTracksHead
  DetachIsSound
  GuardedNotStolen
  AtMostOneBypass
PROPERTY
  ImplementsWorkQueue
  OwnerGetsLock
VIEW View
