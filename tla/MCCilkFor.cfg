CONSTANTS
  CountRange = 32
  MaxCount = 12
  Grains <- RequestedGrains
  P = 1
  GrainCap = 4
SPECIFICATION FairSpec
INVARIANTS EachIterationOnce
PROPERTIES LoopEnds
