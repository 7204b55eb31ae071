CONSTANTS
  CountRange = 32
  MaxCount = 31
  Grains <- RequestedGrains
  P = 1
  GrainCap = 4
SPECIFICATION Spec
INVARIANTS CallInvariant
