SPECIFICATION Spec
CONSTANTS
  Keys = {k1, k2}
  Vals = {v1, v2}
  NumBlk = 2
  BlkFresh = 5
  HdrSize = 1
  BodySize <- SameSize
  MaxCycle = 2
  CrashAt <- NotBeforeDone
SYMMETRY Symmetry
INVARIANT InitSucceeds
