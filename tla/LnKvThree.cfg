SPECIFICATION FairSpec
CONSTANTS
  Keys = {k1, k2}
  Vals = {v1, v2}
  NumBlk = 3
  BlkFresh = 3
  HdrSize = 1
  BodySize <- SameSize
  MaxCycle = 1
  CrashAt <- Anywhere
INVARIANT Durable
PROPERTY Returns
