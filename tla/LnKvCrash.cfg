SPECIFICATION Spec
CONSTANTS
  Keys = {k1, k2}
  Vals = {"short", "long"}
  NumBlk = 2
  BlkFresh = 6
  HdrSize = 1
  BodySize <- TwoSizes
  MaxCycle = 1
  CrashAt <- Anywhere
SYMMETRY KeySymmetry
INVARIANTS TypeOK Durable InitSucceeds OneCopy ItemFits
PROPERTY KeepsLastCopy
