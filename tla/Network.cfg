SPECIFICATION Spec
CONSTANTS
  Stations = {s1, s2, s3}
  NoMac = zero
  NumItems = 2
  ConfigOk = TRUE
  QueueDepth = 1
  MaxEvents = 3
  MaxJoin = 3
SYMMETRY Symmetry
INVARIANTS OneItemPerStation Leased LinkTruth
PROPERTY ReleaseRight
CHECK_DEADLOCK FALSE
