SPECIFICATION FairSpec
CONSTANTS
  Phone = "phone"
  Sessions = {"phone", "old"}
  Noise = "noise"
  Nil = nil
  Total <- TotalSizes
  Pwd <- PwdSizes
  MaxPwd = 3
  MaxSsid = 2
  HalfWords = 5
  NumChan = 3
  Home = 1
  SsidBit = FALSE
  MaxStray = 6
INVARIANTS TypeOK MarksCounted TimerSafe
PROPERTIES StaysTuned Converges
CHECK_DEADLOCK FALSE
