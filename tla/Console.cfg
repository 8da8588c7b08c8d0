SPECIFICATION FairSpec
CONSTANTS
  Nul = nul
  Tasks = {"console", "at", "log"}
  TxSize = 2
  MaxWrite = 4
  MaxLost = 1
  Kinds = {"chr", "cr", "lf"}
  RxSize = 3
  CmdSize = 4
  SignalAll = FALSE
  EchoAtStart = FALSE
  MaxRx = 4
  MaxLog = 1
INVARIANTS TypeOK NoEmptyRead CommandsExact Conserved NeverStranded
PROPERTIES CmdLineStable CommandsRun
CHECK_DEADLOCK FALSE
