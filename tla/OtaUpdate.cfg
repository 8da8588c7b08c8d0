SPECIFICATION FairSpec
CONSTANTS
  Images = {"v1", "v2", "v2b", "big", "long", "diff"}
  NoImg = none
  Info <- Firmware
  SectorSize = 4
  OtaSectors = 2
  AppSize = 10
  Installed = "v1"
  RecvSizes = {1, 3}
  NumBeyond = 3
  MaxFail = 2
INVARIANTS TypeOK Recoverable NoImpossibleBranch StartsWhole ReachBounded GoodDownload
PROPERTIES CommitsForward UpdateInstalled BootsUp
