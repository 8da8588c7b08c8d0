SPECIFICATION Spec
CONSTANTS
  Images = {"v1", "full", "big"}
  NoImg = none
  Info <- AtTheLimit
  SectorSize = 4
  OtaSectors = 3
  AppSize = 16
  Installed = "v1"
  RecvSizes = {4}
  NumBeyond = 3
  MaxFail = 0
INVARIANT InsideOta
