SPECIFICATION Spec
CONSTANTS
  Images = {"v1", "v2", "tiny", "tinydiff"}
  NoImg = none
  Info <- WithTiny
  SectorSize = 4
  OtaSectors = 3
  AppSize = 16
  Installed = "v1"
  RecvSizes = {1, 2}
  NumBeyond = 3
  MaxFail = 1
INVARIANT Recoverable
