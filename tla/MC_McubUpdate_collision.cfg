\* Two deployable images carry the same ih_ver.
CONSTANTS
  Versions <- MC_Versions
  ZeroVersion = "v0"
  Criteria <- MC_Criteria
  LongCriteria = {}
  EmptyCriteria = EmptyCriteria
  NoRecord = NoRecord
  Images <- MC_Images
  BadImage = BadImage
  NoImage = NoImage
  Ver <- MC_SameVer
  CritOf <- MC_CritOf
  InitImage = "img1"
  MaxCrashes = 1
  MaxDeploys = 2
  WriteFaults = FALSE
  ReadFaults = FALSE
SPECIFICATION Spec
CHECK_DEADLOCK FALSE
INVARIANT SettleSound

