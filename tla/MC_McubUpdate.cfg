\* Lifecycle with failing writes and reads and one power loss.
CONSTANTS
  Versions <- MC_Versions
  ZeroVersion = "v0"
  Criteria <- MC_Criteria
  LongCriteria = {}
  EmptyCriteria = EmptyCriteria
  NoRecord = NoRecord
  Images <- MC_Images
  BadImage = BadImage
  NoImage = NoImage
  Ver <- MC_Ver
  CritOf <- MC_CritOf
  InitImage = "img1"
  MaxCrashes = 1
  MaxDeploys = 2
  WriteFaults = TRUE
  ReadFaults = TRUE
SPECIFICATION Spec
CHECK_DEADLOCK FALSE
INVARIANTS TypeOK SettleSound IInv
PROPERTY AbsSpec

