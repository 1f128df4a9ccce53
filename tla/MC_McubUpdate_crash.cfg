\* Lifecycle with reliable writes and one power loss.
CONSTANTS
  Versions <- MC_Versions
  ZeroVersion = "v0"
  Criteria <- MC_Criteria
  LongCriteria = {}
  EmptyCriteria = EmptyCriteria
  NoRecord = NoRecord
  Images <- MC_Images
  BadImage = BadImage
  NoImage = NoImage
  Ver <- MC_Ver
  CritOf <- MC_CritOf
  InitImage = "img1"
  MaxCrashes = 1
  MaxDeploys = 2
  WriteFaults = FALSE
  ReadFaults = FALSE
SPECIFICATION Spec
CHECK_DEADLOCK FALSE
INVARIANTS SettledMatchesRunning SettledIInv
PROPERTIES RebootResolves
