\* Three messages, one Init and Uninit, every transport outcome, status code and owner decision.
CONSTANTS
  Msgs = {m1, m2, m3}
  None = None
  HttpCodes <- MC_HttpCodes
  MaxTime = 2
  MaxInits = 1
  RetryDelay = 1
  OwnerDelay = 2
  FatalWait = 1
  FallbackWait = 1
SPECIFICATION Spec
CHECK_DEADLOCK FALSE
INVARIANTS CompletedOnce ResponseMatches D2CIInv
PROPERTIES PendingTaken
