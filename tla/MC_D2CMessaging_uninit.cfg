\* The hub client answers after ADUC_D2C_Messaging_Uninit.
CONSTANTS
  Msgs = {m1, m2, m3}
  None = None
  HttpCodes <- MC_HttpCodes
  MaxTime = 2
  MaxInits = 1
  RetryDelay = 1
  OwnerDelay = 2
  FatalWait = 1
  FallbackWait = 1
SPECIFICATION Spec
CHECK_DEADLOCK FALSE
INVARIANT NoFatalError
