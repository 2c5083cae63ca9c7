SPECIFICATION FairSpec
CHECK_DEADLOCK FALSE
CONSTANTS
  FastRetryLimit = 1
  QueueLength = 3
  MaxRequests = 2
  DropsAllowed = FALSE
  ConnectMayFail = FALSE
INVARIANTS
  TypeOK
  PendingHasItsEvent
  AppAgreesOnceQuiet
PROPERTIES
  KeepsTrying
