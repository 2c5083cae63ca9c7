SPECIFICATION FairSpec
CHECK_DEADLOCK FALSE
CONSTANTS
  Mandatory = 1
  EventQueueLength = 2
  MaxPlaces = 2
  MaxCalls = 3
  MaxFailures = 1
INVARIANTS
  TypeOK
  NoLostWakeUp
  NewestIsKept
PROPERTIES
  Converges
