SPECIFICATION FairSpec
CONSTANTS
  Bucket = {"boot", "day"}
  LogQueueLength = 1
  FlushEntries = 2
  RotateSize = 4
  MaxLogs = 4
  MaxSwitches = 1
  MaxFaults = 2
INVARIANTS
  LossAccounted
  SilentLossBounded
  OutputsAsRequested
PROPERTIES
  Recovers
