SPECIFICATION FairSpec
CHECK_DEADLOCK FALSE
CONSTANTS
  Keys = {k1, k2, k3, k4}
  NoKey = NoKey
  MaxFaults = 3
  StorageMayFail = TRUE
INVARIANTS
  SuccessIsDurable
  EnrolledOnce
PROPERTIES
  EnrolledKeyKept
  Settles
