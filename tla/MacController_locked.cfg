SPECIFICATION Spec
CONSTANTS
  MaxFaults = 0
  MaxPowerCycles = 0
  MaxSuspensions = 1
  MaxReconnects = 0
  MaxDialogs = 0
INVARIANT SuspendedIsOffline
CHECK_DEADLOCK FALSE
