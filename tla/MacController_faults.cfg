SPECIFICATION FairSpec
CONSTANTS
  MaxFaults = 3
  MaxPowerCycles = 1
  MaxSuspensions = 2
  MaxReconnects = 1
  MaxDialogs = 1
INVARIANT NeverIdle
INVARIANT TimersBelongToSession
PROPERTY Resumes
CHECK_DEADLOCK FALSE
