SPECIFICATION Spec
CONSTANTS
  MaxFragments = 3
  IdModulus = 2
  ReassemblyTimeout = 1
  MaxFrames = 3
  MaxConnections = 2
  MaxForeign = 2
  MaxFaults = 1
INVARIANT TypeOK
INVARIANT IntactDelivered
PROPERTY FramesAreAStream
CHECK_DEADLOCK FALSE
