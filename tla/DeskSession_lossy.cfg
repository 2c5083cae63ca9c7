SPECIFICATION Spec

CONSTANTS
  HeartbeatTimeout = 1
  ClockMod = 5
  SeqMod = 65536
  WindowSize = 32
  QueueLength = 1
  MaxConnections = 2
  MaxFrames = 3
  DropsAllowed = TRUE
  AuthTimeout = 1
  UiQueueLength = 0
  MaxLoopTicks = 1
  ReconnectDelay = 0
  CatchesUp = FALSE
  BacklightMayFail = FALSE
  MacFollowsProtocol = TRUE

INVARIANT SilenceBounded
INVARIANT LockedIsClear
PROPERTY NoSpuriousTimeout
