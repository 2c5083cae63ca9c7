SPECIFICATION FairSpec

CONSTANTS
  HeartbeatTimeout = 1
  ClockMod = 4
  SeqMod = 65536
  WindowSize = 32
  QueueLength = 2
  MaxConnections = 2
  MaxFrames = 2
  DropsAllowed = FALSE
  AuthTimeout = 1
  UiQueueLength = 1
  MaxLoopTicks = 1
  ReconnectDelay = 1
  CatchesUp = TRUE
  BacklightMayFail = FALSE
  MacFollowsProtocol = TRUE

PROPERTY ActionReachesVerifiedPeer
PROPERTY LinkResolves
PROPERTY BeliefHeals
