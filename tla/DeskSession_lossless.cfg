SPECIFICATION Spec

CONSTANTS
  HeartbeatTimeout = 1
  ClockMod = 5
  SeqMod = 65536
  WindowSize = 32
  QueueLength = 3
  MaxConnections = 2
  MaxFrames = 3
  DropsAllowed = FALSE
  AuthTimeout = 1
  UiQueueLength = 1
  MaxLoopTicks = 0
  ReconnectDelay = 0
  CatchesUp = FALSE
  BacklightMayFail = FALSE
  MacFollowsProtocol = FALSE

INVARIANT TypeOK
INVARIANT PanelFollowsState
INVARIANT UiActionsBelongToSession
PROPERTY PrivateDataFromVerifiedPeer
PROPERTY NoFrameIgnored
PROPERTY KeepsGate
