SPECIFICATION CodexFairSpec

CONSTANTS
  TouchQueueLength = 2
  BufferReports = 2
  MaxCodexFaults = 1

INVARIANT LinesAreMessages
PROPERTY RequestsAreAnswered
PROPERTY KeysAreReleased
