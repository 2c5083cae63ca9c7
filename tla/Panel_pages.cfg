SPECIFICATION Spec

CONSTANTS
  HistoryCount = 2
  SequenceMod = 4
  SlotCount = 2
  CardCount = 1
  TaskStatus = {"idle", "running"}
  TaskCounts = {0, 1}
  Weathers = {"none", "calm", "alert"}

INVARIANT PointersAlive
INVARIANT ScreenShowsLatest
INVARIANT ChartsShowSamples
