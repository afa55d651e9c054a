\* Two devices on one subtask with one training thread between them: queueing,
\* the minimum over two buffer heads, a crash with one device online.
SPECIFICATION Spec
CONSTANTS
  k1 = k1
  k2 = k2
  Keys = {k1, k2}
  TrainDays = 1
  EarlyStopDays = 0
  ThreshDays = 0
  RoundsPerDay = 1
  WindowLength = 1
  DrainBatch = 1
  Threads = 1
  NRounds = 4
  RoundTs <- MCRoundTs
  IsOutlier <- MCIsOutlier
  MaxCheckpoints = 1
  MaxCrashes = 1
PROPERTIES
  PromiseSpec
SYMMETRY Swap
CHECK_DEADLOCK FALSE
