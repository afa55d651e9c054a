\* The comment of bufferRound: what is buffered is contiguous.
SPECIFICATION Spec
CONSTANTS
  k1 = k1
  k2 = k2
  Keys = {k1}
  TrainDays = 4
  EarlyStopDays = 2
  ThreshDays = 2
  RoundsPerDay = 1
  WindowLength = 2
  DrainBatch = 3
  Threads = 1
  NRounds = 15
  RoundTs <- MCRoundTs
  IsOutlier <- MCIsOutlier
  MaxCheckpoints = 1
  MaxCrashes = 1
INVARIANTS
  BufferContiguous
CHECK_DEADLOCK FALSE
