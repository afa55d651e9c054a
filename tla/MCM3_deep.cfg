\* One device, windows of two rounds, drained three at a time; 4 + 2 + 2 rounds
\* collected, a buffer of 4 that overflows, one checkpoint and one crash.
SPECIFICATION FairSpec
CONSTANTS
  k1 = k1
  k2 = k2
  Keys = {k1}
  TrainDays = 4
  EarlyStopDays = 2
  ThreshDays = 2
  RoundsPerDay = 1
  WindowLength = 2
  DrainBatch = 3
  Threads = 1
  NRounds = 14
  RoundTs <- MCRoundTs
  IsOutlier <- MCIsOutlier
  MaxCheckpoints = 1
  MaxCrashes = 1
INVARIANTS
  TypeOK
  OneTimerChain
  HoldCoversBuffer
  SlotIsCurrent
  TrainsOnReferenceData
  ScoredInOrder
PROPERTIES
  NoLateScore
  TrainingEnds
  HoldIsReleased
CHECK_DEADLOCK FALSE
