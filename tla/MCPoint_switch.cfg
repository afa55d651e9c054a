\* Slides of 2 in windows of 4; up to two commands, one checkpoint, one crash.
SPECIFICATION SpecBoth
CONSTANTS
  Inputs <- MCInputs
  Commands <- MCCommands
  MaxTime = 11
  Warmup = 1
  CacheDepth = 6
  Reestimate = 4
  Window = 4
  SlideStep = 2
  Absence = 5
  MaxPublished = 2
  MaxCheckpoints = 1
  MaxCrashes = 1
INVARIANTS
  WindowIsExact
  OneNormalization
  FreshRoundsAreJudged
CHECK_DEADLOCK FALSE
