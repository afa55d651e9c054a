\* A command effective within a window of the freeze.
SPECIFICATION SpecBoth
CONSTANTS
  Inputs <- MCEarlyInputs
  Commands <- MCEarlyCommands
  MaxTime = 11
  Warmup = 1
  CacheDepth = 6
  Reestimate = 4
  Window = 4
  SlideStep = 2
  Absence = 5
  MaxPublished = 2
  MaxCheckpoints = 1
  MaxCrashes = 1
INVARIANTS
  PointsAreInWindow
CHECK_DEADLOCK FALSE
