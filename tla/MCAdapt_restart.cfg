\* The class comment: execution does not depend on arrival.  A third record on
\* the topic is one published again.
SPECIFICATION Spec
CONSTANTS
  Inputs <- MCInputs
  Commands <- MCCommands
  MaxTime = 7
  Channels = {"Gas", "Light"}
  Light = "Light"
  Censor = 3
  Log <- MCLog
  RefBins = 3
  Epsilon = 1
  Samples <- MCSamples
  Warmup = 2
  CacheDepth = 4
  Reestimate = 3
  Window = 3
  Absence = 4
  MaxPublished = 3
  MaxCheckpoints = 1
  MaxCrashes = 1
INVARIANTS
  IndependentOfArrival
CHECK_DEADLOCK FALSE
