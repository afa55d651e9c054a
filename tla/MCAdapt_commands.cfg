\* Up to two commands, one checkpoint and one crash.
SPECIFICATION FairSpec
CONSTANTS
  Inputs <- MCInputs
  Commands <- MCCommands
  MaxTime = 7
  Channels = {"Gas", "Light"}
  Light = "Light"
  Censor = 3
  Log <- MCLog
  RefBins = 3
  Epsilon = 1
  Samples <- MCSamples
  Warmup = 2
  CacheDepth = 4
  Reestimate = 3
  Window = 3
  Absence = 4
  MaxPublished = 2
  MaxCheckpoints = 1
  MaxCrashes = 1
INVARIANTS
  ExecutionIsDeterministic
  EstimatesAreExact
  AttachmentsAreSentOnce
  PendingWillRun
PROPERTIES
  PendingIsResolved
CHECK_DEADLOCK FALSE
