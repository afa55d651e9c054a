SPECIFICATION Spec
CONSTANTS
  Positions <- MCPositions
  Distance <- MCDistance
  R = 4
  K = 2
  SlideStep = 2
  Window = 6
  Arrivals <- MCArrivals
  Rescale <- MCRescale
  MaxSlides = 6
  MaxSwitches = 1
INVARIANTS
  StateIsWindow
  ClustersAreDense
  SafeIsEarned
PROPERTIES
  NaiveSpec
CHECK_DEADLOCK FALSE
