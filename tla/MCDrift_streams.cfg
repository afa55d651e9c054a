SPECIFICATION LayersSpec
CONSTANTS
  WMin = 4
  WMax = 6
  Cut <- MCCut
  FCrit <- MCFCrit
  TCrit <- MCTCrit
  MedianSpan = 2
  K = 5
  Rho = 1
  Kinds = {"tenMinutes", "hourly", "rate", "days"}
  Values = {0, 3}
  Bins <- MCBins
  RateUnit = 3
  Slots <- MCSlots
  SlotsPerHour = 2
  AttrTail = 2
  SlotsPerDay = 4
  Other <- MCOther
  Combos <- MCCombos
  Default <- MCDefault
  Stable <- MCStable
  Profile <- MCProfile
  TailSpan <- MCTail
  SunSpans <- MCSun
  EveningSpan <- MCEvening
  InjectedSpans <- MCInjected
  FullStream = 10
  Readings = {0, 2}
  DayLengths <- MCDayLengths
  BinLength = 2
  CalibRounds = 2
  RefBins = 1
  D0 <- MCHalf
  LambdaSq <- MCHalf
  GuardRun = 3
  Floors = {0}
  RunGap = 2
  ColdGap = 2
  QualityMax <- MCThird
  TimerLag = 1
  NewSample <- MCNewSample
  Plans <- MCPlans
INVARIANTS
  SumsAreExact
  ChecksConcludeOnce
  BlindMeansBlind
  ReportAgrees
  OnlineBurstsAreOffline
  HourlyIsOffline
  DaysAreOffline
CHECK_DEADLOCK FALSE
