SPECIFICATION Spec
CONSTANTS
  HoursPerDay = 2
  ShortDays = {3}
  Skipped = 1
  Channels = {"T", "H"}
  Active = {"T"}
  Devices = {"a", "b"}
  LastDay = 5
  Params <- MCParams
  Study <- MCStudy
  Scenarios <- MCScenarios
  Ahead = 1
  CheckpointTicks = {24}
  MaxRestarts = 1
INVARIANTS
  OnlineIsOffline
  CommandsAreApart
  BooksAgree
  DriftIsCommanded
  FleetReportAgrees
