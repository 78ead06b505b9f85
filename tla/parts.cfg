SPECIFICATION PartsSpec
CONSTANTS
  price = price
  itemId = itemId
  N = 4
  AlwaysRun <- ItemCleanup
  Keys <- ItemKeys
  InitialKeys <- PriceOnly
  Uses <- ItemUses
  Stores <- ItemStores
  MaxRuns = 2
  CounterCap = 2
  Recipients = 2
  MaxSends = 4
  HoursPerDay = 3
  Retention = 5
  MergeThreshold = 12
  Horizon = 24
  MaxOutages = 1
  HoursOfDay = 4
  SlotsPerHour = 2
  WeekLength = 3
  LastDay = 3
  ChangeHour = 2
  KeptResults = 3
  ResultSlack = 1
  DefaultPageSize = 2
  HalfWord = 8
  MaxInserted = 7
  c1 = c1
  c2 = c2
  Checks <- BothChecks
  MaxRetries = 3
  MaxClients = 4
  MaxBreaks = 2
  Callers <- BothChecks
  CheckTimeout = 2
  CheckInterval = 2
  LastInstant = 8
CHECK_DEADLOCK FALSE
INVARIANTS
  CleanupRuns StopsAtFirstFailure SuccessMeansAllPassed NoStaleValue
  SentAsConfigured SuccessMeansEveryoneTold ResolutionClosesIncident
  UptimeSurvivesMerges MaintenanceAsScheduled PagesMissNothing
  RetrievedBeforeUse HealthyMeansReached TunnelIsShared AnswersAreFresh
