SPECIFICATION RecoveringSpec
CONSTANTS
  AlertCount = 2
  FailureThreshold <- TwoFailureThresholds
  SuccessThreshold <- TwoSuccessThresholds
  ReminderInterval <- FirstReminded
  SendOnResolved = {1}
  Configured = {1, 2}
  Checksum <- TwoChecksums
  EnabledSets <- AlwaysBoth
  Persistent = TRUE
  StoreMayFail = TRUE
  MaxCrashes = 1
  CounterCap = 3
  AgeCap = 3
PROPERTIES AnnouncedEventually ResolvedEventually RemindedForEver
