SPECIFICATION Spec
CONSTANTS
  AlertCount = 2
  FailureThreshold <- EqualThresholds
  SuccessThreshold <- EqualThresholds
  ReminderInterval <- TwoIntervals
  SendOnResolved = {}
  Configured = {1, 2}
  Checksum <- SharedChecksum
  EnabledSets <- AlwaysBoth
  Persistent = TRUE
  StoreMayFail = FALSE
  MaxCrashes = 1
  CounterCap = 3
  AgeCap = 3
INVARIANT TriggeredMeansSent
