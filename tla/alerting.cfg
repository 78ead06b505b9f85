SPECIFICATION HSpec
CONSTANTS
  AlertCount = 2
  FailureThreshold <- TwoFailureThresholds
  SuccessThreshold <- TwoSuccessThresholds
  ReminderInterval <- TwoIntervals
  SendOnResolved = {1}
  Configured = {1, 2}
  Checksum <- TwoChecksums
  EnabledSets <- AnyEnabled
  Persistent = TRUE
  StoreMayFail = FALSE
  MaxCrashes = 2
  CounterCap = 3
  AgeCap = 3
INVARIANTS TypeOK RowsMatchTriggered TriggeredMeansAnnounced NotOverdue
PROPERTIES ImplementsIncident AnnouncedOnThreshold ResolvedOnThreshold RemindersSpaced
