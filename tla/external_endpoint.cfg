SPECIFICATION FairSpec
CONSTANTS
  p1 = p1
  p2 = p2
  Pushers <- OnePusher
  HasHeartbeat = TRUE
  HeartbeatInterval = 2
  FailureThreshold = 2
  SuccessThreshold = 2
  Reminders = TRUE
  SendOnResolved = TRUE
  StoreMayFail = TRUE
  MayBeMaintained = TRUE
  CounterCap = 2
  AgeCap = 2
INVARIANT ConsistentAtRest
PROPERTIES SentOnce CountersAccumulate SilenceIsAnnounced
