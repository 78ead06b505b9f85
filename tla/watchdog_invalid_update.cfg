SPECIFICATION Spec
CONSTANTS
  m1 = m1
  m2 = m2
  bad = bad
  Monitors <- TwoMonitors
  Heartbeats = {m2}
  Concurrency = 1
  Contents <- OneOrInvalid
  FirstContent = {m1, m2}
  Invalid = {bad}
  SkipInvalid = {{m1, m2}}
  HasConnectivity = TRUE
  MaxEdits = 1
CHECK_DEADLOCK FALSE
INVARIANT WatchingMeansMonitoring
