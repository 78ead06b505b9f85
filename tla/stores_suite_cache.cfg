SPECIFICATION FairSpec
CONSTANTS
  core = core
  coreDb = coreDb
  suite = suite
  EndpointKeys <- OneEndpoint
  SuiteEndpointKeys <- OneSuiteEndpoint
  SuiteKey = suite
  Prefixed <- PrefixOfBoth
  MaximumNumberOfResults = 1
  MaximumNumberOfEvents = 2
  ResultSlack = 1
  EventSlack = 0
  MaxInserts = 3
  Processes = {1, 2}
  Jobs <- WatchdogAndServer
CHECK_DEADLOCK FALSE
INVARIANT SuiteCacheMatchesTables
