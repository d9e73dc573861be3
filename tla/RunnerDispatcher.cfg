CONSTANTS
  NumDefinitions = 2
  MaxSessions = 2
  MaxRuns = 3
  MaxStops = 2
SPECIFICATION FairSpec
INVARIANT DataReachDispatcher
CHECK_DEADLOCK FALSE
