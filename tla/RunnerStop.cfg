CONSTANTS
  NumDefinitions = 2
  MaxSessions = 2
  MaxRuns = 3
  MaxStops = 2
SPECIFICATION FairSpec
PROPERTY StopStopsTheLoop
CHECK_DEADLOCK FALSE
