CONSTANTS
  NumDefinitions = 2
  MaxSessions = 3
  MaxRuns = 3
  MaxStops = 2
SPECIFICATION FairSpec
INVARIANTS
  TypeOK
  ConnectedIffOpen
  QuietWhenDisconnected
  FirstFrameFits
PROPERTIES
  QuitEndsRun
  StopEndsRun
CHECK_DEADLOCK FALSE
