CONSTANTS
  WordsOf <- MCWordsOf
  TrimIndicator = 2
  Refusable = {1, 2, 3}
  RetryDelay = 2
  MaxSessions = 2
  MaxInput = 2
SPECIFICATION FairSpec
INVARIANTS
  TypeOK
  ConnectedHasSession
  BackOff
  FirstSessionInBounds
  CleanedUp
PROPERTIES
  QuitReturns
  Reconnects
CHECK_DEADLOCK FALSE
