CONSTANTS
  WordsOf <- MCWordsOf
  TrimIndicator = 2
  Refusable = {}
  RetryDelay = 2
  MaxSessions = 1
  MaxInput = 1
SPECIFICATION Spec
INVARIANT TrimFromIndicator
CHECK_DEADLOCK FALSE
