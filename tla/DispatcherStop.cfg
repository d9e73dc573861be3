CONSTANTS
  Notifiers = {n1, n2}
  Recipients = {r1, r2}
  MaxNotify = 3
  MaxStarts = 2
SPECIFICATION FairSpec
PROPERTY StopReturns
CHECK_DEADLOCK FALSE
