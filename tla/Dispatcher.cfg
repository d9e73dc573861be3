CONSTANTS
  Notifiers = {n1, n2}
  Recipients = {r1, r2}
  MaxNotify = 4
  MaxStarts = 3
SPECIFICATION FairSpec
INVARIANTS
  TypeOK
  NoSelfDeadlock
  LockLeaksOnlyWhenEmpty
  InOrderDelivery
  NothingLost
PROPERTIES
  ImplementsFifoBroadcast
  DispatchedUnlessStopped
  StopWithBacklogReturns
CHECK_DEADLOCK FALSE
