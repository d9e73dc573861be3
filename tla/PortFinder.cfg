CONSTANT MaxCalls = 4
SPECIFICATION Spec
INVARIANTS
  TypeOK
  SessionsAreAccountedFor
CHECK_DEADLOCK FALSE
