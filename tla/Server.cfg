CONSTANTS
  c1 = c1
  c2 = c2
  Connections <- MCConnections
  MaxMessages <- MCMaxMessages
  FrameCycle = 2
SPECIFICATION FairSpec
INVARIANTS
  TypeOK
  RegistryFollowsConnections
  FrameReachesAll
PROPERTIES
  ImplementsClientSessions
  ClientIsServed
  GoneIsForgotten
