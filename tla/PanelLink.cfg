CONSTANTS
  Frames <- MCFrames
  BufferSize = 12
  BlinkPeriod = 2
  Attached <- MCAttached
  MaxFrames = 3
  MaxLosses = 1
SPECIFICATION FairSpec
INVARIANTS
  TypeOK
  FramesInStep
  InstrumentsShowFrame
  DeadPortIsLeft
PROPERTIES
  GearLightBlinks
  FramesArrive
