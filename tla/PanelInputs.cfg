CONSTANTS
  NumRotaries = 1
  MaxTurn = 4
  MaxMissed = 1
  NumKeys = 4
  ListMax = 2
SPECIFICATION MCFairSpec
INVARIANTS
  PanelTypeOK
  ClicksAreCounted
  ButtonsFollowList
PROPERTIES
  ClickNeedsAllPhases
  ButtonsFollowKeys
