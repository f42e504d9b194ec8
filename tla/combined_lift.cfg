SPECIFICATION FairSpec
CONSTANTS
  Positions <- FewPositions
  Top = 2
  Depth = 3
  MaxRamp = 3
  CommandTimeout = 1
  ReleaseTimeout = 1
  HomeTimeout = 2
  MaxGap = 2
  QueueLength = 1
  InvalidLimit = 2
INVARIANT ModesAgree
PROPERTIES YawKept ImplementsDevice SilenceStops
