SPECIFICATION FairSpec
CONSTANTS
  Sessions = {s1, s2}
  NoSession = s0
  SequenceModulus = 4
  Sequences <- FewSequences
  Unseen = none
  Positions <- FewPositions
  Top = 4
  EndTolerance = 1
  MaxRamp = 2
  ReleaseTravel = 1
  ReleaseTimeout = 1
  HomingTimeout = 3
  WatchdogTimeout = 1
  MaxLoopGap = 2
INVARIANTS PulsesNeedLease NoOldTarget StopsWithinTravel EndstopsHold
PROPERTIES FreshEdgeHomes NoReplay ImplementsPort HomingEnds
