SPECIFICATION Spec
CONSTANTS
  Sessions = {s1}
  NoSession = s0
  SequenceModulus = 4
  Sequences <- FewSequences
  Unseen = none
  Positions <- FewPositions
  Top = 4
  EndTolerance = 1
  MaxRamp = 2
  ReleaseTravel = 1
  ReleaseTimeout = 2
  HomingTimeout = 4
  WatchdogTimeout = 2
  MaxLoopGap = 2
INVARIANTS EndstopsEnforced
