SPECIFICATION FairSpec
CONSTANTS
  Wheels = {w1, w2}
  Speeds <- FewSpeeds
  ZeroTolerance = 1
  Acceleration = 1
  PwmLimit = 1
  SoftTimeout = 2
  HardTimeout = 9
  ControlPeriod = 2
  MillisModulus = 13
  MaxLoopGap = 2
  SilenceCap = 14
  RxErrorCap = 1
  Sequences = {0}
INVARIANTS StopsBeforeTheCut
PROPERTIES TimeoutRecovery SoftStopOnlySlows ImplementsLease ImplementsPort SilenceStops
