SPECIFICATION Spec
CONSTANTS
  UseLift = TRUE
  HomeOnActivate = TRUE
  StartAttempts = 2
  MaxLines = 1
  s1 = s1
  s2 = s2
  s3 = s3
  Sessions <- ThreeSessions
  NoSession = s0
  Failures = {}
  FailStages <- AllStages
  MaxFailures = 0
PROPERTY HealthyStartSucceeds
SYMMETRY AnySession
