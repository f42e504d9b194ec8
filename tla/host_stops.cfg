SPECIFICATION FairSpec
CONSTANTS
  UseLift = TRUE
  HomeOnActivate = TRUE
  StartAttempts = 1
  MaxLines = 1
  s1 = s1
  s2 = s2
  s3 = s3
  Sessions <- TwoSessions
  NoSession = s0
  Failures = {"break"}
  FailStages <- Running
  MaxFailures = 1
PROPERTY FaultStopsBoth
