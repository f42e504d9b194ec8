SPECIFICATION BridgeFairSpec
CONSTANTS
  MaxLines = 2
  MaxFrames = 1
PROPERTIES StaleTargetsHeld HomeIsForgotten NodeLearns
