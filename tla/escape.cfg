SPECIFICATION FairSpec
CONSTANTS
  Places <- Corridors
  Starts <- Entry
  Worlds <- ManyWorlds
  Goals = {"east", "west"}
  Toward <- TowardBoth
  Reach = 2
  Advance = 2
  Region = 1
  Nowhere = Nowhere
  MaxAttempts = 32
  MaxSurprises = 2
CHECK_DEADLOCK FALSE
INVARIANT FaultsDoNotReverse
PROPERTIES TurnsAreNew CommitHolds ComesToRest
