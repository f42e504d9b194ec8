SPECIFICATION FairSpec
CONSTANT Depth = 2
INVARIANTS StopNotForgotten PadNeedsStart NoStuckKey
PROPERTIES LettingGoStops ConflictStops
