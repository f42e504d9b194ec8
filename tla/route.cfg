SPECIFICATION FairSpec
CONSTANTS
  Goals = {"here", "nearby", "far"}
  TaskGoals = {"here"}
  Class <- NearAndFar
  Places = {"p", "q"}
  Scores = {1}
  Starts = 1
  Departures = 1
  Approaches = 1
  MaxSweep = 2
  None = None
  MaxNews = 2
CHECK_DEADLOCK FALSE
INVARIANTS RouteIsForGoal NoFalseArrival TurnBudgetKept
PROPERTIES CommittedTurnIsClear SearchEnds
