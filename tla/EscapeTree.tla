----------------------------- MODULE EscapeTree -----------------------------
(***************************************************************************)
(* The local escape of the navigation tree                                 *)
(* (behavior_trees/navigate_real_clearance_escape.xml): what the robot     *)
(* does between the failure of every complete route and the next search.  *)
(* The conditions of the tree are modes of PathFootprintClear, which share *)
(* the memory of one ClearanceData, and pc is the node the tree is at:     *)
(* every condition takes callbacks in before it decides, so the world may  *)
(* change between two nodes of one tick.                                   *)
(*                                                                         *)
(* The floor is a grid.  A cell is 16 cm: the rear corridor a retreat      *)
(* needs, and more than the distances the conditions treat as the same     *)
(* place (0.04, 0.05 and 0.15 m).  The world says which cells the padded   *)
(* footprint fits and in which of them it can turn.  Goals lie farther     *)
(* away than Reach, so only the direction towards them counts.  Whether a  *)
(* complete route exists is left open: finding one is a surprise, as are a *)
(* changed world, a new goal, stale data and a failed motion, and there    *)
(* are at most MaxSurprises of them.                                       *)
(***************************************************************************)
EXTENDS Integers, Sequences

CONSTANTS Places,       \* The cells of the floor, pairs of integers
          Starts,       \* Where a task may start
          Worlds,       \* What the costmaps may show: [free, pockets]
          Goals,        \* The goals an operator may ask for
          Toward,       \* The heading towards each goal
          Reach,        \* Cells that make a corridor an exit (0.75 m)
          Advance,      \* Cells a local advance may take (1.20 m)
          Region,       \* Cells that leave a region (0.45 m)
          Nowhere,      \* No place
          MaxAttempts,  \* Turns the memory keeps (32)
          MaxSurprises  \* Bound on what the tree does not decide

Headings == {<<1, 0>>, <<0, 1>>, <<-1, 0>>, <<0, -1>>}

ASSUME FloorAssumption ==
  /\ Places \subseteq Int \X Int /\ Starts \subseteq Places
  /\ Worlds \subseteq [free : SUBSET Places, pockets : SUBSET Places]
  /\ Toward \in [Goals -> Headings]
  /\ Reach \in Nat /\ Advance \in Nat /\ Region \in Nat
  /\ MaxAttempts \in Nat \ {0} /\ MaxSurprises \in Nat
  /\ Nowhere \notin Places

VARIABLES
  place, heading,  \* The odometry pose
  world,           \* The costmaps
  goal,            \* {goal} on the blackboard
  memory,          \* The ClearanceData shared by the conditions
  error,           \* The error codes on the blackboard
  pc,              \* The node the tree is at
  within,          \* Which of the subtrees that share nodes it is in
  distance,        \* {escape_forward_distance}, then what is left of it
  aim,             \* The heading {escape_turn_angle} leads to
  limitAt,         \* Where the turn budget of the controller ran out
  retries,         \* Retries of the outer RecoveryNode
  surprises,       \* Surprises so far
  spun             \* History: the turns begun since the last new goal,
                   \* no more of them than the memory keeps

pose == <<place, heading>>
vars == <<place, heading, world, goal, memory, error, pc, within,
          distance, aim, limitAt, retries, surprises, spun>>

-----------------------------------------------------------------------------
(* Geometry.                                                               *)

Shift(p, h, n) == <<p[1] + n * h[1], p[2] + n * h[2]>>

Corridor(p, h, n) == \A i \in 0..n : Shift(p, h, i) \in world.free

Square(n) == n * n
Apart(p, q) == Square(p[1] - q[1]) + Square(p[2] - q[2]) > Square(Region)

(* Signed rear travel since a pose: turning on the spot is not travel.     *)
RearTravel(from) == (from[1][1] - place[1]) * from[2][1]
                  + (from[1][2] - place[2]) * from[2][2]

RearClear == place \in world.free /\ Shift(place, heading, -1) \in world.free

QuarterTurns(h, k) == IF h = k THEN 0
                      ELSE IF h[1] = -k[1] /\ h[2] = -k[2] THEN 2 ELSE 1

-----------------------------------------------------------------------------
(* The memory.  Each of the goals the code keeps with a part of it is the  *)
(* goal of the last check, so one field stands for the four.               *)

Blank == [goal |-> goal, attempts |-> <<>>, region |-> Nowhere,
          adjustments |-> 0, committed |-> FALSE,
          turn_collision |-> FALSE, min_retreat |-> 1,
          failed_forward |-> FALSE, collision |-> pose,
          retreat_active |-> FALSE, retreat_stopped |-> FALSE, retreat |-> pose,
          forward_stop |-> FALSE, turn_stop |-> FALSE,
          goal_facing |-> FALSE, handoff |-> FALSE]

ObservedAlways(m) ==                             \* mutant: committed or not
  IF m.region # Nowhere /\ Apart(place, m.region)
  THEN [m EXCEPT !.region = Nowhere, !.adjustments = 0, !.committed = FALSE]
  ELSE m

(* EscapeMemory::observe: a committed retreat is not released by travel.   *)
Observed(m) ==
  IF ~m.committed /\ m.region # Nowhere /\ Apart(place, m.region)
  THEN [m EXCEPT !.region = Nowhere, !.adjustments = 0]
  ELSE m

(* EscapeMemory::noteAdjustment.  The count past two is never read.        *)
Adjusted(m) ==
  LET o == Observed(m)
      n == IF o.adjustments = 0 THEN 1 ELSE 2
  IN  [o EXCEPT !.region = IF @ = Nowhere THEN place ELSE @,
                !.adjustments = n,
                !.committed = @ \/ n = 2]

RenewedAlways == Blank                           \* mutant: a goal sent again is new

(* What every check of a maneuver does first; Seen also for the modes that *)
(* look at the maps.                                                       *)
Renewed == IF memory.goal = goal THEN memory ELSE Blank
Seen == Observed(Renewed)

TranslationRequired == limitAt = place

(* The turns are kept newest first; the oldest falls out.                  *)
Noted(turns, turn) ==
  [i \in 1..(IF Len(turns) < MaxAttempts THEN Len(turns) + 1 ELSE MaxAttempts) |->
     IF i = 1 THEN turn ELSE turns[i - 1]]

Among(turn, turns) == \E i \in DOMAIN turns : turns[i] = turn

Forced(m) == /\ m.turn_collision
             /\ \A h \in Headings : ~Among(<<place, h>>, m.attempts)
             /\ RearTravel(m.collision) < m.min_retreat

(* useful_exit: the headings the robot may leave p by, the present one     *)
(* when the way to the goal is straight on.                                *)
Exits(m, p, full) ==
  LET straight == /\ heading = Toward[goal]
                  /\ Corridor(p, heading, Reach)
                  /\ ~(m.failed_forward /\ RearTravel(m.collision) < 1)
      turns == {k \in Headings \ {heading} :
                  /\ m.committed \/ full => k = Toward[goal]
                  /\ ~Among(<<p, k>>, m.attempts)
                  /\ p \in world.pockets
                  /\ Corridor(p, k, Reach)}
      Cost(k) == 2 * QuarterTurns(Toward[goal], k) + QuarterTurns(heading, k)
  IN  IF p \notin world.free THEN {}
      ELSE IF straight THEN {heading}
      ELSE {k \in turns : \A j \in turns : Cost(k) <= Cost(j)}

CurrentExits(m, full) == IF Forced(m) THEN {} ELSE Exits(m, place, full)

Escapes(m) == ~TranslationRequired /\ CurrentExits(m, FALSE) # {}

(* A checked way to a turning pocket n cells ahead.                        *)
Pocket(m, n) == /\ Corridor(place, heading, n)
                /\ Exits(m, Shift(place, heading, n), TRUE) # {}

-----------------------------------------------------------------------------
(* The blackboard.                                                         *)

NoErrors == [controller |-> "none", forward |-> "none", turn |-> "none", backup |-> "none"]

Healthy == error.controller \in {"none", "blocked"}

Surprise == surprises < MaxSurprises /\ surprises' = surprises + 1

At(node) == pc = node
GoTo(node) == pc' = node /\ UNCHANGED within
Enter(node, subtree) == pc' = node /\ within' = subtree

(* A recovery that succeeds lets the RecoveryNode search again.            *)
SearchAgain == /\ Enter("routes", "primary")
               /\ error' = NoErrors

Standing == UNCHANGED <<place, heading>>
Outside == UNCHANGED <<world, goal, limitAt, retries>>
Settled == UNCHANGED <<surprises, distance, aim>> /\ Outside

Init ==
  /\ world \in Worlds /\ place \in Starts \cap world.free
  /\ heading \in Headings /\ goal \in Goals
  /\ memory = Blank /\ error = NoErrors
  /\ pc = "routes" /\ within = "primary"
  /\ distance = 0 /\ aim = heading
  /\ limitAt = Nowhere /\ retries = 0 /\ surprises = 0
  /\ spun = <<>>

-----------------------------------------------------------------------------
(* Routes.  The subtree is entered four times: by the RecoveryNode, again  *)
(* in the recovery, there with checked forward departures only, and as the *)
(* last resort without a limit on the length.                              *)

AfterRoutes ==
  CASE within = "primary" -> Enter("recover", "primary")
    [] within = "again" -> IF error'.controller = "fault"
                           THEN Enter("giveUp", "primary")
                           ELSE Enter("routes", "forward")
    [] within = "forward" -> Enter("allowed", "local")
    [] OTHER -> Enter("giveUp", "primary")

(* Forward departures are not searched while a retreat is called for.      *)
Departure == ~Forced(Seen) /\ ~Seen.committed
             /\ Corridor(place, heading, 1)

FindRoute ==
  /\ At("routes") /\ Surprise /\ ~TranslationRequired
  /\ within = "forward" => Departure
  /\ memory' \in {memory, Seen}
  /\ GoTo("following") /\ limitAt' = Nowhere
  /\ Standing
  /\ UNCHANGED <<world, goal, error, distance, aim, retries>>

NoRoute ==
  /\ At("routes")
  /\ memory' = IF TranslationRequired THEN memory ELSE Seen
  /\ UNCHANGED error /\ AfterRoutes
  /\ Standing /\ Settled

FollowRoute ==
  /\ At("following")
  /\ \/ /\ Enter("done", "primary")
        /\ Standing /\ UNCHANGED <<error, limitAt>>
     \/ \E e \in {"blocked", "fault"} :
          /\ error' \in {error, [error EXCEPT !.controller = e]}
          /\ place' \in world.free \cup {place} /\ heading' \in Headings
          /\ limitAt' \in {limitAt, place'}
          /\ AfterRoutes
  /\ UNCHANGED <<world, goal, memory, distance, aim, retries, surprises>>

(* The recovery starts from cleared error codes.                           *)
Recover ==
  /\ At("recover") /\ Enter("routes", "again")
  /\ error' = NoErrors
  /\ UNCHANGED memory /\ Standing /\ Settled

(* recovery_allowed, by what the last search left on the blackboard: the   *)
(* code of the planner and whether the blocked part was near the robot.    *)
Allowed(planner, near) ==
  LET local == near \/ Renewed.committed \/ limitAt # Nowhere
  IN  /\ Healthy
      /\ \/ planner = "startOccupied"
         \/ planner = "noPath" /\ local
         \/ planner = "none" /\ (local \/ error.controller = "blocked")

AllowRecovery ==
  /\ At("allowed") /\ memory' = Renewed
  /\ \E planner \in {"none", "noPath", "startOccupied"}, near \in BOOLEAN :
       /\ TranslationRequired => planner = "none" /\ ~near
       /\ IF Allowed(planner, near) THEN GoTo("forward")
                                    ELSE Enter("routes", "last")
  /\ UNCHANGED error /\ Standing /\ Settled

(* The outer RecoveryNode waits for fresh data twice.                      *)
GiveUp ==
  /\ At("giveUp")
  /\ IF Healthy /\ retries < 2
     THEN SearchAgain /\ retries' = retries + 1
     ELSE Enter("aborted", "primary") /\ UNCHANGED <<error, retries>>
  /\ Standing
  /\ UNCHANGED <<world, goal, memory, distance, aim, limitAt, surprises>>

-----------------------------------------------------------------------------
(* Advance to a turning pocket.                                            *)

Stays == UNCHANGED error /\ Standing /\ Outside

SelectForward ==
  LET now == CurrentExits(Seen, TRUE)
      goes == {n \in 1..Advance : Pocket(Seen, n)}
  IN  /\ At("forward") /\ memory' = Seen
      /\ IF /\ ~Forced(Seen) /\ ~Seen.committed /\ goes # {}
            /\ TranslationRequired \/ now \subseteq {heading}
         THEN /\ distance' \in {n \in goes : \A o \in goes : n <= o}
              /\ GoTo("forwardBegin")
         ELSE GoTo("turn") /\ UNCHANGED distance
      /\ Stays /\ UNCHANGED <<aim, surprises>>

BeginForward ==
  /\ At("forwardBegin")
  /\ IF ~Forced(Seen) /\ ~Seen.committed /\ Pocket(Seen, distance)
     THEN memory' = [Seen EXCEPT !.forward_stop = FALSE] /\ GoTo("driving")
     ELSE /\ memory' = [Seen EXCEPT !.forward_stop = TRUE]
          /\ GoTo("forwardCollision")
  /\ Stays /\ UNCHANGED <<distance, aim, surprises>>

(* DriveOnHeading under forward_safe.                                      *)
DriveForward ==
  /\ At("driving")
  /\ IF ~Forced(Seen) /\ Pocket(Seen, distance)
     THEN /\ memory' = Seen
          /\ IF distance = 0 THEN GoTo("forwardComplete") /\ UNCHANGED <<place, distance>>
             ELSE /\ place' = Shift(place, heading, 1)
                  /\ distance' = distance - 1 /\ UNCHANGED <<pc, within>>
     ELSE /\ memory' = [Seen EXCEPT !.forward_stop = TRUE]
          /\ GoTo("forwardCollision") /\ UNCHANGED <<place, distance>>
  /\ UNCHANGED <<heading, error, aim, surprises>> /\ Outside

CompleteForward ==
  /\ At("forwardComplete")
  /\ IF CurrentExits(Seen, TRUE) # {}
     THEN memory' = Adjusted(Seen) /\ SearchAgain
     ELSE /\ memory' = [Seen EXCEPT !.forward_stop = TRUE]
          /\ GoTo("forwardCollision") /\ UNCHANGED error
  /\ Standing /\ Settled

LeaveForwardAnyhow ==                            \* mutant: any error
  /\ At("forwardCollision")
  /\ memory' = [Seen EXCEPT !.forward_stop = FALSE, !.committed = TRUE,
                  !.turn_collision = TRUE, !.min_retreat = 0,
                  !.failed_forward = TRUE, !.collision = pose]
  /\ IF RearClear THEN Enter("reverse", "retreat") ELSE Enter("routes", "last")
  /\ Stays /\ UNCHANGED <<distance, aim, surprises>>

(* forward_collision: only a geometric stop turns into a retreat.          *)
LeaveForward ==
  /\ At("forwardCollision")
  /\ IF \/ error.forward = "collision"
        \/ error.forward = "none" /\ Seen.forward_stop
     THEN /\ memory' = [Seen EXCEPT !.forward_stop = FALSE, !.committed = TRUE,
                          !.turn_collision = TRUE, !.min_retreat = 0,
                          !.failed_forward = TRUE, !.collision = pose]
          /\ IF RearClear THEN Enter("reverse", "retreat")
                          ELSE Enter("routes", "last")
     ELSE memory' = Seen /\ Enter("routes", "last")
  /\ Stays /\ UNCHANGED <<distance, aim, surprises>>

-----------------------------------------------------------------------------
(* Turn on the spot, before a retreat or at the end of one.                *)

SelectTurn ==
  /\ At("turn") /\ memory' = Seen
  /\ \/ /\ ~TranslationRequired
        /\ aim' \in CurrentExits(Seen, FALSE) \ {heading}
        /\ GoTo("turnBegin")
     \/ /\ TranslationRequired \/ CurrentExits(Seen, FALSE) \subseteq {heading}
        /\ IF within = "retreat" THEN GoTo("stillAvailable")
                                 ELSE Enter("reverse", "retreat")
        /\ UNCHANGED aim
  /\ Stays /\ UNCHANGED <<distance, surprises>>

TurnFits(m) == /\ ~Forced(m)
               /\ m.committed => aim = Toward[goal]
               /\ place \in world.pockets /\ Corridor(place, aim, Reach)

TurnBegunUnrecorded(m) ==                        \* mutant: not remembered
  [Adjusted(m) EXCEPT !.turn_stop = FALSE, !.goal_facing = aim = Toward[goal]]

(* turn_begin on memory m, which then remembers the turns it tried.        *)
TurnBegun(m) == [Adjusted(m) EXCEPT !.turn_stop = FALSE,
                                    !.goal_facing = aim = Toward[goal],
                                    !.attempts = Noted(@, <<place, aim>>)]
BeginTurn ==
  /\ At("turnBegin")
  /\ IF ~TranslationRequired /\ TurnFits(Seen)
     THEN /\ memory' = TurnBegun(Seen) /\ GoTo("spinning")
          /\ spun' = Noted(spun, <<place, aim>>)
     ELSE /\ memory' = [Seen EXCEPT !.turn_stop = @ \/ ~TranslationRequired]
          /\ GoTo("turnCollision") /\ UNCHANGED spun
  /\ Stays /\ UNCHANGED <<distance, aim, surprises>>

(* ResetEscapeState with turn_completed.                                   *)
TurnCompleted(m) ==
  LET released == m.committed /\ m.goal_facing
  IN  [m EXCEPT !.failed_forward = FALSE, !.turn_collision = FALSE,
                !.goal_facing = FALSE, !.turn_stop = FALSE, !.handoff = FALSE,
                !.committed = @ /\ ~released,
                !.region = IF released THEN Nowhere ELSE @,
                !.adjustments = IF released THEN 0 ELSE @]

Spin ==
  /\ At("spinning") /\ heading' = aim
  /\ memory' = TurnCompleted(memory) /\ SearchAgain
  /\ UNCHANGED place /\ Settled

(* turn_collision: a motor timeout never becomes a retreat.                *)
AfterSpinCollision ==
  /\ At("turnCollision")
  /\ IF error.turn = "collision"
     THEN /\ memory' = [Seen EXCEPT !.turn_collision = TRUE, !.min_retreat = 1,
                          !.failed_forward = FALSE, !.collision = pose]
          /\ IF ~RearClear THEN GoTo("lostExit") /\ UNCHANGED error
             ELSE IF within = "retreat" THEN SearchAgain
             ELSE Enter("reverse", "retreat") /\ UNCHANGED error
     ELSE memory' = Seen /\ GoTo("lostExit") /\ UNCHANGED error
  /\ Standing /\ Settled

LostExit ==
  /\ At("lostExit")
  /\ IF /\ error.turn = "none" /\ (Seen.handoff \/ Seen.turn_stop)
        /\ Seen.turn_stop \/ CurrentExits(Seen, FALSE) = {}
        /\ RearClear
     THEN /\ memory' = [Seen EXCEPT !.committed = TRUE, !.turn_stop = FALSE,
                                    !.handoff = FALSE]
          /\ IF within = "retreat" THEN SearchAgain
             ELSE Enter("reverse", "retreat") /\ UNCHANGED error
     ELSE /\ memory' = Seen
          /\ IF within = "retreat" THEN GoTo("replan") ELSE Enter("routes", "last")
          /\ UNCHANGED error
  /\ Standing /\ Settled

-----------------------------------------------------------------------------
(* CheckedRetreatAndTurn.                                                  *)

(* BackUp under reverse_needed: one check and one cell, or the end of it.  *)
Reverse ==
  /\ At("reverse")
  /\ IF ~Escapes(Seen) /\ RearClear
     THEN /\ place' = Shift(place, heading, -1)
          /\ memory' = IF Seen.retreat_active THEN Seen
                       ELSE [Seen EXCEPT !.handoff = FALSE, !.committed = TRUE,
                               !.retreat_active = TRUE,
                               !.retreat_stopped = FALSE, !.retreat = pose]
          /\ UNCHANGED <<pc, within>>
     ELSE /\ memory' = [Seen EXCEPT !.retreat_active = FALSE,
                          !.retreat_stopped = @ \/ Seen.retreat_active]
          /\ GoTo("available") /\ UNCHANGED place
  /\ UNCHANGED <<heading, error>> /\ Settled

(* escape_available: brake and turn; without a turn the exit is looked at  *)
(* once more and the tree goes back to planning.                           *)
Available ==
  /\ pc \in {"available", "stillAvailable"}
  /\ IF Escapes(Seen)
     THEN /\ memory' = [Seen EXCEPT !.handoff = TRUE, !.retreat_active = FALSE,
                                    !.retreat_stopped = FALSE]
          /\ IF At("available") THEN GoTo("turn") /\ UNCHANGED error
                                ELSE SearchAgain
     ELSE memory' = Seen /\ GoTo("lostExit") /\ UNCHANGED error
  /\ Standing /\ Settled

(* replan_after_retreat: one search for a retreat that really moved.       *)
Replan ==
  LET stopped == Renewed.retreat_stopped
                 \/ (Renewed.retreat_active /\ error.backup = "collision")
      allowed == stopped /\ error.backup # "fault"
  IN  /\ At("replan")
      /\ memory' = IF allowed THEN [Renewed EXCEPT !.retreat_active = FALSE,
                                                   !.retreat_stopped = FALSE]
                   ELSE Renewed
      /\ IF allowed /\ RearTravel(Renewed.retreat) >= 1
         THEN SearchAgain
         ELSE Enter("routes", "last") /\ UNCHANGED error
      /\ Standing /\ Settled

-----------------------------------------------------------------------------
(* Surprises.                                                              *)

(* DriveOnHeading, Spin or BackUp ends by itself: on a collision it        *)
(* foresees, or on a fault.                                                *)
MotionFails ==
  /\ Surprise
  /\ \E e \in {"collision", "fault"} :
       \/ /\ At("driving") /\ error' = [error EXCEPT !.forward = e]
          /\ GoTo("forwardCollision")
       \/ /\ At("spinning") /\ error' = [error EXCEPT !.turn = e]
          /\ GoTo("turnCollision")
       \/ /\ At("reverse") /\ memory.retreat_active
          /\ error' = [error EXCEPT !.backup = e]
          /\ GoTo("available")
  /\ UNCHANGED <<memory, distance, aim>> /\ Standing /\ Outside

(* A condition on data that is not fresh fails and touches nothing.        *)
OnFailure == [recover |-> "giveUp", allowed |-> "routes", forward |-> "turn",
              forwardBegin |-> "forwardCollision",
              driving |-> "forwardCollision",
              forwardComplete |-> "forwardCollision",
              forwardCollision |-> "routes", turn |-> "reverse",
              turnBegin |-> "turnCollision", turnCollision |-> "lostExit",
              reverse |-> "available", available |-> "lostExit",
              stillAvailable |-> "lostExit", lostExit |-> "replan",
              replan |-> "routes"]

StaleData ==
  LET next == CASE At("turn") /\ within = "retreat" -> "stillAvailable"
                [] At("lostExit") /\ within # "retreat" -> "routes"
                [] OTHER -> OnFailure[pc]
  IN  /\ pc \in DOMAIN OnFailure /\ Surprise
      /\ Enter(next, CASE next = "routes" -> "last"
                       [] next = "reverse" -> "retreat"
                       [] OTHER -> within)
      /\ UNCHANGED <<memory, error, distance, aim>> /\ Standing /\ Outside

Running == pc \in {"routes", "following", "driving", "spinning", "reverse"}

(* A new goal reaches the tree between two ticks.  GoalUpdated ends a      *)
(* recovery, and the search starts anew.                                   *)
NewGoal ==
  /\ Running /\ Surprise
  /\ goal' \in Goals \ {goal}
  /\ Enter("routes", "primary") /\ limitAt' = Nowhere
  /\ Standing
  /\ spun' = <<>>
  /\ UNCHANGED <<world, memory, error, distance, aim, retries>>

WorldChanges ==
  /\ pc \notin {"done", "aborted"} /\ Surprise
  /\ world' \in Worlds \ {world}
  /\ Standing
  /\ UNCHANGED <<goal, memory, error, pc, within, distance, aim, limitAt, retries>>

(* Every node but turn_begin leaves the history of turns alone.            *)
Tick ==
  \/ BeginTurn
  \/ UNCHANGED spun /\ (FindRoute \/ NoRoute \/ FollowRoute)
  \/ UNCHANGED spun /\ (Recover \/ AllowRecovery \/ GiveUp)
  \/ UNCHANGED spun /\ (SelectForward \/ BeginForward \/ DriveForward)
  \/ UNCHANGED spun /\ (CompleteForward \/ LeaveForward)
  \/ UNCHANGED spun /\ (SelectTurn \/ Spin \/ AfterSpinCollision \/ LostExit)
  \/ UNCHANGED spun /\ (Reverse \/ Available \/ Replan)

Next ==
  \/ Tick
  \/ NewGoal
  \/ UNCHANGED spun /\ (MotionFails \/ StaleData \/ WorldChanges)

Spec == Init /\ [][Next]_vars

(* The executor ticks the tree; what it waits for ends.                    *)
FairSpec == Spec /\ WF_vars(Tick)
-----------------------------------------------------------------------------
(* Properties.                                                             *)

Poses == Places \X Headings

Memories ==
  [goal : Goals, attempts : Seq(Poses), region : Places \cup {Nowhere},
   adjustments : 0..2, committed : BOOLEAN,
   turn_collision : BOOLEAN, min_retreat : {0, 1},
   failed_forward : BOOLEAN, collision : Poses,
   retreat_active : BOOLEAN, retreat_stopped : BOOLEAN, retreat : Poses,
   forward_stop : BOOLEAN, turn_stop : BOOLEAN,
   goal_facing : BOOLEAN, handoff : BOOLEAN]

Ended == pc \in {"done", "aborted"}

(* Every variable holds a value of its type.                               *)
TypeOK ==
  /\ place \in Places /\ heading \in Headings /\ aim \in Headings
  /\ world \in Worlds /\ goal \in Goals /\ memory \in Memories
  /\ error \in [controller : {"none", "blocked", "fault"},
               forward : {"none", "collision", "fault"},
               turn : {"none", "collision", "fault"},
               backup : {"none", "collision", "fault"}]
  /\ pc \in DOMAIN OnFailure
            \cup {"routes", "following", "spinning", "giveUp", "done", "aborted"}
  /\ within \in {"primary", "again", "forward", "local", "retreat", "last"}
  /\ distance \in 0..Advance /\ limitAt \in Places \cup {Nowhere}
  /\ retries \in 0..2 /\ surprises \in 0..MaxSurprises
  /\ spun \in Seq(Poses)

(* "Never turn a motor timeout, TF failure or unknown fault into reverse   *)
(* motion" (path_footprint_clear_bt_node.cpp:1269): whatever was tried     *)
(* since the error codes were cleared, the robot does not back up after a  *)
(* turn or an advance that ended in a fault.                               *)
FaultsDoNotReverse ==
  At("reverse") => error.turn # "fault" /\ error.forward # "fault"

(* The robot does not turn twice from one place to one heading for the     *)
(* same goal, as long as the turn is among the last MaxAttempts (32) it    *)
(* began, whatever it did in between: the attempt is remembered by         *)
(* odometry, over retreats, replans and the release of a commitment.       *)
TurnsAreNew ==
  [][~At("spinning") /\ pc' = "spinning" => ~Among(<<place, aim>>, spun)]_vars

(* "Rear travel, yaw changes, AMCL corrections and replans cannot release  *)
(* a committed retreat" (escape_memory.hpp:10): only a completed turn to   *)
(* the goal does, or another goal.                                         *)
CommitHolds ==
  [][memory.committed /\ ~memory'.committed =>
       \/ memory'.goal # memory.goal
       \/ At("spinning") /\ aim = Toward[goal]]_vars

(* The local escape does not wander for ever: when the world, the goal and *)
(* the routes have no more surprises, the robot comes to rest.  This is    *)
(* what the memory of attempts and of the region is for.                   *)
ComesToRest == <>[][UNCHANGED pose]_vars

(* Does not hold.  A stopped search "must not become a stationary retry    *)
(* loop" (path_footprint_clear_bt_node.cpp:238): a robot at rest for good  *)
(* has ended its task.                                                     *)
RestIsTheEnd == ComesToRest => <>Ended
=============================================================================
