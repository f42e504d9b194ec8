---------------------------- MODULE RouteControl ----------------------------
(***************************************************************************)
(* How a navigation task searches, chooses and follows a route: the nodes  *)
(* ForwardRouteSearch and PathFootprintClear of the navigation tree        *)
(* (path_footprint_clear_bt_node.cpp), and the controller that follows     *)
(* the route they chose (safe_rotation_rpp.cpp), which tells them over the *)
(* topic stationary_turn_limited when its budget for turning on the spot   *)
(* is spent.                                                               *)
(*                                                                         *)
(* A search runs over many ticks of the tree, and the goal on the          *)
(* blackboard may change between two of them.  The planner answers late,   *)
(* without a route or never.  A route is the goal it leads to and a score; *)
(* whether it passes a check is open.  Rotation is counted in thirds of a  *)
(* turn, translation in places 4 cm or more apart.  The local escape       *)
(* between two searches is EscapeTree; here it moves the robot or not.     *)
(***************************************************************************)
EXTENDS Integers

CONSTANTS Goals,       \* The goals an operator may ask for
          TaskGoals,   \* Those a task starts with
          Class,       \* The goals setPlan() takes for one: 3 cm and 0.05 rad
          Places,      \* Where the robot may stand
          Scores,      \* The motion scores of routes
          Starts,      \* Proposals from the present pose (6)
          Departures,  \* Proposals from a forward departure (24)
          Approaches,  \* Proposals by an approach to the goal (9)
          MaxSweep,    \* Thirds of a turn in StationaryTurnGuard::kMaxSweep
          None,        \* No goal, no place
          MaxNews      \* Bound on new tasks and new goals

ASSUME RouteAssumption ==
  /\ None \notin Goals \cup Places /\ None \notin {Class[g] : g \in Goals}
  /\ None \notin {"sent", "ok", "blocked", "fault"} /\ None \notin BOOLEAN
  /\ TaskGoals \subseteq Goals /\ Scores \subseteq Nat
  /\ Starts \in Nat \ {0} /\ Departures \in Nat /\ Approaches \in Nat
  /\ MaxSweep \in Nat /\ MaxNews \in Nat

VARIABLES
  goal,       \* {goal} on the blackboard
  tree,       \* What the tree is at
  search,     \* The ForwardRouteSearch node that is ticked
  completed,  \* ClearanceData::completed_goal
  limit,      \* ClearanceData: the turn limit as the tree knows it
  mail,       \* The last message on stationary_turn_limited, or None
  route,      \* The goal of the route FollowPath is given, or None
  result,     \* The result of FollowPath the tree has not read
  guard,      \* SafeRotationRPP
  sweeps,     \* The directions the costmap lets the robot turn in;
              \* looked at only while a route is followed
  place,      \* Where the robot stands
  arrived,    \* History: the goal the robot stands at
  news        \* Tasks and goals so far

vars == <<goal, tree, search, completed, limit, mail, route, result, guard,
          sweeps, place, arrived, news>>
robot == <<place, arrived>>
controller == <<route, result, guard, sweeps>>

-----------------------------------------------------------------------------
(* SafeRotationRPP.                                                        *)

(* remaining: the committed rotation, in thirds, with its sign.  turned is *)
(* history: the thirds turned on this spot for this goal.                  *)
NewGuard(class) ==
  [class |-> class, anchor |-> None, swept |-> 0, limited |-> FALSE,
   blocked |-> FALSE, remaining |-> 0, turned |-> 0]

(* setPlan(): the same goal keeps the budget.                              *)
Planned(g) == IF guard.class = Class[g] THEN [guard EXCEPT !.blocked = FALSE]
              ELSE NewGuard(Class[g])

RestedForgetful(c) ==                            \* mutant: also the budget
  [c EXCEPT !.remaining = 0, !.blocked = FALSE, !.swept = 0, !.limited = FALSE]

(* reset(), when FollowPath ends.                                          *)
Rested(c) == [c EXCEPT !.remaining = 0, !.blocked = FALSE]

(* StationaryTurnGuard::update.                                            *)
Updated(c) == IF c.anchor = place THEN [c EXCEPT !.limited = c.swept > MaxSweep]
              ELSE [c EXCEPT !.anchor = place, !.swept = 0, !.limited = FALSE]

Clear(sweep) == (IF sweep > 0 THEN "left" ELSE "right") \in sweeps

(* chooseRotation: the short way, or else the long way.                    *)
Choices(angle) ==
  IF Clear(angle) THEN {angle}
  ELSE {s \in {IF angle > 0 THEN angle - 3 ELSE angle + 3} : Clear(s)}

Turned(c, r) == LET step == IF r > 0 THEN 1 ELSE -1
                IN  [c EXCEPT !.remaining = r - step, !.swept = @ + 1,
                              !.turned = @ + 1]

Throws(c) == guard' = c /\ UNCHANGED robot

RotateUnchecked(c) ==                            \* mutant: checked only once
  guard' = Turned(c, c.remaining) /\ UNCHANGED robot

(* The rotation left after what the last command turned.                   *)
Rotate(c) ==
  IF ~Clear(c.remaining)
  THEN Throws([c EXCEPT !.remaining = 0, !.blocked = TRUE])
  ELSE guard' = Turned(c, c.remaining) /\ UNCHANGED robot

Published(c) == mail' = IF c.limited = guard.limited THEN mail ELSE c.limited

(* computeVelocityCommands(): throw, turn, move or arrive.                 *)
Controls ==
  LET c == Updated(guard)
      free == ~guard.blocked /\ ~c.limited
  IN  /\ route # None /\ result = None
      /\ \/ guard.blocked /\ Throws(guard) /\ UNCHANGED mail
         \/ /\ ~guard.blocked /\ Published(c)
            /\ \/ c.limited /\ Throws([c EXCEPT !.remaining = 0])
               \/ free /\ c.remaining # 0 /\ Rotate(c)
               \/ /\ free /\ c.remaining = 0
                  /\ \/ \E angle \in {-1, 1} :
                          IF Choices(angle) = {}
                          THEN Throws([c EXCEPT !.blocked = TRUE])
                          ELSE /\ \E r \in Choices(angle) : guard' = Turned(c, r)
                               /\ UNCHANGED robot
                     \/ /\ place' \in Places \ {place} /\ arrived' = None
                        /\ guard' = [c EXCEPT !.turned = 0]
                     \/ Throws(c)
      /\ UNCHANGED <<goal, tree, search, completed, limit, route, result, sweeps, news>>

(* The controller server lets FollowPath end: at the goal, or when the     *)
(* controller has thrown for too long, or on a fault.                      *)
FollowEnds ==
  /\ route # None /\ result = None
  /\ \/ /\ guard.remaining = 0 /\ ~guard.blocked /\ ~guard.limited
        /\ result' = "ok" /\ arrived' = route
     \/ result' \in {"blocked", "fault"} /\ UNCHANGED arrived
  /\ guard' = Rested(guard) /\ sweeps' = {"left", "right"}
  /\ UNCHANGED <<goal, tree, search, completed, limit, mail, route, place, news>>

FollowStarts ==
  /\ route # None /\ result = "sent" /\ result' = None
  /\ guard' = Planned(route) /\ Published(Planned(route))
  /\ UNCHANGED <<goal, tree, search, completed, limit, route, sweeps, robot, news>>

CostmapChanges ==
  /\ route # None /\ result = None
  /\ sweeps' \in SUBSET {"left", "right"}
  /\ UNCHANGED <<goal, tree, search, completed, limit, mail, route, result, guard,
                 robot, news>>

-----------------------------------------------------------------------------
(* route_control_available.                                                *)

Delivered == IF mail = limit.limited THEN limit
             ELSE [limit EXCEPT !.limited = mail, !.anchor = None]

(* A goal that differs at all is new here.                                 *)
Anchored(l) == [l EXCEPT !.anchor = IF l.limited /\ @ = None THEN place ELSE @]
Asked(l) ==
  IF l.goal \in {None, goal} THEN Anchored([l EXCEPT !.goal = goal])
  ELSE [limited |-> FALSE, anchor |-> None, goal |-> goal]

(* The check takes in the messages that have come.                         *)
AsksControl ==
  \/ limit' = Asked(limit) /\ UNCHANGED mail
  \/ mail # None /\ limit' = Asked(Delivered) /\ mail' = None
Available == ~(limit'.limited /\ limit'.anchor = place)

-----------------------------------------------------------------------------
(* ForwardRouteSearch.                                                     *)

(* The tree searches as the primary of the RecoveryNode, again in its      *)
(* recovery, and there with forward departures only.                       *)
Kinds == {"primary", "again", "forward"}

Blank(kind) == [kind |-> kind, phase |-> "search", proposal |-> 0, goal |-> None,
                asked |-> None, choices |-> {}, wide |-> 0, late |-> FALSE]

Count(s) == IF s.kind = "forward" THEN Departures
            ELSE CASE s.wide = 0 -> Starts
                   [] s.wide = 1 -> Starts + Departures
                   [] OTHER -> Starts + Departures + Approaches

(* What a tick starts from: a goal that changed cancels the children.      *)
NowForgetful == [search EXCEPT !.goal = goal]    \* mutant: goes on
Now == IF search.goal \in {None, goal} THEN [search EXCEPT !.goal = goal]
       ELSE [Blank(search.kind) EXCEPT !.goal = goal]

Cancels == route' = None /\ result' = None /\ guard' = Rested(guard)
           /\ sweeps' = {"left", "right"}

Restarts == IF search.goal \in {None, goal} THEN UNCHANGED controller ELSE Cancels

(* After the routes from the present pose: forward departures for want of  *)
(* a route or of a short one, approaches for want of a route.              *)
Widened(s) == IF s.kind = "forward" \/ s.proposal # Starts THEN {s}
              ELSE IF s.choices = {} THEN {[s EXCEPT !.wide = 2]}
              ELSE {[s EXCEPT !.wide = w] : w \in {0, 1}}

(* The search is over when its deadline has passed or nothing is left.     *)
OverWithoutDeadline(s) == s.proposal >= Count(s) \* mutant: waits for ever
Over(s) == s.late \/ s.proposal >= Count(s)

Proposed(s) == [s EXCEPT !.proposal = @ + 1, !.asked = None]

(* One proposal: the planner is asked in a tick, and a later tick reads    *)
(* what it found, for the goal it was asked about.                         *)
Seeks(s) == tree = "search" /\ s.phase = "search" /\ ~Over(s)

Ask ==
  /\ Seeks(Now) /\ Now.asked = None
  /\ search' = [Now EXCEPT !.asked = goal] /\ Restarts
  /\ UNCHANGED <<goal, tree, completed, limit, mail, robot, news>>

Answer ==
  LET s == Now
  IN  /\ Seeks(s) /\ s.asked # None
      /\ \/ search' \in Widened(Proposed(s))
         \/ \E score \in Scores :
              search' \in Widened([Proposed(s) EXCEPT !.choices =
                @ \cup {[score |-> score, index |-> s.proposal, goal |-> s.asked]}])
      /\ UNCHANGED <<goal, tree, completed, limit, mail, controller, robot, news>>

Before(a, b) == a.score < b.score \/ (a.score = b.score /\ a.index <= b.index)
Best(s) == {a \in s.choices : \A b \in s.choices : Before(a, b)}

Fails == tree' = "recovery" /\ search' = Blank("primary")

(* The best choice is checked afresh and followed, or dropped.             *)
Choose ==
  LET s == Now
  IN  /\ tree = "search"
      /\ s.phase = "validate" \/ (s.phase = "search" /\ Over(s))
      /\ \/ s.choices = {} /\ Fails /\ Restarts /\ UNCHANGED <<limit, mail>>
         \/ \E best \in Best(s) :
              \/ /\ search' = [s EXCEPT !.phase = "validate", !.choices = @ \ {best},
                                        !.asked = None]
                 /\ Restarts /\ UNCHANGED <<tree, limit, mail>>
              \/ /\ AsksControl
                 /\ \/ /\ Available
                       /\ search' = [s EXCEPT !.phase = "execute", !.asked = None]
                       /\ route' = best.goal /\ result' = "sent"
                       /\ UNCHANGED <<tree, guard, sweeps>>
                    \/ Fails /\ Restarts
      /\ UNCHANGED <<goal, completed, robot, news>>

(* A tick while FollowPath runs: first the checks, then its result.        *)
Execute ==
  /\ tree = "search" /\ Now.phase = "execute"
  /\ AsksControl
  /\ \/ /\ Available /\ result \in {"sent", None}
        /\ search' = Now /\ UNCHANGED <<tree, completed, controller>>
     \/ /\ Available /\ result = "ok"
        /\ completed' = goal /\ search' = Blank("primary")
        /\ tree' = IF search.kind = "primary" THEN "arrived" ELSE "enter"
        /\ Cancels
     \/ Fails /\ Cancels /\ UNCHANGED completed
  /\ UNCHANGED <<goal, robot, news>>

(* The search deadline, set by the first tick.                             *)
Deadline ==
  /\ tree = "search" /\ search.goal # None
  /\ search.phase = "search" /\ ~search.late
  /\ search' = [search EXCEPT !.late = TRUE]
  /\ UNCHANGED <<goal, tree, completed, limit, mail, controller, robot, news>>

-----------------------------------------------------------------------------
(* The tree around the search.                                             *)

Quiet == UNCHANGED <<mail, limit, controller>>

Enter ==
  /\ tree = "enter"
  /\ IF completed = goal THEN tree' = "arrived" /\ UNCHANGED <<search, limit, mail>>
     ELSE /\ AsksControl /\ UNCHANGED search
          /\ tree' = IF Available THEN "search" ELSE "recovery"
  /\ UNCHANGED <<goal, completed, controller, robot, news>>

Recover ==
  /\ tree = "recovery"
  /\ \/ tree' = "enter" /\ \E kind \in Kinds : search' = Blank(kind)
     \/ tree' = "aborted" /\ UNCHANGED search
  /\ UNCHANGED <<goal, completed, robot, news>> /\ Quiet

(* The escape, or an operator between two tasks, moves the robot or turns  *)
(* it on the spot.                                                         *)
Moved ==
  /\ tree \in {"idle", "recovery"}
  /\ \/ /\ place' \in Places /\ arrived' = None
        /\ guard' = IF place' = place THEN guard ELSE [guard EXCEPT !.turned = 0]
     \/ /\ guard.anchor = place /\ guard.swept <= MaxSweep
        /\ guard' = [guard EXCEPT !.swept = @ + 1]
        /\ UNCHANGED robot
  /\ UNCHANGED <<goal, tree, search, completed, limit, mail, route, result, sweeps, news>>

(* A task starts with a cleared history (ResetEscapeState).                *)
StartKeeping(g) ==                               \* mutant: completed_goal stays
  /\ tree = "idle" /\ news < MaxNews
  /\ goal' = g /\ tree' = "enter" /\ search' = Blank("primary")
  /\ news' = news + 1 /\ UNCHANGED <<completed, robot>> /\ Quiet
Start(g) ==
  /\ tree = "idle" /\ news < MaxNews
  /\ goal' = g /\ tree' = "enter" /\ search' = Blank("primary")
  /\ completed' = None
  /\ news' = news + 1 /\ UNCHANGED robot /\ Quiet

(* A new goal reaches the tree between two ticks.  In the recovery         *)
(* GoalUpdated halts what runs and leads back to the primary.              *)
NewGoal(g) ==
  /\ tree \in {"search", "recovery"} /\ news < MaxNews /\ g # goal
  /\ goal' = g /\ news' = news + 1
  /\ IF tree = "search" /\ search.kind = "primary"
     THEN UNCHANGED <<tree, search, controller>>
     ELSE tree' = "enter" /\ search' = Blank("primary") /\ Cancels
  /\ UNCHANGED <<completed, limit, mail, robot>>

Finish ==
  /\ tree \in {"arrived", "aborted"} /\ tree' = "idle"
  /\ UNCHANGED <<goal, search, completed, robot, news>> /\ Quiet

Init ==
  /\ goal \in TaskGoals /\ tree = "idle" /\ search = Blank("primary")
  /\ completed = None /\ mail = None /\ route = None /\ result = None
  /\ limit = [limited |-> FALSE, anchor |-> None, goal |-> None]
  /\ guard = NewGuard(None) /\ sweeps = {"left", "right"}
  /\ place \in Places /\ arrived = None /\ news = 0

Tick == Ask \/ Choose \/ Execute \/ Enter

Next ==
  \/ Ask \/ Answer \/ Choose \/ Execute \/ Enter \/ Deadline
  \/ Recover \/ Moved \/ Finish
  \/ \E g \in TaskGoals : Start(g)
  \/ \E g \in Goals : NewGoal(g)
  \/ FollowStarts \/ Controls \/ FollowEnds \/ CostmapChanges

Spec == Init /\ [][Next]_vars

(* The executor ticks the tree and the clock goes on.  The planner need    *)
(* not answer, and the controller need not do anything.                    *)
FairSpec == Spec /\ WF_vars(Tick) /\ WF_vars(Deadline)

-----------------------------------------------------------------------------
(* Properties.                                                             *)

Routes == [score : Scores, index : Nat, goal : Goals]

Searches == [kind : Kinds, phase : {"search", "validate", "execute"},
             proposal : Nat, goal : Goals \cup {None},
             asked : Goals \cup {None}, choices : SUBSET Routes,
             wide : 0..2, late : BOOLEAN]

Guards == [class : {Class[g] : g \in Goals} \cup {None},
           anchor : Places \cup {None}, swept : 0..MaxSweep + 1,
           limited : BOOLEAN, blocked : BOOLEAN, remaining : -2..2,
           turned : Nat]

(* Every variable holds a value of its type.                               *)
TypeOK ==
  /\ goal \in Goals
  /\ tree \in {"idle", "enter", "search", "recovery", "arrived", "aborted"}
  /\ search \in Searches /\ guard \in Guards
  /\ completed \in Goals \cup {None} /\ route \in Goals \cup {None}
  /\ limit \in [limited : BOOLEAN, anchor : Places \cup {None},
                goal : Goals \cup {None}]
  /\ mail \in BOOLEAN \cup {None}
  /\ result \in {None, "sent", "ok", "blocked", "fault"}
  /\ sweeps \subseteq {"left", "right"}
  /\ place \in Places /\ arrived \in Goals \cup {None}

(* What FollowPath is given, and every route that may still be chosen,     *)
(* leads to the goal of the tick that gave it: no candidate and no late    *)
(* answer of the planner outlives a change of the goal in a search that    *)
(* runs over many ticks.                                                   *)
RouteIsForGoal ==
  /\ route # None => tree = "search" /\ route = search.goal
  /\ \A c \in search.choices : c.goal = search.goal

(* The task succeeds only where FollowPath has arrived at its goal and the *)
(* robot has not moved since: a completed goal outlives neither its task   *)
(* nor a new goal.                                                         *)
NoFalseArrival == tree = "arrived" => arrived = goal

(* However often a route to the goal is planned, followed and aborted, the *)
(* robot turns on one spot no farther than the budget: "Replanning the     *)
(* same goal must not erase this budget" (rotation_sweep.hpp:20).          *)
TurnBudgetKept == guard.turned <= MaxSweep + 1

(* A committed rotation goes on only while what is left of it is clear of  *)
(* the obstacles the costmap shows by then.                                *)
CommittedTurnIsClear ==
  [][guard.remaining # 0 /\ guard'.turned > guard.turned
       => Clear(guard.remaining)]_vars

(* A search ends, whether the planner answers or not.                      *)
SearchEnds ==
  tree = "search" /\ search.phase = "search"
    ~> ~(tree = "search" /\ search.phase = "search")
=============================================================================
