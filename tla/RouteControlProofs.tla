------------------------- MODULE RouteControlProofs -------------------------
(* Proofs about RouteControl, for any goals, places, numbers of proposals  *)
(* and budget.                                                             *)
EXTENDS RouteControl, TLAPS

(* The controller.  Each lemma says of one way to change it that it stays  *)
(* one, and what becomes of the budget: the thirds turned here are among   *)
(* those swept since the anchor, which is where the robot stands.          *)
Within(c, p) == /\ c \in Guards
                /\ c.anchor = p => c.turned <= c.swept
                /\ c.anchor # p => c.turned = 0

LEMMA NewGuardWithin ==
  ASSUME NEW g \in Goals \cup {None}, NEW p \in Places
  PROVE  Within(NewGuard(IF g = None THEN None ELSE Class[g]), p)
  BY RouteAssumption DEF NewGuard, Within, Guards

LEMMA BlockedWithin ==
  ASSUME NEW p, NEW c, Within(c, p), NEW b \in BOOLEAN
  PROVE  Within([c EXCEPT !.blocked = b], p)
  BY DEF Within, Guards

LEMMA StoppedWithin ==
  ASSUME NEW p, NEW c, Within(c, p)
  PROVE  Within([c EXCEPT !.remaining = 0], p)
  BY DEF Within, Guards

LEMMA StoppedBlockedWithin ==
  ASSUME NEW p, NEW c, Within(c, p), NEW b \in BOOLEAN
  PROVE  Within([c EXCEPT !.remaining = 0, !.blocked = b], p)
<1> DEFINE s == [c EXCEPT !.remaining = 0]
<1>1. Within(s, p)
  BY StoppedWithin
<1>2. [c EXCEPT !.remaining = 0, !.blocked = b] = [s EXCEPT !.blocked = b]
  OBVIOUS
<1> HIDE DEF s
<1> QED
  BY <1>1, <1>2, BlockedWithin

LEMMA RestedWithin ==
  ASSUME NEW p, NEW c, Within(c, p)
  PROVE  Within(Rested(c), p)
  BY StoppedBlockedWithin DEF Rested

LEMMA PlannedWithin ==
  ASSUME NEW g \in Goals, place \in Places, Within(guard, place)
  PROVE  Within(Planned(g), place)
  BY BlockedWithin, NewGuardWithin, RouteAssumption DEF Planned

LEMMA MovedWithin ==
  ASSUME NEW p, NEW q, NEW c, Within(c, p)
  PROVE  Within([c EXCEPT !.turned = 0], q)
  BY RouteAssumption DEF Within, Guards

LEMMA UpdatedWithin ==
  ASSUME place \in Places, NEW c, Within(c, place)
  PROVE  /\ Within(Updated(c), place) /\ Updated(c).anchor = place
         /\ Updated(c).remaining = c.remaining
         /\ Updated(c).turned = c.turned
         /\ ~Updated(c).limited => Updated(c).swept <= MaxSweep
<1> MaxSweep \in Nat
  BY RouteAssumption
<1>1. CASE c.anchor = place
  <2> DEFINE spent == c.swept > MaxSweep
             d == [c EXCEPT !.limited = spent]
  <2>1. spent \in BOOLEAN
    OBVIOUS
  <2>2. d \in Guards
    <3> HIDE DEF spent
    <3> QED
      BY <2>1 DEF Within, Guards
  <2>3. /\ d.anchor = place /\ d.turned = c.turned /\ d.swept = c.swept
        /\ d.remaining = c.remaining /\ (d.limited <=> spent)
    BY <1>1 DEF Within, Guards
  <2>4. Updated(c) = d
    BY <1>1 DEF Updated
  <2>5. c.turned <= c.swept /\ c.swept \in Nat
    BY <1>1 DEF Within, Guards
  <2>6. ~spent => c.swept <= MaxSweep
    BY <2>5
  <2> HIDE DEF d, spent
  <2> QED
    BY <1>1, <2>2, <2>3, <2>4, <2>5, <2>6 DEF Within
<1>2. CASE c.anchor # place
  <2> DEFINE a == [c EXCEPT !.anchor = place]
             b == [a EXCEPT !.swept = 0]
             d == [b EXCEPT !.limited = FALSE]
  <2>1. a \in Guards
    BY <1>2 DEF Within, Guards
  <2>2. \A x \in Guards : [x EXCEPT !.limited = FALSE] \in Guards
    BY DEF Guards
  <2> 0 \in 0..MaxSweep + 1
    OBVIOUS
  <2>6. \A x \in Guards, i \in 0..MaxSweep + 1 : [x EXCEPT !.swept = i] \in Guards
    BY DEF Guards
  <2>3. /\ d.anchor = place /\ d.turned = c.turned /\ d.swept = 0
        /\ d.remaining = c.remaining
    BY DEF Within, Guards
  <2>4. d \in Guards
    <3> HIDE DEF a
    <3>1. b \in Guards
      BY <2>1, <2>6
    <3> HIDE DEF b
    <3> QED
      BY <2>2, <3>1
  <2>5. Updated(c) = d
    BY <1>2 DEF Updated
  <2> HIDE DEF d
  <2> QED
    BY <1>2, <2>3, <2>4, <2>5 DEF Within, Guards
<1> QED
  BY <1>1, <1>2

LEMMA TurnedWithin ==
  ASSUME NEW p, NEW c, Within(c, p), c.anchor = p, c.swept <= MaxSweep,
         NEW r \in -2..2, r # 0
  PROVE  Within(Turned(c, r), p)
<1> MaxSweep \in Nat
  BY RouteAssumption
<1> DEFINE step == IF r > 0 THEN 1 ELSE -1
           n == r - step
           a == [c EXCEPT !.remaining = n]
           b == [a EXCEPT !.swept = c.swept + 1]
           d == [b EXCEPT !.turned = c.turned + 1]
<1>1. n \in -2..2 /\ c.swept + 1 \in 0..MaxSweep + 1 /\ c.turned + 1 \in Nat
  BY DEF Within, Guards
<1>2. Turned(c, r) = d
  BY DEF Turned
<1>3. /\ \A x \in Guards, i \in -2..2 : [x EXCEPT !.remaining = i] \in Guards
      /\ \A x \in Guards, i \in 0..MaxSweep + 1 : [x EXCEPT !.swept = i] \in Guards
      /\ \A x \in Guards, i \in Nat : [x EXCEPT !.turned = i] \in Guards
  BY DEF Guards
<1>4. d.anchor = p /\ d.swept = c.swept + 1 /\ d.turned = c.turned + 1
  BY DEF Within, Guards
<1>5. d \in Guards
  <2> HIDE DEF n
  <2>1. a \in Guards
    BY <1>1, <1>3 DEF Within
  <2> HIDE DEF a
  <2>2. b \in Guards
    BY <1>1, <1>3, <2>1
  <2> HIDE DEF b
  <2> QED
    BY <1>1, <1>3, <2>2
<1> HIDE DEF d
<1> QED
  BY <1>1, <1>2, <1>4, <1>5 DEF Within, Guards

-----------------------------------------------------------------------------
(* The search.                                                             *)

(* What is kept of a search was asked for and found for one goal.          *)
ForOneGoal(s) ==
  /\ s \in Searches
  /\ s.asked # None => s.asked = s.goal
  /\ \A c \in s.choices : c.goal = s.goal

LEMMA BlankSearch ==
  ASSUME NEW kind \in Kinds
  PROVE  /\ Blank(kind) \in Searches /\ ForOneGoal(Blank(kind))
         /\ Blank(kind).goal = None /\ Blank(kind).phase = "search"
  BY DEF Blank, Searches, ForOneGoal

LEMMA SearchFields ==
  ASSUME NEW s \in Searches
  PROVE  /\ \A g \in Goals \cup {None} : [s EXCEPT !.goal = g] \in Searches
         /\ \A g \in Goals \cup {None} : [s EXCEPT !.asked = g] \in Searches
         /\ \A p \in {"search", "validate", "execute"} : [s EXCEPT !.phase = p] \in Searches
         /\ \A c \in SUBSET Routes : [s EXCEPT !.choices = c] \in Searches
         /\ \A n \in Nat : [s EXCEPT !.proposal = n] \in Searches
         /\ \A w \in 0..2 : [s EXCEPT !.wide = w] \in Searches
         /\ [s EXCEPT !.late = TRUE] \in Searches
<1>1. \A g \in Goals \cup {None} : [s EXCEPT !.goal = g] \in Searches
  BY DEF Searches
<1>2. \A g \in Goals \cup {None} : [s EXCEPT !.asked = g] \in Searches
  BY DEF Searches
<1>3. \A p \in {"search", "validate", "execute"} : [s EXCEPT !.phase = p] \in Searches
  BY DEF Searches
<1>4. \A c \in SUBSET Routes : [s EXCEPT !.choices = c] \in Searches
  BY DEF Searches
<1>5. \A n \in Nat : [s EXCEPT !.proposal = n] \in Searches
  BY DEF Searches
<1>6. \A w \in 0..2 : [s EXCEPT !.wide = w] \in Searches
  BY DEF Searches
<1>7. [s EXCEPT !.late = TRUE] \in Searches
  BY DEF Searches
<1> QED
  BY <1>1, <1>2, <1>3, <1>4, <1>5, <1>6, <1>7

LEMMA NowForGoal ==
  ASSUME ForOneGoal(search), goal \in Goals
  PROVE  /\ ForOneGoal(Now) /\ Now.goal = goal
         /\ Now.phase # "search" => search.goal = goal \/ search.goal = None
         /\ search.goal = goal => Now = search
<1>1. CASE search.goal \in {None, goal}
  <2> DEFINE s == [search EXCEPT !.goal = goal]
  <2>1. Now = s
    BY <1>1 DEF Now
  <2>2. /\ s.goal = goal /\ s.asked = search.asked
        /\ s.choices = search.choices /\ s.phase = search.phase
        /\ search.goal = goal => s = search
    BY DEF ForOneGoal, Searches
  <2>3. s \in Searches
    BY SearchFields DEF ForOneGoal
  <2>4. search.goal = None => search.asked = None /\ search.choices = {}
    BY RouteAssumption DEF ForOneGoal, Searches, Routes
  <2> HIDE DEF s
  <2> QED
    BY <1>1, <2>1, <2>2, <2>3, <2>4 DEF ForOneGoal
<1>2. CASE search.goal \notin {None, goal}
  <2> DEFINE b == Blank(search.kind)
             s == [b EXCEPT !.goal = goal]
  <2>1. Now = s
    BY <1>2 DEF Now
  <2>2. b \in Searches
    BY BlankSearch DEF ForOneGoal, Searches
  <2>3. /\ s.goal = goal /\ s.asked = None /\ s.choices = {}
        /\ s.phase = "search"
    BY DEF Blank
  <2>4. s \in Searches
    <3> HIDE DEF b
    <3> QED
      BY <2>2, SearchFields
  <2> HIDE DEF s
  <2> QED
    BY <1>2, <2>1, <2>3, <2>4 DEF ForOneGoal
<1> QED
  BY <1>1, <1>2

LEMMA WidenedForGoal ==
  ASSUME NEW s, ForOneGoal(s), NEW w \in Widened(s)
  PROVE  ForOneGoal(w) /\ w.goal = s.goal /\ w.phase = s.phase
<1>1. w = s \/ \E n \in 0..2 : w = [s EXCEPT !.wide = n]
  BY DEF Widened
<1>2. ASSUME NEW n \in 0..2, w = [s EXCEPT !.wide = n]
      PROVE  ForOneGoal(w) /\ w.goal = s.goal /\ w.phase = s.phase
  <2>1. w \in Searches
    BY <1>2, SearchFields DEF ForOneGoal
  <2>2. /\ w.goal = s.goal /\ w.asked = s.asked /\ w.choices = s.choices
        /\ w.phase = s.phase
    BY <1>2 DEF ForOneGoal, Searches
  <2> QED
    BY <2>1, <2>2 DEF ForOneGoal
<1> QED
  BY <1>1, <1>2

LEMMA ProposedForGoal ==
  ASSUME NEW s, ForOneGoal(s)
  PROVE  /\ ForOneGoal(Proposed(s)) /\ Proposed(s).goal = s.goal
         /\ Proposed(s).phase = s.phase /\ Proposed(s).choices = s.choices
<1> DEFINE n == s.proposal + 1
           a == [s EXCEPT !.proposal = n]
           b == [a EXCEPT !.asked = None]
<1>1. n \in Nat /\ s \in Searches
  BY DEF ForOneGoal, Searches
<1>2. Proposed(s) = b
  BY DEF Proposed
<1>3. /\ b.goal = s.goal /\ b.phase = s.phase /\ b.choices = s.choices
      /\ b.asked = None
  BY <1>1 DEF Searches
<1>4. b \in Searches
  <2> HIDE DEF n
  <2>1. a \in Searches
    BY <1>1, SearchFields
  <2> HIDE DEF a
  <2> QED
    BY <2>1, SearchFields
<1> HIDE DEF b
<1> QED
  BY <1>2, <1>3, <1>4 DEF ForOneGoal

LEMMA ChoicesForGoal ==
  ASSUME NEW s, ForOneGoal(s), NEW c \in SUBSET Routes,
         \A r \in c : r.goal = s.goal
  PROVE  /\ ForOneGoal([s EXCEPT !.choices = c])
         /\ [s EXCEPT !.choices = c].goal = s.goal
         /\ [s EXCEPT !.choices = c].phase = s.phase
<1> DEFINE t == [s EXCEPT !.choices = c]
<1>1. t \in Searches
  BY SearchFields DEF ForOneGoal
<1>2. t.goal = s.goal /\ t.asked = s.asked /\ t.choices = c /\ t.phase = s.phase
  BY DEF ForOneGoal, Searches
<1> HIDE DEF t
<1>3. ForOneGoal(t)
  BY <1>1, <1>2 DEF ForOneGoal
<1> QED
  BY <1>2, <1>3 DEF t

LEMMA PhaseForGoal ==
  ASSUME NEW s, ForOneGoal(s), NEW p \in {"search", "validate", "execute"}
  PROVE  LET t == [s EXCEPT !.phase = p, !.asked = None]
         IN  ForOneGoal(t) /\ t.goal = s.goal /\ t.phase = p /\ t.choices = s.choices
<1> DEFINE a == [s EXCEPT !.phase = p]
           b == [a EXCEPT !.asked = None]
<1>1. a \in Searches
  BY SearchFields DEF ForOneGoal
<1>2. b \in Searches
  <2> HIDE DEF a
  <2> QED
    BY <1>1, SearchFields
<1>3. b.goal = s.goal /\ b.asked = None /\ b.choices = s.choices /\ b.phase = p
  BY DEF ForOneGoal, Searches
<1>4. [s EXCEPT !.phase = p, !.asked = None] = b
  OBVIOUS
<1> HIDE DEF b
<1>5. ForOneGoal(b)
  BY <1>2, <1>3 DEF ForOneGoal
<1> QED
  BY <1>3, <1>4, <1>5

-----------------------------------------------------------------------------
(* The invariant.                                                          *)

(* A route is followed only by a search that executes, and leads to the    *)
(* goal of that search.                                                    *)
Following ==
  /\ ForOneGoal(search)
  /\ route # None => /\ tree = "search" /\ search.phase = "execute"
                     /\ route = search.goal
  /\ result # None => route # None

(* An arrival that is reported is one at the goal followed, and what is    *)
(* completed stays so till the tree has left the task.                     *)
Arriving ==
  /\ result = "ok" => arrived = route
  /\ tree = "arrived" => arrived = goal
  /\ completed # None => \/ tree \in {"arrived", "idle"}
                         \/ tree = "enter" /\ completed = goal /\ arrived = goal

IInv == TypeOK /\ Following /\ Arriving /\ Within(guard, place)

LEMMA LimitType ==
  ASSUME TypeOK, AsksControl
  PROVE  /\ limit' \in [limited : BOOLEAN, anchor : Places \cup {None},
                        goal : Goals \cup {None}]
         /\ mail' \in BOOLEAN \cup {None}
<1> DEFINE Limits == [limited : BOOLEAN, anchor : Places \cup {None},
                      goal : Goals \cup {None}]
<1>1. limit \in Limits /\ goal \in Goals /\ place \in Places
  BY DEF TypeOK
<1>2. ASSUME NEW l \in Limits
      PROVE  Asked(l) \in Limits
  BY <1>1 DEF Asked, Anchored
<1>3. mail # None => Delivered \in Limits
  BY <1>1 DEF Delivered, TypeOK
<1> QED
  BY <1>1, <1>2, <1>3 DEF AsksControl, TypeOK

(* What a tick does to the controller: nothing, or FollowPath ends.        *)
LEMMA Handles ==
  ASSUME IInv, Restarts \/ Cancels
  PROVE  /\ Within(guard', place) /\ sweeps' \subseteq {"left", "right"}
         /\ route' \in Goals \cup {None}
         /\ result' \in {None, "sent", "ok", "blocked", "fault"}
         /\ (route' = None /\ result' = None) \/ UNCHANGED <<route, result>>
         /\ search.goal # None /\ search.goal # goal => route' = None
<1>1. Within(Rested(guard), place)
  BY RestedWithin DEF IInv
<1> QED
  BY <1>1 DEF Restarts, Cancels, controller, IInv, TypeOK

(* A route that is followed leads to the present goal of the search, so a  *)
(* search that is restarted or still seeks follows none.                   *)
LEMMA NoneWhileSeeking ==
  ASSUME IInv, Restarts, Now.phase # "execute"
  PROVE  route' = None
<1>1. ForOneGoal(search) /\ goal \in Goals
  BY DEF IInv, TypeOK, Following
<1>2. CASE search.goal = None
  BY <1>2, RouteAssumption DEF IInv, TypeOK, Following, Restarts, controller
<1>3. CASE search.goal = goal
  BY <1>1, <1>3, NowForGoal DEF IInv, Following, Restarts, controller
<1>4. CASE search.goal # None /\ search.goal # goal
  BY <1>4, Handles
<1> QED
  BY <1>2, <1>3, <1>4

LEMMA AskStep ==
  ASSUME IInv, Ask
  PROVE  IInv'
<1>1. ForOneGoal(search) /\ goal \in Goals /\ route' = None
  BY NoneWhileSeeking DEF IInv, TypeOK, Following, Ask, Seeks
<1>2. ForOneGoal(search')
  <2> DEFINE s == [Now EXCEPT !.asked = goal]
  <2>1. ForOneGoal(Now) /\ Now.goal = goal
    BY <1>1, NowForGoal
  <2>2. s \in Searches
    BY <1>1, <2>1, SearchFields DEF ForOneGoal
  <2>3. s.goal = goal /\ s.asked = goal /\ s.choices = Now.choices
    BY <2>1 DEF ForOneGoal, Searches
  <2>4. search' = s
    BY DEF Ask
  <2> HIDE DEF s
  <2> QED
    BY <2>1, <2>2, <2>3, <2>4 DEF ForOneGoal
<1>3. /\ Within(guard', place) /\ sweeps' \subseteq {"left", "right"}
      /\ result' \in {None, "sent", "ok", "blocked", "fault"}
      /\ result' = None \/ UNCHANGED <<route, result>>
  BY Handles DEF Ask
<1>4. UNCHANGED <<goal, tree, completed, limit, mail, robot, news>>
  BY DEF Ask
<1>5. TypeOK'
  BY <1>1, <1>2, <1>3, <1>4 DEF IInv, TypeOK, ForOneGoal, Within, robot
<1>6. Following'
  BY <1>1, <1>2, <1>3 DEF IInv, Following
<1>7. Arriving'
  BY <1>1, <1>3, <1>4, RouteAssumption DEF IInv, Arriving, robot
<1>8. Within(guard, place)'
  BY <1>3, <1>4 DEF Within, robot
<1> QED
  BY <1>5, <1>6, <1>7, <1>8 DEF IInv

LEMMA AnswerStep ==
  ASSUME IInv, Answer
  PROVE  IInv'
<1>1. ForOneGoal(search) /\ goal \in Goals
  BY DEF IInv, TypeOK, Following
<1>2. ForOneGoal(Now) /\ Now.goal = goal /\ Now.asked = goal
  BY <1>1, NowForGoal DEF ForOneGoal, Answer
<1>3. ForOneGoal(Proposed(Now)) /\ Proposed(Now).goal = goal
  BY <1>2, ProposedForGoal
<1>4. ForOneGoal(search')
  <2>1. CASE search' \in Widened(Proposed(Now))
    BY <1>3, <2>1, WidenedForGoal
  <2>2. ASSUME NEW score \in Scores,
               search' \in Widened([Proposed(Now) EXCEPT !.choices =
                 @ \cup {[score |-> score, index |-> Now.proposal, goal |-> Now.asked]}])
        PROVE  ForOneGoal(search')
    <3> DEFINE r == [score |-> score, index |-> Now.proposal, goal |-> Now.asked]
               c == Proposed(Now).choices \cup {r}
    <3>1. r \in Routes /\ r.goal = goal
      BY <1>1, <1>2 DEF Routes, ForOneGoal, Searches
    <3>2. /\ Proposed(Now).choices \in SUBSET Routes
          /\ \A x \in Proposed(Now).choices : x.goal = goal
      BY <1>3 DEF ForOneGoal, Searches
    <3> HIDE DEF r
    <3>3. c \in SUBSET Routes /\ \A x \in c : x.goal = goal
      BY <3>1, <3>2
    <3>4. search' \in Widened([Proposed(Now) EXCEPT !.choices = c])
      BY <2>2 DEF r
    <3> HIDE DEF c
    <3> QED
      BY <1>3, <3>3, <3>4, ChoicesForGoal, WidenedForGoal
  <2> QED
    BY <2>1, <2>2 DEF Answer
<1>5. route = None
  <2>1. search.goal = goal
    BY <1>1, <1>2, RouteAssumption DEF Answer, Now, Blank, ForOneGoal, Searches
  <2> QED
    BY <1>1, <2>1, NowForGoal DEF Answer, Seeks, IInv, Following
<1>6. UNCHANGED <<goal, tree, completed, limit, mail, controller, robot, news>>
  BY DEF Answer
<1> QED
  BY <1>4, <1>5, <1>6 DEF IInv, TypeOK, Following, Arriving, ForOneGoal, Within,
                          controller, robot

LEMMA ChooseStep ==
  ASSUME IInv, Choose
  PROVE  IInv'
<1>1. ForOneGoal(search) /\ goal \in Goals
  BY DEF IInv, TypeOK, Following
<1>2. ForOneGoal(Now) /\ Now.goal = goal /\ Now.phase # "execute" /\ tree = "search"
  BY <1>1, NowForGoal DEF Choose
<1>3. Restarts => route' = None
  BY <1>2, NoneWhileSeeking
<1>4. completed = None /\ UNCHANGED <<goal, completed, robot, news>>
  BY <1>2 DEF Choose, IInv, Arriving
<1>5. CASE Fails /\ Restarts /\ (UNCHANGED <<limit, mail>> \/ AsksControl)
  <2>1. ForOneGoal(search') /\ tree' = "recovery"
    BY <1>5, BlankSearch DEF Fails, Kinds
  <2>2. /\ Within(guard', place) /\ sweeps' \subseteq {"left", "right"}
        /\ result' \in {None, "sent", "ok", "blocked", "fault"}
        /\ result' = None \/ UNCHANGED <<route, result>>
    BY <1>5, Handles
  <2>3. TypeOK'
    BY <1>1, <1>3, <1>4, <1>5, <2>1, <2>2, LimitType
       DEF IInv, TypeOK, ForOneGoal, Within, robot
  <2>4. Following'
    BY <1>3, <1>5, <2>1, <2>2 DEF IInv, Following
  <2>5. Arriving'
    BY <1>3, <1>4, <1>5, <2>1, <2>2, RouteAssumption DEF IInv, Arriving, robot
  <2>6. Within(guard, place)'
    BY <1>4, <2>2 DEF Within, robot
  <2> QED
    BY <2>3, <2>4, <2>5, <2>6 DEF IInv
<1>6. ASSUME NEW best \in Best(Now),
             search' = [Now EXCEPT !.phase = "validate", !.choices = @ \ {best},
                                   !.asked = None],
             Restarts, UNCHANGED <<tree, limit, mail>>
      PROVE  IInv'
  <2>1. ForOneGoal(search')
    <3> DEFINE c == Now.choices \ {best}
               s == [Now EXCEPT !.phase = "validate", !.asked = None]
    <3>1. search' = [s EXCEPT !.choices = c]
      BY <1>6
    <3>2. ForOneGoal(s) /\ s.goal = goal
      BY <1>2, PhaseForGoal
    <3>3. c \in SUBSET Routes /\ \A r \in c : r.goal = goal
      BY <1>2 DEF ForOneGoal, Searches
    <3> HIDE DEF s, c
    <3> QED
      BY <3>1, <3>2, <3>3, ChoicesForGoal
  <2>2. /\ Within(guard', place) /\ sweeps' \subseteq {"left", "right"}
        /\ result' \in {None, "sent", "ok", "blocked", "fault"}
        /\ result' = None \/ UNCHANGED <<route, result>>
    BY <1>6, Handles
  <2>3. TypeOK'
    BY <1>1, <1>3, <1>4, <1>6, <2>1, <2>2 DEF IInv, TypeOK, ForOneGoal, Within, robot
  <2>4. Following'
    BY <1>3, <1>6, <2>1, <2>2 DEF IInv, Following
  <2>5. Arriving'
    BY <1>2, <1>3, <1>4, <1>6, <2>2, RouteAssumption DEF IInv, Arriving, robot
  <2>6. Within(guard, place)'
    BY <1>4, <2>2 DEF Within, robot
  <2> QED
    BY <2>3, <2>4, <2>5, <2>6 DEF IInv
<1>7. ASSUME NEW best \in Best(Now), AsksControl,
             search' = [Now EXCEPT !.phase = "execute", !.asked = None],
             route' = best.goal, result' = "sent",
             UNCHANGED <<tree, guard, sweeps>>
      PROVE  IInv'
  <2>1. best.goal = goal
    BY <1>2 DEF Best, ForOneGoal
  <2>2. ForOneGoal(search') /\ search'.goal = goal /\ search'.phase = "execute"
    BY <1>2, <1>7, PhaseForGoal
  <2>3. TypeOK'
    BY <1>1, <1>4, <1>7, <2>1, <2>2, LimitType DEF IInv, TypeOK, ForOneGoal, robot
  <2>4. Following'
    BY <1>1, <1>2, <1>7, <2>1, <2>2, RouteAssumption DEF Following
  <2>5. Arriving'
    BY <1>2, <1>4, <1>7, RouteAssumption DEF IInv, Arriving, robot
  <2>6. Within(guard, place)'
    BY <1>4, <1>7 DEF IInv, Within, robot
  <2> QED
    BY <2>3, <2>4, <2>5, <2>6 DEF IInv
<1> QED
  BY <1>5, <1>6, <1>7 DEF Choose

LEMMA ExecuteStep ==
  ASSUME IInv, Execute
  PROVE  IInv'
<1>1. ForOneGoal(search) /\ goal \in Goals /\ tree = "search" /\ AsksControl
  BY DEF IInv, TypeOK, Following, Execute
<1>2. ForOneGoal(Now) /\ search.goal \in {None, goal} /\ search.phase = "execute"
  BY <1>1, NowForGoal DEF Execute, Now, Blank
<1>3. UNCHANGED <<goal, place, arrived, news>> /\ completed = None
  BY <1>1 DEF Execute, robot, IInv, Arriving
<1>4. CASE search' = Now /\ UNCHANGED <<tree, completed, controller>>
  <2>1. TypeOK'
    BY <1>1, <1>2, <1>3, <1>4, LimitType DEF IInv, TypeOK, ForOneGoal, controller
  <2>2. search.goal = goal \/ route = None
    BY <1>2, RouteAssumption DEF IInv, TypeOK, Following
  <2>3. Following'
    BY <1>1, <1>2, <1>4, <2>2, NowForGoal DEF IInv, Following, controller
  <2>4. Arriving' /\ Within(guard, place)'
    BY <1>1, <1>3, <1>4 DEF IInv, Arriving, Within, controller
  <2> QED
    BY <2>1, <2>3, <2>4 DEF IInv
<1>5. CASE /\ Cancels /\ search' = Blank("primary")
           /\ \/ tree' = "recovery" /\ UNCHANGED completed
              \/ /\ result = "ok" /\ completed' = goal
                 /\ tree' \in {"arrived", "enter"}
  <2>1. ForOneGoal(search')
    BY <1>5, BlankSearch DEF Kinds
  <2>2. /\ Within(guard', place) /\ sweeps' \subseteq {"left", "right"}
        /\ route' = None /\ result' = None
    BY <1>5, Handles DEF Cancels
  <2>3. result = "ok" => arrived = goal
    BY <1>2, RouteAssumption DEF IInv, TypeOK, Arriving, Following
  <2>4. TypeOK'
    BY <1>1, <1>3, <1>5, <2>1, <2>2, LimitType DEF IInv, TypeOK, ForOneGoal, Within
  <2>5. Following'
    BY <2>1, <2>2 DEF Following
  <2>6. Arriving'
    BY <1>3, <1>5, <2>2, <2>3, RouteAssumption DEF Arriving
  <2>7. Within(guard, place)'
    BY <1>3, <2>2 DEF Within
  <2> QED
    BY <2>4, <2>5, <2>6, <2>7 DEF IInv
<1> QED
  BY <1>1, <1>4, <1>5 DEF Execute, Fails

LEMMA TreeStep ==
  ASSUME IInv,
         \/ Enter \/ Deadline \/ Recover \/ Finish
         \/ \E g \in TaskGoals : Start(g)
         \/ \E g \in Goals : NewGoal(g)
  PROVE  IInv'
<1>1. ForOneGoal(search) /\ goal \in Goals /\ Within(guard, place)
  BY DEF IInv, TypeOK, Following
<1>2. \A k \in Kinds : Blank(k) \in Searches /\ ForOneGoal(Blank(k))
  BY BlankSearch
<1> "primary" \in Kinds
  BY DEF Kinds
<1>3. CASE Enter
  <2>1. TypeOK'
    <3>1. UNCHANGED <<limit, mail>> \/ AsksControl
      BY <1>3 DEF Enter
    <3> QED
      BY <1>3, <3>1, LimitType DEF IInv, TypeOK, Enter, controller, robot
  <2>2. Following' /\ Arriving' /\ Within(guard, place)'
    BY <1>1, <1>3, RouteAssumption DEF IInv, TypeOK, Following, Arriving, Within, Enter,
                                      controller, robot
  <2> QED
    BY <2>1, <2>2 DEF IInv
<1>4. CASE Deadline
  <2>1. search' \in Searches
    BY <1>1, <1>4, SearchFields DEF Deadline, ForOneGoal
  <2>2. /\ search'.goal = search.goal /\ search'.asked = search.asked
        /\ search'.choices = search.choices /\ search'.phase = search.phase
    BY <1>1, <1>4 DEF Deadline, ForOneGoal, Searches
  <2>3. ForOneGoal(search')
    BY <1>1, <2>1, <2>2 DEF ForOneGoal
  <2>4. TypeOK'
    BY <1>4, <2>1 DEF IInv, TypeOK, Deadline, controller, robot
  <2>5. Following' /\ Arriving' /\ Within(guard, place)'
    BY <1>1, <1>4, <2>2, <2>3 DEF IInv, Following, Arriving, Within, Deadline,
                                  controller, robot
  <2> QED
    BY <2>4, <2>5 DEF IInv
<1>5. CASE Recover
  <2>1. search' = search \/ \E k \in Kinds : search' = Blank(k)
    BY <1>5 DEF Recover
  <2>2. ForOneGoal(search')
    BY <1>1, <1>2, <2>1
  <2>3. TypeOK'
    BY <1>5, <2>2 DEF IInv, TypeOK, Recover, Quiet, controller, robot, ForOneGoal
  <2>4. Following' /\ Arriving' /\ Within(guard, place)'
    BY <1>1, <1>5, <2>2 DEF IInv, Following, Arriving, Within, Recover, Quiet,
                            controller, robot
  <2> QED
    BY <2>3, <2>4 DEF IInv
<1>6. CASE Finish
  BY <1>6, RouteAssumption DEF IInv, TypeOK, Following, Arriving, Within, Finish, Quiet,
                               controller, robot
<1>7. ASSUME NEW g \in TaskGoals, Start(g)
      PROVE  IInv'
  <2>1. g \in Goals /\ ForOneGoal(search') /\ search' \in Searches
    BY <1>2, <1>7, RouteAssumption DEF Start
  <2>2. route = None
    BY <1>7 DEF Start, IInv, Following
  <2>3. TypeOK'
    BY <1>7, <2>1 DEF IInv, TypeOK, Start, Quiet, controller, robot
  <2>4. Following' /\ Arriving' /\ Within(guard, place)'
    BY <1>7, <2>1, <2>2, RouteAssumption DEF IInv, Following, Arriving, Within, Start,
                                             Quiet, controller, robot
  <2> QED
    BY <2>3, <2>4 DEF IInv
<1>8. ASSUME NEW g \in Goals, NewGoal(g)
      PROVE  IInv'
  <2>1. UNCHANGED <<completed, limit, mail, place, arrived>> /\ goal' = g
        /\ tree \in {"search", "recovery"}
    BY <1>8 DEF NewGoal, robot
  <2>2. completed = None
    BY <2>1 DEF IInv, Arriving
  <2>3. CASE tree = "search" /\ UNCHANGED <<tree, search, controller>>
    <3>1. TypeOK'
      BY <2>1, <2>3 DEF IInv, TypeOK, controller
    <3>2. Following' /\ Arriving' /\ Within(guard, place)'
      BY <2>1, <2>2, <2>3 DEF IInv, Following, Arriving, Within, controller
    <3> QED
      BY <3>1, <3>2 DEF IInv
  <2>4. CASE tree' = "enter" /\ search' = Blank("primary") /\ Cancels
    <3>1. ForOneGoal(search') /\ search' \in Searches
      BY <1>2, <2>4
    <3>2. /\ Within(guard', place) /\ sweeps' \subseteq {"left", "right"}
          /\ route' = None /\ result' = None
      BY <2>4, Handles DEF Cancels
    <3>3. TypeOK'
      BY <2>1, <2>4, <3>1, <3>2 DEF IInv, TypeOK, Within
    <3>4. Following' /\ Arriving' /\ Within(guard, place)'
      BY <2>1, <2>2, <2>4, <3>1, <3>2, RouteAssumption DEF Following, Arriving, Within
    <3> QED
      BY <3>3, <3>4 DEF IInv
  <2> QED
    BY <1>8, <2>1, <2>3, <2>4 DEF NewGoal
<1> QED
  BY <1>3, <1>4, <1>5, <1>6, <1>7, <1>8

LEMMA ControllerStep ==
  ASSUME IInv, Moved \/ FollowEnds \/ FollowStarts \/ CostmapChanges \/ Controls
  PROVE  IInv'
<1>1. /\ ForOneGoal(search) /\ Within(guard, place) /\ place \in Places
      /\ route # None => route \in Goals
  BY DEF IInv, TypeOK, Following
<1>2. CASE Moved
  <2>1. route = None /\ completed' = completed
    BY <1>2 DEF Moved, IInv, Following
  <2>2. place' \in Places /\ Within(guard', place')
    <3>1. CASE place' \in Places /\ guard' = IF place' = place THEN guard
                                             ELSE [guard EXCEPT !.turned = 0]
      BY <1>1, <3>1, MovedWithin
    <3>2. CASE /\ guard.anchor = place /\ guard.swept <= MaxSweep
               /\ guard' = [guard EXCEPT !.swept = @ + 1] /\ UNCHANGED place
      <4> DEFINE n == guard.swept + 1
      <4> MaxSweep \in Nat
        BY RouteAssumption
      <4>1. n \in 0..MaxSweep + 1 /\ guard.turned <= n
        BY <1>1, <3>2 DEF Within, Guards
      <4>2. guard' = [guard EXCEPT !.swept = n]
        BY <3>2
      <4>3. guard' \in Guards
        <5> HIDE DEF n
        <5> QED
          BY <1>1, <4>1, <4>2 DEF Within, Guards
      <4>4. guard'.swept = n /\ guard'.anchor = place /\ guard'.turned = guard.turned
        BY <1>1, <3>2, <4>2 DEF Within, Guards
      <4> HIDE DEF n
      <4> QED
        BY <1>1, <3>2, <4>1, <4>3, <4>4 DEF Within
    <3> QED
      BY <1>2, <3>1, <3>2 DEF Moved, robot
  <2>3. arrived' \in Goals \cup {None}
    BY <1>2 DEF Moved, robot, IInv, TypeOK
  <2>4. TypeOK'
    BY <1>2, <2>2, <2>3 DEF IInv, TypeOK, Moved, Within
  <2>5. Following' /\ Arriving' /\ Within(guard, place)'
    BY <1>2, <2>1, <2>2, RouteAssumption DEF IInv, Following, Arriving, Within, Moved
  <2> QED
    BY <2>4, <2>5 DEF IInv
<1>3. CASE FollowEnds
  <2>1. Within(guard', place) /\ UNCHANGED place
    BY <1>1, <1>3, RestedWithin DEF FollowEnds
  <2>2. TypeOK'
    BY <1>1, <1>3, <2>1 DEF IInv, TypeOK, FollowEnds, Within
  <2>3. Following' /\ Arriving' /\ Within(guard, place)'
    BY <1>3, <2>1 DEF IInv, Following, Arriving, Within, FollowEnds
  <2> QED
    BY <2>2, <2>3 DEF IInv
<1>4. CASE FollowStarts
  <2>1. Within(guard', place) /\ UNCHANGED <<place, arrived>>
    BY <1>1, <1>4, PlannedWithin DEF FollowStarts, robot
  <2>2. mail' \in BOOLEAN \cup {None}
    <3>1. Planned(route).limited \in BOOLEAN
      BY <1>4, <2>1 DEF FollowStarts, Within, Guards
    <3> QED
      BY <1>4, <3>1 DEF FollowStarts, Published, IInv, TypeOK
  <2>3. TypeOK'
    BY <1>4, <2>1, <2>2 DEF IInv, TypeOK, FollowStarts, Within
  <2>4. Following' /\ Arriving' /\ Within(guard, place)'
    BY <1>4, <2>1, RouteAssumption DEF IInv, Following, Arriving, Within, FollowStarts
  <2> QED
    BY <2>3, <2>4 DEF IInv
<1>5. CASE CostmapChanges
  BY <1>5 DEF IInv, TypeOK, Following, Arriving, Within, CostmapChanges, robot
<1>6. CASE Controls
  <2> DEFINE c == Updated(guard)
  <2>1. /\ Within(c, place) /\ c.anchor = place /\ c.remaining = guard.remaining
        /\ ~c.limited => c.swept <= MaxSweep
    BY <1>1, UpdatedWithin
  <2>2. c.remaining \in -2..2 /\ c.limited \in BOOLEAN /\ guard.remaining \in -2..2
    BY <1>1, <2>1 DEF Within, Guards
  <2>3. mail' \in BOOLEAN \cup {None}
    BY <1>6, <2>2 DEF Controls, Published, IInv, TypeOK
  <2>4. ASSUME NEW angle \in {-1, 1}, NEW r \in Choices(angle)
        PROVE  r \in -2..2 /\ r # 0
    BY <2>4 DEF Choices
  <2> HIDE DEF c
  <2>5. /\ Within(guard', place') /\ place' \in Places
        /\ arrived' \in {arrived, None}
    <3>1. CASE Throws(guard)
      BY <1>1, <3>1 DEF Throws, robot
    <3>2. CASE Throws([c EXCEPT !.remaining = 0]) \/ Throws(c)
      BY <1>1, <2>1, <3>2, StoppedWithin DEF Throws, robot
    <3>3. CASE ~c.limited /\ c.remaining # 0 /\ Rotate(c)
      BY <1>1, <2>1, <2>2, <3>3, TurnedWithin, StoppedBlockedWithin
         DEF Rotate, Throws, robot
    <3>4. CASE Throws([c EXCEPT !.blocked = TRUE])
      BY <1>1, <2>1, <3>4, BlockedWithin DEF Throws, robot
    <3>5. ASSUME NEW angle \in {-1, 1}, NEW r \in Choices(angle), ~c.limited,
                 guard' = Turned(c, r), UNCHANGED robot
          PROVE  Within(guard', place') /\ place' \in Places /\ arrived' = arrived
      <4>1. r \in -2..2 /\ r # 0
        BY <2>4
      <4> QED
        BY <1>1, <2>1, <3>5, <4>1, TurnedWithin DEF robot
    <3>6. CASE /\ place' \in Places \ {place} /\ arrived' = None
               /\ guard' = [c EXCEPT !.turned = 0]
      BY <2>1, <3>6, MovedWithin
    <3> QED
      BY <1>6, <3>1, <3>2, <3>3, <3>4, <3>5, <3>6 DEF Controls, c
  <2>6. /\ UNCHANGED <<goal, tree, search, completed, limit, route, result, sweeps>>
        /\ route # None /\ result = None
    BY <1>6 DEF Controls
  <2>7. TypeOK'
    BY <2>3, <2>5, <2>6 DEF IInv, TypeOK, Within
  <2>8. Following' /\ Arriving' /\ Within(guard, place)'
    BY <2>5, <2>6, RouteAssumption DEF IInv, Following, Arriving, Within
  <2> QED
    BY <2>7, <2>8 DEF IInv
<1> QED
  BY <1>2, <1>3, <1>4, <1>5, <1>6

-----------------------------------------------------------------------------
LEMMA InvInit ==
  ASSUME Init
  PROVE  IInv
<1>1. ForOneGoal(Blank("primary"))
  BY BlankSearch DEF Kinds
<1>2. Within(NewGuard(None), place)
  BY NewGuardWithin DEF Init
<1>3. TypeOK
  BY <1>1, <1>2, RouteAssumption DEF Init, TypeOK, ForOneGoal, Within
<1>4. Following /\ Arriving
  BY <1>1, RouteAssumption DEF Init, Following, Arriving
<1> QED
  BY <1>2, <1>3, <1>4 DEF Init, IInv

LEMMA InvStep ==
  ASSUME IInv, [Next]_vars
  PROVE  IInv'
<1>1. CASE Next
  BY <1>1, AskStep, AnswerStep, ChooseStep, ExecuteStep, TreeStep, ControllerStep
     DEF Next
<1>2. CASE UNCHANGED vars
  BY <1>2 DEF vars, IInv, TypeOK, Following, Arriving, Within
<1> QED
  BY <1>1, <1>2

LEMMA Invariance == Spec => []IInv
  BY InvInit, InvStep, PTL DEF Spec

(* Every variable holds a value of its type, the search and the controller *)
(* with all their parts.                                                   *)
THEOREM TypeCorrect == Spec => []TypeOK
<1>1. IInv => TypeOK
  BY DEF IInv
<1> QED
  BY <1>1, Invariance, PTL

(* Whatever the bounds on the proposals, and however the goal changes, a   *)
(* search keeps and follows only routes to its own goal.                   *)
THEOREM RouteIsForGoalAlways == Spec => []RouteIsForGoal
<1>1. IInv => RouteIsForGoal
  BY DEF IInv, Following, ForOneGoal, RouteIsForGoal
<1> QED
  BY <1>1, Invariance, PTL

(* The tree does not report an arrival at a goal the robot does not stand  *)
(* at, in whatever order results, goals and tasks come.                    *)
THEOREM NoFalseArrivalAlways == Spec => []NoFalseArrival
<1>1. IInv => NoFalseArrival
  BY DEF IInv, Arriving, NoFalseArrival
<1> QED
  BY <1>1, Invariance, PTL

(* For every budget, replanning for the same goal does not let the robot   *)
(* turn on one spot beyond it.                                             *)
THEOREM TurnBudgetKeptAlways == Spec => []TurnBudgetKept
<1>1. IInv => TurnBudgetKept
  BY RouteAssumption DEF IInv, Within, Guards, TurnBudgetKept
<1> QED
  BY <1>1, Invariance, PTL

-----------------------------------------------------------------------------
(* Only a command of the controller turns the robot; every other step      *)
(* leaves what was turned here, or starts it anew.                         *)
LEMMA TurnsOnlyByCommand ==
  ASSUME IInv, Next, ~Controls
  PROVE  guard'.turned \in {0, guard.turned}
<1>1. guard \in Guards
  BY DEF IInv, TypeOK
<1>2. Rested(guard).turned = guard.turned
  BY <1>1 DEF Guards, Rested
<1>3. CASE UNCHANGED guard \/ guard' = Rested(guard)
  BY <1>2, <1>3
<1>4. CASE FollowStarts
  <2>1. guard' = Planned(route)
    BY <1>4 DEF FollowStarts
  <2>2. \A class : NewGuard(class).turned = 0
    BY DEF NewGuard
  <2>3. [guard EXCEPT !.blocked = FALSE].turned = guard.turned
    BY <1>1 DEF Guards
  <2> QED
    BY <2>1, <2>2, <2>3 DEF Planned
<1>5. CASE Moved
  BY <1>1, <1>5 DEF Moved, Guards
<1> QED
  <2>1. CASE Ask \/ Answer \/ Choose \/ Execute
    BY <2>1, <1>3 DEF Ask, Answer, Choose, Execute, Restarts, Cancels, controller
  <2>2. CASE Enter \/ Deadline \/ Recover \/ Finish
    BY <2>2, <1>3 DEF Enter, Deadline, Recover, Finish, Quiet, controller
  <2>3. CASE \E g \in TaskGoals : Start(g)
    BY <2>3, <1>3 DEF Start, Quiet, controller
  <2>4. CASE \E g \in Goals : NewGoal(g)
    BY <2>4, <1>3 DEF NewGoal, Cancels, controller
  <2>5. CASE FollowEnds \/ CostmapChanges
    BY <2>5, <1>3 DEF FollowEnds, CostmapChanges
  <2> QED
    BY <1>4, <1>5, <2>1, <2>2, <2>3, <2>4, <2>5 DEF Next

(* Whatever the costmap shows between two commands, the command that goes  *)
(* on with a committed rotation has checked what is left of it.            *)
THEOREM CommittedTurnIsClearAlways == Spec => CommittedTurnIsClear
<1>1. ASSUME IInv, [Next]_vars, guard.remaining # 0, guard'.turned > guard.turned
      PROVE  Clear(guard.remaining)
  <2> DEFINE c == Updated(guard)
  <2>1. guard \in Guards /\ Within(guard, place) /\ place \in Places
    BY <1>1 DEF IInv, TypeOK
  <2>2. /\ c \in Guards /\ c.remaining = guard.remaining /\ c.turned = guard.turned
    BY <2>1, UpdatedWithin DEF Within
  <2>3. guard.turned \in Nat
    BY <2>1 DEF Guards
  <2>4. Controls
    BY <1>1, <2>3, TurnsOnlyByCommand DEF vars
  <2> HIDE DEF c
  <2>5. /\ [c EXCEPT !.remaining = 0].turned = c.turned
        /\ [c EXCEPT !.remaining = 0, !.blocked = TRUE].turned = c.turned
    BY <2>2 DEF Guards
  <2>6. ~(guard'.turned = guard.turned)
    BY <1>1, <2>3
  <2>7. /\ guard' # guard /\ guard' # c /\ guard' # [c EXCEPT !.remaining = 0]
        /\ guard' # [c EXCEPT !.remaining = 0, !.blocked = TRUE]
    BY <2>2, <2>5, <2>6
  <2>8. Rotate(c)
    BY <1>1, <2>2, <2>4, <2>7 DEF Controls, Throws, c
  <2>9. Clear(c.remaining)
    BY <2>7, <2>8 DEF Rotate, Throws
  <2> QED
    BY <2>2, <2>9
<1> QED
  BY <1>1, Invariance, PTL DEF Spec, CommittedTurnIsClear

=============================================================================
