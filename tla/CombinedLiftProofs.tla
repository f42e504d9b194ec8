------------------------- MODULE CombinedLiftProofs -------------------------
(***************************************************************************)
(* Theorems about CombinedLift, for every travel, ramp, timeout and queue  *)
(* that CombinedLiftAssumption admits.  Most of the work is about the      *)
(* operators that take one record of the lift to the next: each keeps      *)
(* Sound, whatever the switches and the commands are.                      *)
(***************************************************************************)
EXTENDS CombinedLift, TLAPS, SequenceTheorems

Records ==
  [mode : Modes, homed : BOOLEAN, leaving : BOOLEAN,
   position : Coordinates, target : Coordinates,
   ramp : Ramps, slowing : BOOLEAN, halted : BOOLEAN,
   command_age : 0..(CommandTimeout + 1), home_age : 0..(HomeTimeout + 1)]

\* Where the lift may be with its reference: it brakes wherever it is past an end
\* of its travel and still on its way out.
Room(position, ramp, slowing) ==
  /\ position \in Overshoot /\ position + ramp \in Overshoot
  /\ position > Top /\ ramp > 0 => slowing
  /\ position < 0 /\ ramp < 0 => slowing

\* The mode tells of the reference, and with it the lift is bounded in its place
\* and its way to stop.
Sound(s) ==
  /\ s \in Records
  /\ s.homed <=> s.mode \in {"IDLE", "MOVING"}
  /\ s.leaving => s.mode = "HOMING"
  /\ s.mode = "MOVING" => s.target \in Heights
  /\ s.homed => Room(s.position, s.ramp, s.slowing)

\* The run of invalid samples that latches the fault has not happened yet, and
\* only an IMU that was never found is calibrated.
FaultLatches ==
  /\ imu # "faulted" => invalid < InvalidLimit
  /\ serial = "calibrate" => imu = "absent"

IInv == TypeOK /\ Sound(lift) /\ EndstopsHold /\ FaultLatches

-----------------------------------------------------------------------------
(* Lemmas about the operators on a record.                                 *)

\* The values the lift task writes are of their types.
LEMMA Ranges ==
  /\ 0 \in Coordinates /\ 0 \in Heights /\ Top \in Coordinates /\ Top \in Heights
  /\ Heights \subseteq Coordinates /\ Heights \subseteq Int /\ Coordinates \subseteq Int
  /\ Heights \subseteq Overshoot /\ Overshoot \subseteq Coordinates
  /\ \A n \in Overshoot : n >= -Depth
  /\ 0 \in Ramps /\ 1 \in Ramps /\ -1 \in Ramps /\ Ramps \subseteq Int
  /\ 0 \in 0..(CommandTimeout + 1) /\ 0 \in 0..(HomeTimeout + 1)
  /\ {"UNHOMED", "IDLE", "MOVING", "HOMING", "FAULT"} = Modes
  BY CombinedLiftAssumption DEF Coordinates, Heights, Overshoot, Ramps, Modes, InMotion

LEMMA AtRestHasRoom ==
  /\ Room(0, 0, FALSE)
  /\ \A p \in Heights : Room(p, 0, FALSE)
  BY CombinedLiftAssumption DEF Room, Overshoot, Heights

LEMMA PoweredUpSound == Sound(PoweredUp)
  BY Ranges DEF Sound, Records, PoweredUp

\* What AccelStepper may make of a ramp r at p, on its way to g.
Paced(p, g, r, slowing, n, brakes) ==
  \/ n = 0 /\ ~brakes
  \/ g # p /\ n = Sign(g - p) /\ ~brakes
  \/ r # 0 /\ n = r - Sign(r) /\ brakes /\ (g = p => slowing)
  \/ r # 0 /\ Sign(n) = Sign(r) /\ ~brakes
       /\ (g = p => ~slowing) /\ (g # p => Sign(g - p) = Sign(r))

\* The record t is s with such a ramp.
NewlyPaced(s, t) ==
  /\ t = [s EXCEPT !.ramp = t.ramp, !.slowing = t.slowing, !.halted = FALSE]
  /\ t.ramp \in Ramps /\ t.slowing \in BOOLEAN
  /\ Paced(s.position, s.target, s.ramp, s.slowing, t.ramp, t.slowing)

LEMMA ComputeNewSpeedFacts ==
  ASSUME NEW s \in Records
  PROVE  NewlyPaced(s, ComputeNewSpeed(s))
<1> DEFINE ahead == s.target - s.position
           t == ComputeNewSpeed(s)
           r == s.ramp
<1>1. /\ s.target \in Int /\ s.position \in Int /\ ahead \in Int
      /\ r \in Ramps /\ r \in Int /\ s.slowing \in BOOLEAN
      /\ ahead = 0 <=> s.target = s.position
  <2>1. /\ s.target \in Coordinates /\ s.position \in Coordinates
        /\ s.ramp \in Ramps /\ s.slowing \in BOOLEAN
    BY DEF Records
  <2>2. s.target \in Int /\ s.position \in Int /\ s.ramp \in Int
    BY <2>1, Ranges
  <2>3. QED
    BY <2>1, <2>2
<1>2. CASE ahead = 0 /\ WayToStop(s) <= 1
  <2>1. t = [s EXCEPT !.ramp = 0, !.slowing = FALSE, !.halted = FALSE]
    BY <1>2 DEF ComputeNewSpeed, AtRest, Starting
  <2>2. t.ramp = 0 /\ t.slowing = FALSE
    BY <2>1 DEF Records
  <2>3. QED
    BY <2>1, <2>2, Ranges DEF Paced, NewlyPaced
<1>3. CASE ahead # 0 /\ StartsAnew(s, ahead)
  <2>1. t = [s EXCEPT !.ramp = Sign(ahead), !.slowing = FALSE, !.halted = FALSE]
    BY <1>3 DEF ComputeNewSpeed, Starting
  <2>2. t.ramp = Sign(ahead) /\ t.slowing = FALSE
    BY <2>1 DEF Records
  <2>3. Sign(ahead) \in Ramps
    BY <1>1, Ranges DEF Sign
  <2>4. QED
    BY <1>1, <1>3, <2>1, <2>2, <2>3 DEF Paced, NewlyPaced
<1>4. CASE /\ ~(ahead = 0 /\ WayToStop(s) <= 1)
           /\ ~(ahead # 0 /\ StartsAnew(s, ahead))
  <2>1. r # 0
    BY <1>4 DEF StartsAnew, WayToStop
  <2>2. t = IF Brakes(s, ahead)
            THEN [s EXCEPT !.ramp = Sign(@) * (Size(s.ramp) - 1), !.slowing = TRUE,
                           !.halted = FALSE]
            ELSE [s EXCEPT !.ramp = Sign(@) * Smaller(Size(s.ramp) + 1, MaxRamp),
                           !.slowing = FALSE, !.halted = FALSE]
    BY <1>4 DEF ComputeNewSpeed
  <2>3. CASE Brakes(s, ahead)
    <3>1. t = [s EXCEPT !.ramp = Sign(r) * (Size(r) - 1), !.slowing = TRUE,
                        !.halted = FALSE]
      BY <2>2, <2>3 DEF Records
    <3>2. t.ramp = Sign(r) * (Size(r) - 1) /\ t.slowing = TRUE
      BY <3>1 DEF Records
    <3>3. Sign(r) * (Size(r) - 1) = r - Sign(r)
      BY <1>1, <2>1 DEF Sign, Size
    <3>4. r - Sign(r) \in Ramps
      BY <1>1, <2>1, CombinedLiftAssumption DEF Sign, Ramps
    <3>5. ahead = 0 => s.slowing
      BY <2>3 DEF Brakes
    <3>6. QED
      BY <1>1, <2>1, <3>1, <3>2, <3>3, <3>4, <3>5 DEF Paced, NewlyPaced
  <2>4. CASE ~Brakes(s, ahead)
    <3> DEFINE n == Sign(r) * Smaller(Size(r) + 1, MaxRamp)
    <3>1. t = [s EXCEPT !.ramp = n, !.slowing = FALSE, !.halted = FALSE]
      BY <2>2, <2>4 DEF Records
    <3>2. t.ramp = n /\ t.slowing = FALSE
      BY <3>1 DEF Records
    <3>3. n \in Ramps /\ Sign(n) = Sign(r)
      BY <1>1, <2>1, CombinedLiftAssumption DEF Sign, Size, Smaller, Ramps
    <3>4. (ahead = 0 => ~s.slowing) /\ (ahead # 0 => Sign(ahead) = Sign(r))
      BY <2>4 DEF Brakes
    <3>5. QED
      BY <1>1, <2>1, <3>1, <3>2, <3>3, <3>4 DEF Paced, NewlyPaced
  <2>5. QED
    BY <2>3, <2>4
<1>5. QED
  BY <1>2, <1>3, <1>4

\* A new target in the travel, or where the lift is, leaves it its room.
LEMMA RetargetedHasRoom ==
  ASSUME NEW p \in Int, NEW g \in Int, NEW r \in Ramps, NEW n \in Ramps,
         NEW slowing \in BOOLEAN, NEW brakes \in BOOLEAN,
         Room(p, r, slowing), g \in Heights \/ g = p, Paced(p, g, r, slowing, n, brakes)
  PROVE  Room(p, n, brakes)
<1>1. r \in Int /\ n \in Int /\ -MaxRamp <= n /\ n <= MaxRamp
  BY CombinedLiftAssumption DEF Ramps
<1>2. CASE p \in Heights
  BY <1>1, <1>2, CombinedLiftAssumption DEF Room, Overshoot, Heights
<1>3. CASE p > Top
  <2>1. g = p \/ Sign(g - p) = -1
    BY <1>3, CombinedLiftAssumption DEF Heights, Sign
  <2>2. CASE n > 0
    <3>1. r > 0 /\ n = r - Sign(r) /\ brakes
      BY <1>1, <1>3, <2>1, <2>2 DEF Paced, Room, Sign
    <3>2. n = r - 1
      BY <1>1, <3>1 DEF Sign
    <3>3. QED
      BY <1>1, <1>3, <2>2, <3>1, <3>2, CombinedLiftAssumption DEF Room, Overshoot
  <2>3. CASE n <= 0
    BY <1>1, <1>3, <2>3, CombinedLiftAssumption DEF Room, Overshoot
  <2>4. QED
    BY <1>1, <2>2, <2>3
<1>4. CASE p < 0
  <2>1. g = p \/ Sign(g - p) = 1
    BY <1>4, CombinedLiftAssumption DEF Heights, Sign
  <2>2. CASE n < 0
    <3>1. r < 0 /\ n = r - Sign(r) /\ brakes
      BY <1>1, <1>4, <2>1, <2>2 DEF Paced, Room, Sign
    <3>2. n = r + 1
      BY <1>1, <3>1 DEF Sign
    <3>3. QED
      BY <1>1, <1>4, <2>2, <3>1, <3>2, CombinedLiftAssumption DEF Room, Overshoot
  <2>3. CASE n >= 0
    BY <1>1, <1>4, <2>3, CombinedLiftAssumption DEF Room, Overshoot
  <2>4. QED
    BY <1>1, <2>2, <2>3
<1>5. QED
  BY <1>2, <1>3, <1>4, CombinedLiftAssumption DEF Heights

\* So does a pulse of a lift on its way to a height, in the direction of its ramp.
LEMMA PulsedHasRoom ==
  ASSUME NEW p \in Int, NEW g \in Heights, NEW r \in Ramps, NEW n \in Ramps,
         NEW slowing \in BOOLEAN, NEW brakes \in BOOLEAN, r # 0,
         Room(p, r, slowing), Paced(p + Sign(r), g, r, slowing, n, brakes)
  PROVE  Room(p + Sign(r), n, brakes)
<1> DEFINE q == p + Sign(r)
<1>1. /\ r \in Int /\ n \in Int /\ -MaxRamp <= n /\ n <= MaxRamp
      /\ r > 0 => q = p + 1
      /\ r < 0 => q = p - 1
      /\ q \in Int /\ g \in Int
  BY CombinedLiftAssumption DEF Ramps, Sign, Heights
<1> HIDE DEF q
<1>2. Paced(q, g, r, slowing, n, brakes)
  BY DEF q
<1>3. CASE q \in Heights
  <2>1. Room(q, n, brakes)
    BY <1>1, <1>3, CombinedLiftAssumption DEF Room, Overshoot, Heights
  <2>2. QED
    BY <2>1 DEF q
<1>4. CASE q > Top
  <2>1. g # q /\ Sign(g - q) = -1
    BY <1>1, <1>4, CombinedLiftAssumption DEF Heights, Sign
  <2>2. CASE n > 0
    <3>1. r > 0 /\ n = r - Sign(r) /\ brakes
      BY <1>1, <1>2, <2>1, <2>2 DEF Paced, Sign
    <3>2. n = r - 1 /\ q + n = p + r /\ q = p + 1
      BY <1>1, <3>1 DEF Sign
    <3>3. p + r \in Overshoot /\ p \in Overshoot
      BY DEF Room
    <3>4. Room(q, n, brakes)
      BY <1>1, <1>4, <2>2, <3>1, <3>2, <3>3, CombinedLiftAssumption DEF Room, Overshoot
    <3>5. QED
      BY <3>4 DEF q
  <2>3. CASE n <= 0
    <3>1. p \in Overshoot /\ p + r \in Overshoot
      BY DEF Room
    <3>2. q <= Top + MaxRamp
      BY <1>1, <3>1, CombinedLiftAssumption DEF Overshoot
    <3>3. Room(q, n, brakes)
      BY <1>1, <1>4, <2>3, <3>2, CombinedLiftAssumption DEF Room, Overshoot
    <3>4. QED
      BY <3>3 DEF q
  <2>4. QED
    BY <1>1, <2>2, <2>3
<1>5. CASE q < 0
  <2>1. g # q /\ Sign(g - q) = 1
    BY <1>1, <1>5, CombinedLiftAssumption DEF Heights, Sign
  <2>2. CASE n < 0
    <3>1. r < 0 /\ n = r - Sign(r) /\ brakes
      BY <1>1, <1>2, <2>1, <2>2 DEF Paced, Sign
    <3>2. n = r + 1 /\ q + n = p + r /\ q = p - 1
      BY <1>1, <3>1 DEF Sign
    <3>3. p + r \in Overshoot /\ p \in Overshoot
      BY DEF Room
    <3>4. Room(q, n, brakes)
      BY <1>1, <1>5, <2>2, <3>1, <3>2, <3>3, CombinedLiftAssumption DEF Room, Overshoot
    <3>5. QED
      BY <3>4 DEF q
  <2>3. CASE n >= 0
    <3>1. p \in Overshoot /\ p + r \in Overshoot
      BY DEF Room
    <3>2. q >= -MaxRamp
      BY <1>1, <3>1, CombinedLiftAssumption DEF Overshoot
    <3>3. Room(q, n, brakes)
      BY <1>1, <1>5, <2>3, <3>2, CombinedLiftAssumption DEF Room, Overshoot
    <3>4. QED
      BY <3>3 DEF q
  <2>4. QED
    BY <1>1, <2>2, <2>3
<1>6. QED
  BY <1>1, <1>3, <1>4, <1>5, CombinedLiftAssumption DEF Heights

\* moveTo() changes the target and the ramp, nothing else.
LEMMA MoveToFacts ==
  ASSUME NEW s \in Records, NEW p \in Coordinates
  PROVE  LET t == MoveTo(s, p)
         IN /\ t \in Records /\ t.target = p
            /\ t.mode = s.mode /\ t.homed = s.homed /\ t.leaving = s.leaving
            /\ t.position = s.position
            /\ /\ Room(s.position, s.ramp, s.slowing)
               /\ p \in Heights \/ p = s.position
               => Room(t.position, t.ramp, t.slowing)
<1>1. CASE p = s.target
  BY <1>1 DEF MoveTo
<1>2. CASE p # s.target
  <2> DEFINE u == [s EXCEPT !.target = p]
             t == ComputeNewSpeed(u)
  <2>1. u \in Records
    BY DEF Records
  <2>2. /\ u.target = p /\ u.mode = s.mode /\ u.homed = s.homed /\ u.leaving = s.leaving
        /\ u.position = s.position /\ u.ramp = s.ramp /\ u.slowing = s.slowing
    BY DEF Records
  <2>3. MoveTo(s, p) = t
    BY <1>2 DEF MoveTo
  <2> HIDE DEF u
  <2>4. /\ t = [u EXCEPT !.ramp = t.ramp, !.slowing = t.slowing, !.halted = FALSE]
        /\ t.ramp \in Ramps /\ t.slowing \in BOOLEAN
        /\ Paced(u.position, u.target, u.ramp, u.slowing, t.ramp, t.slowing)
    <3>1. NewlyPaced(u, ComputeNewSpeed(u))
      BY <2>1, ComputeNewSpeedFacts
    <3>2. QED
      BY <3>1 DEF NewlyPaced
  <2> HIDE DEF t
  <2>5. /\ t \in Records /\ t.target = p
        /\ t.mode = s.mode /\ t.homed = s.homed /\ t.leaving = s.leaving
        /\ t.position = s.position
    BY <2>1, <2>2, <2>4 DEF Records
  <2>6. /\ s.position \in Int /\ p \in Int /\ s.ramp \in Ramps /\ s.slowing \in BOOLEAN
    BY Ranges DEF Records
  <2>7. /\ Room(s.position, s.ramp, s.slowing)
        /\ p \in Heights \/ p = s.position
        => Room(t.position, t.ramp, t.slowing)
    BY <2>2, <2>4, <2>5, <2>6, RetargetedHasRoom
  <2>8. QED
    BY <2>3, <2>5, <2>7
<1>3. QED
  BY <1>1, <1>2

LEMMA StopLiftFacts ==
  ASSUME NEW s \in Records, NEW next \in Modes
  PROVE  LET t == StopLift(s, next)
         IN /\ t \in Records /\ t.mode = next /\ t.leaving = FALSE
            /\ t.homed = s.homed /\ t.position = s.position /\ t.target = s.position
            /\ Room(s.position, s.ramp, s.slowing) => Room(t.position, t.ramp, t.slowing)
<1> DEFINE m == MoveTo(s, s.position)
           t == StopLift(s, next)
<1>1. /\ m \in Records /\ m.target = s.position
      /\ m.homed = s.homed /\ m.position = s.position
      /\ Room(s.position, s.ramp, s.slowing) => Room(m.position, m.ramp, m.slowing)
  <2>1. s.position \in Coordinates
    BY DEF Records
  <2>2. QED
    BY <2>1, MoveToFacts
<1>2. t = [m EXCEPT !.halted = (m.ramp # 0), !.mode = next, !.leaving = FALSE]
  BY DEF StopLift
<1> HIDE DEF m, t
<1>3. (m.ramp # 0) \in BOOLEAN
  OBVIOUS
<1>4. /\ t \in Records /\ t.mode = next /\ t.leaving = FALSE
      /\ t.homed = m.homed /\ t.position = m.position /\ t.target = m.target
      /\ t.ramp = m.ramp /\ t.slowing = m.slowing
  BY <1>1, <1>2, <1>3 DEF Records
<1>5. QED
  BY <1>1, <1>4 DEF t

\* A stop keeps Sound when the new mode tells of the reference.
LEMMA StopLiftSound ==
  ASSUME NEW s, Sound(s), NEW next \in {"UNHOMED", "IDLE"},
         s.homed <=> next = "IDLE"
  PROVE  /\ Sound(StopLift(s, next))
         /\ StopLift(s, next).mode = next
         /\ StopLift(s, next).homed = s.homed
         /\ StopLift(s, next).position = s.position
<1>1. s \in Records /\ next \in Modes
  BY Ranges DEF Sound
<1>2. QED
  BY <1>1, StopLiftFacts DEF Sound

LEMMA SetFaultSound ==
  ASSUME NEW s, Sound(s)
  PROVE  /\ Sound(SetFault(s)) /\ SetFault(s).mode = "FAULT"
         /\ SetFault(s).homed = FALSE
<1> DEFINE m == StopLift(s, "FAULT")
           t == SetFault(s)
<1>1. m \in Records /\ m.mode = "FAULT" /\ m.leaving = FALSE
  BY Ranges, StopLiftFacts DEF Sound
<1>2. t = [m EXCEPT !.ramp = 0, !.slowing = FALSE, !.halted = FALSE, !.homed = FALSE]
  BY <1>1 DEF SetFault, AtRest, Starting, Records
<1> HIDE DEF m, t
<1>3. t \in Records /\ t.mode = "FAULT" /\ t.homed = FALSE /\ t.leaving = FALSE
  BY <1>1, <1>2, Ranges DEF Records
<1>4. QED
  BY <1>3 DEF Sound, t

\* setCurrentPosition() is a place and a rest.
LEMMA SetCurrentPositionFacts ==
  ASSUME NEW s \in Records, NEW p \in Heights
  PROVE  LET t == SetCurrentPosition(s, p)
         IN /\ t \in Records /\ t.position = p /\ t.target = p
            /\ t.ramp = 0 /\ t.slowing = FALSE
            /\ t.mode = s.mode /\ t.homed = s.homed /\ t.leaving = s.leaving
<1> DEFINE u == [s EXCEPT !.position = p, !.target = p]
           t == SetCurrentPosition(s, p)
<1>1. p \in Coordinates
  BY Ranges
<1>2. /\ u \in Records /\ u.position = p /\ u.target = p
      /\ u.mode = s.mode /\ u.homed = s.homed /\ u.leaving = s.leaving
  BY <1>1 DEF Records
<1>3. t = [u EXCEPT !.ramp = 0, !.slowing = FALSE, !.halted = FALSE]
  BY DEF SetCurrentPosition, AtRest, Starting
<1> HIDE DEF u, t
<1>4. /\ t \in Records /\ t.position = u.position /\ t.target = u.target
      /\ t.ramp = 0 /\ t.slowing = FALSE
      /\ t.mode = u.mode /\ t.homed = u.homed /\ t.leaving = u.leaving
  BY <1>2, <1>3, Ranges DEF Records
<1>5. QED
  BY <1>2, <1>4 DEF t

LEMMA AcceptLowerHomeSound ==
  ASSUME NEW s, Sound(s)
  PROVE  /\ Sound(AcceptLowerHome(s))
         /\ AcceptLowerHome(s).mode = "IDLE" /\ AcceptLowerHome(s).homed = TRUE
         /\ AcceptLowerHome(s).position = 0 /\ AcceptLowerHome(s).target = 0
<1> DEFINE m == SetCurrentPosition(s, 0)
           t == AcceptLowerHome(s)
<1>1. m \in Records /\ m.position = 0 /\ m.target = 0 /\ m.ramp = 0 /\ m.slowing = FALSE
  BY Ranges, SetCurrentPositionFacts DEF Sound
<1>2. t = [m EXCEPT !.homed = TRUE, !.leaving = FALSE, !.mode = "IDLE"]
  BY DEF AcceptLowerHome
<1> HIDE DEF m, t
<1>3. /\ t \in Records /\ t.mode = "IDLE" /\ t.homed = TRUE /\ t.leaving = FALSE
      /\ t.position = 0 /\ t.target = 0 /\ t.ramp = 0 /\ t.slowing = FALSE
  BY <1>1, <1>2, Ranges DEF Records
<1>4. Room(0, 0, FALSE)
  BY AtRestHasRoom
<1>5. QED
  BY <1>3, <1>4 DEF Sound, t

\* Of it, when an age is set as well.
LEMMA AcceptLowerHomeFacts ==
  ASSUME NEW s, Sound(s)
  PROVE  LET t == [AcceptLowerHome(s) EXCEPT !.command_age = 0]
         IN t.mode = "IDLE" /\ t.homed = TRUE /\ t.position = 0 /\ t.target = 0
  BY AcceptLowerHomeSound DEF Sound, Records

\* An age alone changes nothing of Sound.
LEMMA CommandAgeSound ==
  ASSUME NEW s, Sound(s)
  PROVE  Sound([s EXCEPT !.command_age = 0])
  BY Ranges DEF Sound, Records

LEMMA RestingSound ==
  ASSUME NEW s, Sound(s)
  PROVE  /\ Resting(s) \in {"UNHOMED", "IDLE"}
         /\ s.homed <=> Resting(s) = "IDLE"
  BY DEF Sound, Records, Resting

LEMMA StartLiftHomeSound ==
  ASSUME NEW s, Sound(s), lower \in BOOLEAN, upper \in BOOLEAN
  PROVE  Sound(StartLiftHome(s))
<1>1. CASE s.mode = "FAULT" /\ lower /\ upper
  BY <1>1 DEF StartLiftHome
<1>2. CASE lower /\ ~(s.mode = "FAULT" /\ lower /\ upper)
  BY <1>2, AcceptLowerHomeSound, CommandAgeSound DEF StartLiftHome
<1>3. CASE ~lower
  <2> DEFINE t == StartLiftHome(s)
  <2>1. t \in Records
    BY <1>3, Ranges DEF StartLiftHome, AtRest, Starting, Sound, Records
  <2>2. t.homed = FALSE /\ t.mode = "HOMING"
    BY <1>3 DEF StartLiftHome, AtRest, Starting, Sound, Records
  <2>3. QED
    BY <2>1, <2>2 DEF Sound
<1>4. QED
  BY <1>1, <1>2, <1>3

\* A SET that is taken leads to its height, with the reference.
LEMMA SetLiftTargetSound ==
  ASSUME NEW s, Sound(s), NEW p
  PROVE  /\ Sound(SetLiftTarget(s, p))
         /\ \/ SetLiftTarget(s, p) = s
            \/ /\ s.homed /\ SetLiftTarget(s, p).homed
               /\ SetLiftTarget(s, p).mode \in {"IDLE", "MOVING"}
               /\ SetLiftTarget(s, p).target \in Heights
<1>1. CASE p \notin Heights \/ ~s.homed \/ s.mode \in {"HOMING", "FAULT"}
  BY <1>1 DEF SetLiftTarget
<1>2. CASE p \in Heights /\ s.homed /\ s.mode \notin {"HOMING", "FAULT"}
  <2> DEFINE m == MoveTo(s, p)
             k == IF p = s.position THEN "IDLE" ELSE "MOVING"
             t == SetLiftTarget(s, p)
  <2>1. /\ m \in Records /\ m.target = p /\ m.homed = s.homed /\ m.leaving = s.leaving
        /\ Room(s.position, s.ramp, s.slowing) => Room(m.position, m.ramp, m.slowing)
    <3>1. s \in Records /\ p \in Coordinates
      BY <1>2, Ranges DEF Sound
    <3>2. QED
      BY <1>2, <3>1, MoveToFacts
  <2>2. t = [m EXCEPT !.command_age = 0, !.mode = k]
    BY <1>2 DEF SetLiftTarget
  <2> HIDE DEF m, t
  <2>3. k \in {"IDLE", "MOVING"} /\ k \in Modes
    BY Ranges
  <2> HIDE DEF k
  <2>4. /\ t \in Records /\ t.mode = k /\ t.homed = s.homed /\ t.target = p
        /\ t.position = m.position /\ t.ramp = m.ramp /\ t.slowing = m.slowing
        /\ t.leaving = s.leaving
    BY <2>1, <2>2, <2>3, Ranges DEF Records
  <2>5. Sound(t)
    BY <1>2, <2>1, <2>3, <2>4 DEF Sound
  <2>6. QED
    BY <1>2, <2>3, <2>4, <2>5 DEF t
<1>3. QED
  BY <1>1, <1>2

\* Obeying a command keeps Sound.
LEMMA ObeyedSound ==
  ASSUME NEW s, Sound(s), NEW c \in LiftCommands, lower \in BOOLEAN, upper \in BOOLEAN
  PROVE  Sound(Obeyed(s, c))
<1>1. c.kind \in {"HOME", "STOP", "HB", "SET"}
  BY DEF LiftCommands, Command
<1>2. CASE c.kind = "HOME"
  BY <1>2, StartLiftHomeSound DEF Obeyed
<1>3. CASE c.kind = "STOP"
  BY <1>3, RestingSound, StopLiftSound, CommandAgeSound DEF Obeyed
<1>4. CASE c.kind = "HB"
  BY <1>4, CommandAgeSound DEF Obeyed
<1>5. CASE c.kind = "SET"
  BY <1>5, SetLiftTargetSound DEF Obeyed
<1>6. QED
  BY <1>1, <1>2, <1>3, <1>4, <1>5

\* Only HOME on the lower switch gives a reference.
LEMMA ObeyedHomes ==
  ASSUME NEW s, Sound(s), NEW c \in LiftCommands, ~s.homed, Obeyed(s, c).homed
  PROVE  lower /\ Obeyed(s, c).position = 0
<1>1. c.kind \in {"HOME", "STOP", "HB", "SET"}
  BY DEF LiftCommands, Command
<1>2. CASE c.kind = "HOME"
  <2>1. ~lower => ~StartLiftHome(s).homed
    BY DEF StartLiftHome, AtRest, Starting, Sound, Records
  <2>2. lower => StartLiftHome(s) = s \/ StartLiftHome(s).position = 0
    BY AcceptLowerHomeFacts DEF StartLiftHome
  <2>3. QED
    BY <1>2, <2>1, <2>2 DEF Obeyed
<1>3. CASE c.kind = "STOP"
  <2>1. ~StopLift(s, Resting(s)).homed /\ StopLift(s, Resting(s)) \in Records
    BY RestingSound, StopLiftSound DEF Sound
  <2>2. QED
    BY <1>3, <2>1 DEF Obeyed, Records
<1>4. CASE c.kind = "HB"
  BY <1>4 DEF Obeyed, Sound, Records
<1>5. CASE c.kind = "SET"
  BY <1>5, SetLiftTargetSound DEF Obeyed
<1>6. QED
  BY <1>1, <1>2, <1>3, <1>4, <1>5

\* What the switches make of a record: it is still in the mode and the place it
\* was, or it rests.
Settled(s, t, l) ==
  \/ t.mode = s.mode /\ t.position = s.position /\ t.target = s.target
       /\ t.homed = s.homed
  \/ t.mode = "FAULT" /\ ~t.homed
  \/ t.mode = "UNHOMED" /\ s.mode = "HOMING" /\ ~t.homed
  \/ t.mode = "IDLE" /\ s.mode = "MOVING" /\ t.homed
  \/ t.mode = "IDLE" /\ t.homed /\ t.position = 0 /\ t.target = 0 /\ l

LEMMA LeftUpperSound ==
  ASSUME NEW s, Sound(s), NEW u \in BOOLEAN, NEW l \in BOOLEAN
  PROVE  /\ Sound(LeftUpper(s, u)) /\ Settled(s, LeftUpper(s, u), l)
         /\ LeftUpper(s, u).mode = "FAULT" => s.mode = "FAULT" \/ u
<1>1. CASE s.mode = "HOMING" /\ ~u
  BY <1>1 DEF Sound, Records, LeftUpper, Settled
<1>2. CASE s.mode # "HOMING"
  BY <1>2 DEF Sound, Records, LeftUpper, Settled
<1>3. CASE s.mode = "HOMING" /\ u
  BY <1>3, SetFaultSound DEF LeftUpper, Settled
<1>4. QED
  BY <1>1, <1>2, <1>3

LEMMA AtLowerSound ==
  ASSUME NEW s, Sound(s), NEW l \in BOOLEAN
  PROVE  /\ Sound(AtLower(s, l)) /\ Settled(s, AtLower(s, l), l)
         /\ l => \/ AtLower(s, l).mode = "IDLE"
                 \/ AtLower(s, l).mode = "MOVING" /\ AtLower(s, l).target > 0
<1>1. CASE ~l
  BY <1>1 DEF AtLower, Settled
<1>2. CASE l /\ s.mode = "MOVING" /\ s.target > 0
  BY <1>2 DEF AtLower, Settled, Sound
<1>3. CASE l /\ ~(s.mode = "MOVING" /\ s.target > 0)
  BY <1>3, AcceptLowerHomeSound DEF AtLower, Settled
<1>4. QED
  BY <1>1, <1>2, <1>3

LEMMA AtUpperSound ==
  ASSUME NEW s, Sound(s), NEW u \in BOOLEAN, NEW l \in BOOLEAN
  PROVE  /\ Sound(AtUpper(s, u)) /\ Settled(s, AtUpper(s, u), l)
         /\ u /\ AtUpper(s, u).mode = "MOVING" =>
              AtUpper(s, u).target <= AtUpper(s, u).position
<1>1. CASE u /\ s.mode = "MOVING" /\ s.target > s.position
  <2> DEFINE m == SetCurrentPosition(s, Top)
             t == AtUpper(s, u)
  <2>1. t = StopLift(m, "IDLE") /\ s.homed /\ s \in Records
    BY <1>1 DEF AtUpper, Sound
  <2>2. /\ m \in Records /\ m.position = Top /\ m.homed = s.homed
        /\ Room(m.position, m.ramp, m.slowing)
    BY <2>1, Ranges, SetCurrentPositionFacts, AtRestHasRoom
  <2> HIDE DEF m
  <2>3. /\ t \in Records /\ t.mode = "IDLE" /\ t.leaving = FALSE /\ t.homed
        /\ Room(t.position, t.ramp, t.slowing)
    <3>1. "IDLE" \in Modes
      BY Ranges
    <3>2. LET x == StopLift(m, "IDLE")
          IN /\ x \in Records /\ x.mode = "IDLE" /\ x.leaving = FALSE
             /\ x.homed = m.homed /\ Room(x.position, x.ramp, x.slowing)
      BY <2>2, <3>1, StopLiftFacts
    <3>3. QED
      BY <2>1, <2>2, <3>2
  <2> HIDE DEF t
  <2>4. Sound(t) /\ Settled(s, t, l)
    BY <1>1, <2>3 DEF Sound, Settled
  <2>5. QED
    BY <2>3, <2>4 DEF t
<1>2. CASE ~(u /\ s.mode = "MOVING" /\ s.target > s.position)
  BY <1>2 DEF AtUpper, Settled, Sound, Records, Coordinates
<1>3. QED
  BY <1>1, <1>2

LEMMA CommTimeoutSound ==
  ASSUME NEW s, Sound(s), NEW l \in BOOLEAN
  PROVE  /\ Sound(CommTimeout(s)) /\ Settled(s, CommTimeout(s), l)
         /\ CommTimeout(s) = s \/ CommTimeout(s).mode \in {"IDLE", "UNHOMED"}
<1>1. CASE s.mode \in InMotion /\ s.command_age > CommandTimeout
  <2>1. /\ Sound(CommTimeout(s)) /\ CommTimeout(s).mode = Resting(s)
        /\ CommTimeout(s).homed = s.homed
    BY <1>1, RestingSound, StopLiftSound DEF CommTimeout
  <2>2. /\ s.mode = "HOMING" => ~s.homed /\ Resting(s) = "UNHOMED"
        /\ s.mode = "MOVING" => s.homed /\ Resting(s) = "IDLE"
    BY DEF Sound, Resting
  <2>3. QED
    BY <1>1, <2>1, <2>2 DEF Settled, InMotion
<1>2. CASE ~(s.mode \in InMotion /\ s.command_age > CommandTimeout)
  BY <1>2 DEF CommTimeout, Settled
<1>3. QED
  BY <1>1, <1>2

LEMMA HomingTimedOutSound ==
  ASSUME NEW s, Sound(s), NEW l \in BOOLEAN
  PROVE  /\ Sound(HomingTimedOut(s)) /\ Settled(s, HomingTimedOut(s), l)
         /\ HomingTimedOut(s) = s \/ HomingTimedOut(s).mode = "FAULT"
  BY SetFaultSound DEF HomingTimedOut, Settled

\* What a pass leaves to the motion, whatever the switches are.
LEMMA CheckedSound ==
  ASSUME NEW s, Sound(s), NEW l \in BOOLEAN, NEW u \in BOOLEAN
  PROVE  /\ Sound(Checked(s, l, u)) /\ Settled(s, Checked(s, l, u), l)
         /\ l => /\ Checked(s, l, u).mode # "HOMING"
                 /\ Checked(s, l, u).mode = "MOVING" => Checked(s, l, u).target > 0
         /\ u /\ Checked(s, l, u).mode = "MOVING" =>
              Checked(s, l, u).target <= Checked(s, l, u).position
<1>1. CASE l /\ u
  BY <1>1, SetFaultSound DEF Checked, Settled, Sound
<1>2. CASE ~(l /\ u)
  <2> DEFINE a == LeftUpper(s, u)
             b == AtLower(a, l)
             c == AtUpper(b, u)
             d == CommTimeout(c)
             e == HomingTimedOut(d)
  <2>1. Checked(s, l, u) = e
    BY <1>2 DEF Checked
  <2>2. Sound(a) /\ Settled(s, a, l) /\ (a.mode = "FAULT" => s.mode = "FAULT" \/ u)
    BY LeftUpperSound
  <2> HIDE DEF a
  <2>3. /\ Sound(b) /\ Settled(a, b, l)
        /\ l => b.mode = "IDLE" \/ (b.mode = "MOVING" /\ b.target > 0)
    BY <2>2, AtLowerSound
  <2> HIDE DEF b
  <2>4. /\ Sound(c) /\ Settled(b, c, l)
        /\ u /\ c.mode = "MOVING" => c.target <= c.position
    BY <2>3, AtUpperSound
  <2> HIDE DEF c
  <2>5. Sound(d) /\ Settled(c, d, l) /\ (d = c \/ d.mode \in {"IDLE", "UNHOMED"})
    BY <2>4, CommTimeoutSound
  <2> HIDE DEF d
  <2>6. Sound(e) /\ Settled(d, e, l) /\ (e = d \/ e.mode = "FAULT")
    BY <2>5, HomingTimedOutSound
  <2> HIDE DEF e
  <2>7. Settled(s, b, l)
    BY <2>2, <2>3, <1>2 DEF Settled, Sound
  <2>8. l => c.mode \in {"IDLE", "FAULT"} \/ (c.mode = "MOVING" /\ c.target > 0)
    BY <2>3, <2>4 DEF Settled
  <2>9. Settled(s, c, l)
    BY <2>7, <2>3, <2>4 DEF Settled, Sound
  <2>10. Settled(s, e, l)
    BY <2>9, <2>4, <2>5, <2>6 DEF Settled, Sound
  <2>11. QED
    BY <2>1, <2>4, <2>5, <2>6, <2>8, <2>10
<1>3. QED
  BY <1>1, <1>2

-----------------------------------------------------------------------------
(* The motion.                                                             *)

LEMMA DirectionType ==
  ASSUME NEW s, Sound(s)
  PROVE  /\ Direction(s) \in {-1, 0, 1}
         /\ s.mode = "HOMING" => Direction(s) = -1
         /\ s.mode = "MOVING" => Direction(s) = Sign(s.ramp)
         /\ s.mode \notin InMotion => Direction(s) = 0
  BY DEF Direction, Sign, InMotion

\* What a pulse makes of a record.
LEMMA SteppedSound ==
  ASSUME NEW s, Sound(s), NEW d \in {0, Direction(s)}
  PROVE  /\ Sound(Stepped(s, d)) /\ Stepped(s, d).homed = s.homed
         /\ Stepped(s, d).target = s.target
         /\ s.mode = "MOVING" => Stepped(s, d).position = s.position + d
         /\ Stepped(s, d).position <= s.position \/ s.mode = "MOVING"
         /\ s.mode \notin InMotion => Stepped(s, d) = s
         /\ Stepped(s, d).mode = s.mode \/ (s.mode = "MOVING" /\ Stepped(s, d).mode = "IDLE")
<1> DEFINE t == Stepped(s, d)
<1>1. CASE s.mode = "HOMING"
  <2>1. d \in {-1, 0} /\ s.position \in Coordinates
    BY <1>1, DirectionType DEF Sound, Records
  <2>2. /\ Larger(s.position + d, -Depth - 1) \in Coordinates
        /\ Larger(s.position + d, -Depth - 1) <= s.position
    BY <2>1, CombinedLiftAssumption DEF Larger, Coordinates
  <2>3. t = [s EXCEPT !.position = Larger(s.position + d, -Depth - 1)]
    BY <1>1 DEF Stepped
  <2>4. /\ t.mode = "HOMING" /\ t.homed = s.homed /\ t.target = s.target
        /\ t.position = Larger(s.position + d, -Depth - 1)
    BY <1>1, <2>3 DEF Sound, Records
  <2>5. t \in Records /\ ~t.homed
    BY <1>1, <2>2, <2>3 DEF Sound, Records
  <2>6. Sound(t)
    BY <2>4, <2>5 DEF Sound
  <2>7. QED
    BY <1>1, <2>2, <2>4, <2>6 DEF InMotion
<1>2. CASE s.mode = "MOVING" /\ d = 0
  <2>1. t = s
    BY <1>2 DEF Stepped
  <2>2. s.position + d = s.position
    <3>1. s.position \in Int
      BY Ranges DEF Sound, Records
    <3>2. QED
      BY <1>2, <3>1
  <2>3. QED
    BY <1>2, <2>1, <2>2 DEF InMotion
<1>3. CASE s.mode = "MOVING" /\ d # 0
  <2> DEFINE u == [s EXCEPT !.position = @ + d]
             c == ComputeNewSpeed(u)
             m == IF c.ramp = 0 THEN "IDLE" ELSE "MOVING"
  <2>1. /\ s.homed /\ s.target \in Heights /\ s.ramp \in Ramps /\ s.ramp # 0
        /\ d = Sign(s.ramp) /\ d \in {-1, 1} /\ s.position \in Overshoot
        /\ s.position \in Int /\ s.slowing \in BOOLEAN
        /\ Room(s.position, s.ramp, s.slowing)
    <3>1. s.homed /\ s.ramp \in Int /\ d = Sign(s.ramp)
      BY <1>3, DirectionType, Ranges DEF Sound, Records
    <3>2. s.ramp # 0
      BY <1>3, <3>1 DEF Sign
    <3>3. QED
      BY <1>3, <3>1, <3>2, Ranges DEF Sound, Records, Room, Sign
  <2>2. s.position + d \in Coordinates
    <3>1. CASE s.ramp > 0
      BY <2>1, <3>1, CombinedLiftAssumption
      DEF Room, Overshoot, Coordinates, Sign, Ramps
    <3>2. CASE s.ramp < 0
      BY <2>1, <3>2, CombinedLiftAssumption
      DEF Room, Overshoot, Coordinates, Sign, Ramps
    <3>3. s.ramp \in Int
      BY <2>1, Ranges
    <3>4. QED
      BY <2>1, <3>1, <3>2, <3>3
  <2>3. u \in Records
    BY <2>2 DEF Sound, Records
  <2>4. /\ u.position = s.position + d /\ u.target = s.target /\ u.ramp = s.ramp
        /\ u.slowing = s.slowing /\ u.homed = s.homed /\ u.leaving = s.leaving
    BY DEF Sound, Records
  <2>5. t = [c EXCEPT !.mode = m]
    BY <1>3 DEF Stepped
  <2> HIDE DEF u
  <2>6. /\ c = [u EXCEPT !.ramp = c.ramp, !.slowing = c.slowing, !.halted = FALSE]
        /\ c.ramp \in Ramps /\ c.slowing \in BOOLEAN
        /\ Paced(u.position, u.target, u.ramp, u.slowing, c.ramp, c.slowing)
    <3>1. NewlyPaced(u, ComputeNewSpeed(u))
      BY <2>3, ComputeNewSpeedFacts
    <3>2. QED
      BY <3>1 DEF NewlyPaced
  <2> HIDE DEF c
  <2>7. Room(s.position + d, c.ramp, c.slowing)
    BY <2>1, <2>4, <2>6, PulsedHasRoom
  <2>8. m \in {"IDLE", "MOVING"} /\ m \in Modes
    BY Ranges
  <2> HIDE DEF m, t
  <2>9. /\ t \in Records /\ t.mode = m /\ t.homed = s.homed /\ t.target = s.target
        /\ t.position = s.position + d /\ t.ramp = c.ramp /\ t.slowing = c.slowing
        /\ t.leaving = s.leaving
    BY <2>3, <2>4, <2>5, <2>6, <2>8 DEF Records
  <2>10. Sound(t)
    BY <1>3, <2>1, <2>7, <2>8, <2>9 DEF Sound
  <2>11. QED
    BY <1>3, <2>8, <2>9, <2>10 DEF InMotion, t
<1>4. CASE s.mode \notin InMotion
  BY <1>4, Ranges DEF Stepped, InMotion, Sound, Records
<1>5. QED
  BY <1>1, <1>2, <1>3, <1>4 DEF InMotion

LEMMA AgedSound ==
  ASSUME NEW s, Sound(s), NEW gap \in 1..MaxGap
  PROVE  /\ Sound(Aged(s, gap)) /\ Aged(s, gap).homed = s.homed
         /\ Aged(s, gap).mode = s.mode /\ Aged(s, gap).position = s.position
         /\ Aged(s, gap).target = s.target
<1>1. gap \in Nat
  BY CombinedLiftAssumption
<1>2. /\ Older(s.command_age, gap, CommandTimeout) \in 0..(CommandTimeout + 1)
      /\ Older(s.home_age, gap, HomeTimeout) \in 0..(HomeTimeout + 1)
  <2>1. s.command_age \in 0..(CommandTimeout + 1) /\ s.home_age \in 0..(HomeTimeout + 1)
    BY DEF Sound, Records
  <2>2. QED
    BY <1>1, <2>1, CombinedLiftAssumption DEF Older, Smaller
<1>3. Aged(s, gap) \in Records
  BY <1>2, Ranges DEF Aged, Sound, Records
<1>4. /\ Aged(s, gap).homed = s.homed /\ Aged(s, gap).mode = s.mode
      /\ Aged(s, gap).position = s.position /\ Aged(s, gap).target = s.target
      /\ Aged(s, gap).ramp = s.ramp /\ Aged(s, gap).slowing = s.slowing
      /\ Aged(s, gap).leaving = s.leaving
  BY DEF Aged, Sound, Records
<1>5. QED
  BY <1>3, <1>4 DEF Sound

-----------------------------------------------------------------------------
(* A pass of the lift task.                                                *)

\* The modes a pass may lead to.  One that leaves the mode leads nowhere but
\* downwards, or goes on to a height; one that ends on the switch ends at 0.
Followed ==
  \/ lift'.mode = lift.mode /\ lift.mode = "MOVING"
  \/ /\ lift'.mode = lift.mode
     /\ lift'.target = lift.target /\ lift'.position <= lift.position
  \/ lift'.mode = "FAULT"
  \/ lift.mode = "HOMING" /\ lift'.mode = "UNHOMED"
  \/ lift.mode = "MOVING" /\ lift'.mode = "IDLE"
  \/ lift'.mode = "IDLE" /\ lower' /\ lift'.position = 0 /\ lift'.target = 0

\* What updateLift() may make of the lift.
LEMMA UpdateLiftFacts ==
  ASSUME Sound(lift), UpdateLift
  PROVE  /\ Sound(lift') /\ lower' \in BOOLEAN /\ upper' \in BOOLEAN
         /\ pulse' \in {-1, 0, 1} /\ EndstopsHold'
         /\ ~lift.homed /\ lift'.homed => lower' /\ lift'.position = 0
         /\ Followed
<1>1. PICK l \in BOOLEAN, u \in BOOLEAN, gap \in 1..MaxGap, due \in BOOLEAN :
        LET s == Checked(lift, l, u)
            d == IF due THEN Direction(s) ELSE 0
        IN /\ lower' = l /\ upper' = u /\ pulse' = d
           /\ lift' = Aged(Stepped(s, d), gap)
  BY DEF UpdateLift
<1> DEFINE s == Checked(lift, l, u)
           d == IF due THEN Direction(s) ELSE 0
           t == Stepped(s, d)
<1>2. /\ Sound(s) /\ Settled(lift, s, l)
      /\ l => s.mode # "HOMING" /\ (s.mode = "MOVING" => s.target > 0)
      /\ u /\ s.mode = "MOVING" => s.target <= s.position
  BY CheckedSound
<1>3. lower' = l /\ upper' = u /\ pulse' = d /\ lift' = Aged(t, gap)
  BY <1>1
<1> HIDE DEF s
<1>4. d \in {0, Direction(s)}
  OBVIOUS
<1>5. /\ d \in {-1, 0, 1} /\ (s.mode = "HOMING" => d \in {-1, 0})
      /\ s.mode \notin InMotion => d = 0
  BY <1>2, <1>4, DirectionType
<1> HIDE DEF d
<1>6. /\ Sound(t) /\ t.homed = s.homed /\ t.target = s.target
      /\ s.mode = "MOVING" => t.position = s.position + d
      /\ t.position <= s.position \/ s.mode = "MOVING"
      /\ s.mode \notin InMotion => t = s
      /\ t.mode = s.mode \/ (s.mode = "MOVING" /\ t.mode = "IDLE")
  BY <1>2, <1>4, SteppedSound
<1> HIDE DEF t
<1>7. /\ Sound(lift') /\ lift'.homed = t.homed /\ lift'.mode = t.mode
      /\ lift'.position = t.position /\ lift'.target = t.target
  BY <1>3, <1>6, AgedSound
<1>8. pulse' = -1 /\ lower' => lift'.homed /\ lift'.target > 0
  <2>1. d = -1 /\ l => s.mode = "MOVING"
    BY <1>2, <1>5 DEF InMotion
  <2>2. QED
    BY <1>2, <1>3, <1>6, <1>7, <2>1 DEF Sound
<1>9. pulse' = 1 /\ upper' => lift'.homed /\ lift'.target < lift'.position
  <2>1. SUFFICES ASSUME d = 1, u
                 PROVE  t.homed /\ t.target < t.position
    BY <1>3, <1>7
  <2>2. s.mode = "MOVING"
    BY <1>5, <2>1 DEF InMotion
  <2>3. s.homed /\ s.target \in Int /\ s.position \in Int
    BY <1>2, <2>2, Ranges DEF Sound, Records
  <2>4. s.target <= s.position /\ t.position = s.position + 1 /\ t.target = s.target
    BY <1>2, <1>6, <2>1, <2>2
  <2>5. QED
    BY <1>6, <2>3, <2>4
<1>10. ~lift.homed /\ lift'.homed => lower' /\ lift'.position = 0
  <2>1. SUFFICES ASSUME ~lift.homed, s.homed
                 PROVE  l /\ t.position = 0
    BY <1>3, <1>6, <1>7
  <2>2. s.mode = "IDLE" /\ s.position = 0 /\ l
    BY <1>2, <2>1 DEF Settled, Sound
  <2>3. QED
    BY <1>6, <2>2 DEF InMotion
<1>11. Followed
  <2>1. CASE s.mode = lift.mode /\ s.position = lift.position /\ s.target = lift.target
               /\ s.homed = lift.homed
    BY <1>6, <1>7, <2>1 DEF Sound, Followed
  <2>2. CASE s.mode = "FAULT" /\ ~s.homed
    BY <1>6, <1>7, <2>2 DEF Followed
  <2>3. CASE s.mode = "UNHOMED" /\ lift.mode = "HOMING" /\ ~s.homed
    BY <1>6, <1>7, <2>3 DEF Followed
  <2>4. CASE s.mode = "IDLE" /\ lift.mode = "MOVING" /\ s.homed
    BY <1>6, <1>7, <2>4 DEF Followed
  <2>5. CASE s.mode = "IDLE" /\ s.homed /\ s.position = 0 /\ s.target = 0 /\ l
    <3>1. t = s
      BY <1>6, <2>5 DEF InMotion
    <3>2. QED
      BY <1>3, <1>7, <2>5, <3>1 DEF Followed
  <2>6. QED
    BY <1>2, <2>1, <2>2, <2>3, <2>4, <2>5 DEF Settled
<1>12. QED
  BY <1>3, <1>5, <1>7, <1>8, <1>9, <1>10, <1>11 DEF EndstopsHold

\* What a command makes of the lift and of the queue.
LEMMA ProcessFacts ==
  ASSUME IInv, ProcessLiftCommand
  PROVE  /\ Head(queue) \in LiftCommands /\ lift' = Obeyed(lift, Head(queue))
         /\ Sound(lift') /\ queue' \in Seq(LiftCommands) /\ Len(queue') <= QueueLength
         /\ UNCHANGED <<lower, upper>> /\ pulse' = 0
<1>1. queue \in Seq(LiftCommands) /\ queue # <<>> /\ Len(queue) <= QueueLength
  BY DEF IInv, TypeOK, ProcessLiftCommand
<1>2. /\ Head(queue) \in LiftCommands /\ Tail(queue) \in Seq(LiftCommands)
      /\ Len(Tail(queue)) = Len(queue) - 1
  BY <1>1, HeadTailProperties
<1>3. Len(queue) \in Nat
  BY <1>1, LenProperties
<1>4. Len(Tail(queue)) <= QueueLength
  BY <1>1, <1>2, <1>3, CombinedLiftAssumption
<1>5. /\ queue' = Tail(queue) /\ lift' = Obeyed(lift, Head(queue))
      /\ UNCHANGED <<lower, upper>> /\ pulse' = 0
  BY DEF ProcessLiftCommand
<1>6. Sound(Obeyed(lift, Head(queue)))
  BY <1>2, ObeyedSound DEF IInv, TypeOK, LiftType
<1>7. QED
  BY <1>2, <1>4, <1>5, <1>6

\* A line is queued, or refused when the queue is full.
LEMMA EnqueuedType ==
  ASSUME NEW c \in LiftCommands, queue \in Seq(LiftCommands), Len(queue) <= QueueLength
  PROVE  Enqueued(c) \in Seq(LiftCommands) /\ Len(Enqueued(c)) <= QueueLength
<1>1. CASE Len(queue) < QueueLength
  <2>1. /\ Append(queue, c) \in Seq(LiftCommands)
        /\ Len(Append(queue, c)) = Len(queue) + 1 /\ Len(queue) \in Nat
    BY AppendProperties, LenProperties
  <2>2. QED
    BY <1>1, <2>1, CombinedLiftAssumption DEF Enqueued
<1>2. CASE ~(Len(queue) < QueueLength)
  BY <1>2 DEF Enqueued
<1>3. QED
  BY <1>1, <1>2

-----------------------------------------------------------------------------
(* The invariant.                                                          *)

LEMMA InitIInv == Init => IInv
<1> SUFFICES ASSUME Init PROVE IInv
  OBVIOUS
<1>1. Sound(lift)
  BY PoweredUpSound DEF Init
<1>2. LiftType
  BY <1>1 DEF Init, LiftType, Sound, Records
<1>3. queue \in Seq(LiftCommands) /\ Len(queue) = 0
  BY EmptySeq DEF Init
<1>4. TypeOK /\ FaultLatches
  <2>1. 0 <= QueueLength /\ 0 < InvalidLimit /\ 0 \in 0..InvalidLimit
    BY CombinedLiftAssumption
  <2>2. /\ imu \in {"absent", "ready"} /\ invalid = 0 /\ serial = "read"
        /\ zero_requested = FALSE
    BY DEF Init
  <2>3. QED
    BY <1>2, <1>3, <2>1, <2>2 DEF TypeOK, FaultLatches
<1>5. QED
  BY <1>1, <1>4 DEF Init, IInv, EndstopsHold

LEMMA NextIInv == IInv /\ [Next]_vars => IInv'
<1> SUFFICES ASSUME IInv, [Next]_vars PROVE IInv'
  OBVIOUS
<1>1. CASE ProcessLiftCommand /\ UNCHANGED imuVars
  <2>1. LiftType'
    BY <1>1, ProcessFacts DEF IInv, TypeOK, LiftType, Sound, Records
  <2>2. TypeOK'
    BY <1>1, <2>1, ProcessFacts DEF IInv, TypeOK, imuVars
  <2>3. EndstopsHold'
    BY <1>1, ProcessFacts DEF EndstopsHold
  <2>4. QED
    BY <1>1, <2>2, <2>3, ProcessFacts DEF IInv, FaultLatches, imuVars
<1>2. CASE UpdateLift /\ UNCHANGED imuVars
  <2>1. /\ Sound(lift') /\ lower' \in BOOLEAN /\ upper' \in BOOLEAN
        /\ pulse' \in {-1, 0, 1} /\ EndstopsHold'
    BY <1>2, UpdateLiftFacts DEF IInv
  <2>2. LiftType'
    BY <2>1 DEF LiftType, Sound, Records
  <2>3. TypeOK'
    BY <1>2, <2>2 DEF IInv, TypeOK, imuVars, UpdateLift
  <2>4. QED
    BY <1>2, <2>1, <2>3 DEF IInv, FaultLatches, imuVars
<1>3. CASE \E line \in Lines : ReadLine(line)
  <2>1. PICK line \in Lines : ReadLine(line)
    BY <1>3
  <2>2. line # ZeroLine => line \in LiftCommands
    BY DEF Lines
  <2>3. queue' \in Seq(LiftCommands) /\ Len(queue') <= QueueLength
    BY <2>1, <2>2, EnqueuedType DEF ReadLine, IInv, TypeOK
  <2>4. zero_requested' \in BOOLEAN /\ UNCHANGED <<liftVars, serial, imu, invalid>>
    BY <2>1 DEF ReadLine, IInv, TypeOK
  <2>5. QED
    BY <2>3, <2>4 DEF IInv, TypeOK, LiftType, EndstopsHold, FaultLatches, liftVars
<1>4. CASE ReadDone \/ SampleImu
  <2>1. UNCHANGED <<queue, liftVars>>
    BY <1>4 DEF ReadDone, SampleImu
  <2>2. /\ serial' \in {"read", "sample", "calibrate"}
        /\ imu' \in {"absent", "ready", "faulted"}
        /\ zero_requested' \in BOOLEAN
    BY <1>4 DEF ReadDone, SampleImu, RetryImu, Calibrated, BadSample, GoodSample,
                ImuFaulted, IInv, TypeOK
  <2>3. invalid' \in 0..InvalidLimit /\ FaultLatches'
    <3>1. CASE BadSample
      BY <3>1, CombinedLiftAssumption DEF BadSample, IInv, TypeOK, FaultLatches
    <3>2. CASE ~BadSample
      BY <1>4, <3>2, CombinedLiftAssumption
      DEF ReadDone, SampleImu, RetryImu, Calibrated, GoodSample, ImuFaulted, IInv, TypeOK,
          FaultLatches
    <3>3. QED
      BY <3>1, <3>2
  <2>4. QED
    BY <2>1, <2>2, <2>3 DEF IInv, TypeOK, LiftType, EndstopsHold, liftVars
<1>5. CASE Reset
  <2>1. Sound(lift') /\ LiftType'
    BY <1>5, PoweredUpSound DEF Reset, LiftType, Sound, Records
  <2>2. queue' \in Seq(LiftCommands) /\ Len(queue') = 0
    BY <1>5, EmptySeq DEF Reset
  <2>3. TypeOK' /\ FaultLatches'
    <3>1. 0 <= QueueLength /\ 0 < InvalidLimit /\ 0 \in 0..InvalidLimit
      BY CombinedLiftAssumption
    <3>2. /\ imu' \in {"absent", "ready"} /\ invalid' = 0 /\ serial' = "read"
          /\ zero_requested' = FALSE
      BY <1>5 DEF Reset
    <3>3. QED
      BY <2>1, <2>2, <3>1, <3>2 DEF TypeOK, FaultLatches
  <2>4. QED
    BY <1>5, <2>1, <2>3 DEF Reset, IInv, EndstopsHold
<1>6. CASE UNCHANGED vars
  BY <1>6 DEF vars, liftVars, imuVars, IInv, TypeOK, LiftType, EndstopsHold, FaultLatches
<1>7. QED
  BY <1>1, <1>2, <1>3, <1>4, <1>5, <1>6 DEF Next, TaskLift, TaskIMU

LEMMA SpecIInv == Spec => []IInv
  BY InitIInv, NextIInv, PTL DEF Spec

\* Every variable keeps its type: the task's record, the queue within its length
\* and the count of invalid samples.
THEOREM TypeCorrect == Spec => []TypeOK
<1>1. IInv => TypeOK
  BY DEF IInv
<1>2. QED
  BY <1>1, SpecIInv, PTL

\* The lift rests or moves to a height only with its reference, in every order of
\* commands, switches, timeouts and resets.
THEOREM ModesAgreeAlways == Spec => []ModesAgree
<1>1. IInv => ModesAgree
  BY DEF IInv, Sound, ModesAgree
<1>2. QED
  BY <1>1, SpecIInv, PTL

\* For every travel and every ramp, what the lift overshoots is bounded by a ramp,
\* in every order of commands, timeouts and switches.
THEOREM OvershootBoundedAlways == Spec => []OvershootBounded
<1>1. IInv => OvershootBounded
  BY DEF IInv, Sound, Room, OvershootBounded
<1>2. QED
  BY <1>1, SpecIInv, PTL

\* The pulses into an active switch are the two that EndstopsHold names.
THEOREM EndstopsHoldAlways == Spec => []EndstopsHold
<1>1. IInv => EndstopsHold
  BY DEF IInv
<1>2. QED
  BY <1>1, SpecIInv, PTL

\* A reference comes from an active lower switch.
THEOREM HomedAtBottomAlways == Spec => HomedAtBottom
<1>1. IInv /\ [Next]_vars => [~lift.homed /\ lift'.homed => lower' /\ lift'.position = 0]_vars
  <2> SUFFICES ASSUME IInv, [Next]_vars, ~lift.homed, lift'.homed
               PROVE  lower' /\ lift'.position = 0
    OBVIOUS
  <2>1. CASE ProcessLiftCommand
    BY <2>1, ProcessFacts, ObeyedHomes DEF IInv
  <2>2. CASE UpdateLift
    BY <2>2, UpdateLiftFacts DEF IInv
  <2>3. CASE TaskIMU
    BY <2>3 DEF TaskIMU, ReadLine, ReadDone, SampleImu, liftVars
  <2>4. CASE Reset
    BY <2>4 DEF Reset, PoweredUp
  <2>5. CASE UNCHANGED vars
    BY <2>5 DEF vars, liftVars
  <2>6. QED
    BY <2>1, <2>2, <2>3, <2>4, <2>5 DEF Next, TaskLift
<1>2. QED
  BY <1>1, SpecIInv, PTL DEF Spec, HomedAtBottom

\* An IMU that works is not calibrated anew.
THEOREM YawKeptAlways == Spec => YawKept
<1>1. IInv /\ [Next]_vars => [~Reset /\ imu # "absent" => imu' # "absent"]_vars
  <2> SUFFICES ASSUME IInv, [Next]_vars, ~Reset, imu # "absent"
               PROVE  imu' # "absent" \/ UNCHANGED vars
    OBVIOUS
  <2>1. CASE TaskLift
    BY <2>1 DEF TaskLift, imuVars
  <2>2. CASE \E line \in Lines : ReadLine(line)
    BY <2>2 DEF ReadLine
  <2>3. CASE ReadDone \/ SampleImu
    BY <2>3 DEF ReadDone, SampleImu, RetryImu, Calibrated, BadSample, GoodSample,
                ImuFaulted, IInv, FaultLatches
  <2>4. QED
    BY <2>1, <2>2, <2>3 DEF Next, TaskIMU
<1>2. QED
  BY <1>1, SpecIInv, PTL DEF Spec, YawKept

-----------------------------------------------------------------------------
(* The firmware implements LiftDevice.                                     *)

KindsOf(q) == [i \in DOMAIN q |-> q[i].kind]

LEMMA KindIsKnown ==
  ASSUME NEW c \in LiftCommands
  PROVE  c.kind \in Promise!Kinds
  BY DEF LiftCommands, Command, Promise!Kinds

LEMMA KindsOfType ==
  ASSUME NEW q \in Seq(LiftCommands)
  PROVE  KindsOf(q) \in Seq(Promise!Kinds) /\ Len(KindsOf(q)) = Len(q)
<1>1. \A c \in LiftCommands : c.kind \in Promise!Kinds
  BY KindIsKnown
<1>2. Len(q) \in Nat /\ DOMAIN q = 1..Len(q) /\ q \in [1..Len(q) -> LiftCommands]
  BY SeqDef, LenProperties
<1>3. KindsOf(q) \in [1..Len(q) -> Promise!Kinds]
  BY <1>1, <1>2 DEF KindsOf
<1>4. QED
  BY <1>2, <1>3, SeqDef, LenProperties

\* The commands of the promise follow those of the queue.
LEMMA KindsOfAppend ==
  ASSUME NEW q \in Seq(LiftCommands), NEW c \in LiftCommands
  PROVE  KindsOf(Append(q, c)) = Append(KindsOf(q), c.kind)
<1> DEFINE a == Append(q, c)
           k == KindsOf(q)
<1>1. /\ a \in Seq(LiftCommands) /\ Len(a) = Len(q) + 1 /\ Len(q) \in Nat
      /\ \A i \in 1..Len(q) : a[i] = q[i]
      /\ a[Len(q) + 1] = c
  BY AppendProperties, LenProperties
<1>2. k \in Seq(Promise!Kinds) /\ Len(k) = Len(q) /\ c.kind \in Promise!Kinds
  BY KindsOfType, KindIsKnown
<1>3. /\ Append(k, c.kind) \in Seq(Promise!Kinds) /\ Len(Append(k, c.kind)) = Len(q) + 1
      /\ \A i \in 1..Len(q) : Append(k, c.kind)[i] = k[i]
      /\ Append(k, c.kind)[Len(q) + 1] = c.kind
  BY <1>2, AppendProperties
<1>4. /\ DOMAIN q = 1..Len(q) /\ DOMAIN a = 1..(Len(q) + 1)
      /\ DOMAIN Append(k, c.kind) = 1..(Len(q) + 1)
  BY <1>1, <1>3, LenProperties
<1>5. \A i \in 1..(Len(q) + 1) : KindsOf(a)[i] = Append(k, c.kind)[i]
  <2> SUFFICES ASSUME NEW i \in 1..(Len(q) + 1)
               PROVE  a[i].kind = Append(k, c.kind)[i]
    BY <1>4 DEF KindsOf
  <2>1. CASE i = Len(q) + 1
    BY <1>1, <1>3, <2>1
  <2>2. CASE i # Len(q) + 1
    <3>1. i \in 1..Len(q)
      BY <1>1, <2>2
    <3>2. k[i] = q[i].kind
      BY <1>4, <3>1 DEF KindsOf
    <3>3. QED
      BY <1>1, <1>3, <3>1, <3>2
  <2>3. QED
    BY <2>1, <2>2
<1>6. /\ KindsOf(a) = [i \in 1..(Len(q) + 1) |-> KindsOf(a)[i]]
      /\ Append(k, c.kind) = [i \in 1..(Len(q) + 1) |-> Append(k, c.kind)[i]]
  <2>1. Append(k, c.kind) \in [1..(Len(q) + 1) -> Promise!Kinds]
    BY <1>3, SeqDef, LenProperties
  <2>2. KindsOf(a) = [i \in 1..(Len(q) + 1) |-> KindsOf(a)[i]]
    BY <1>4 DEF KindsOf
  <2>3. QED
    BY <2>1, <2>2
<1>7. QED
  BY <1>5, <1>6

LEMMA KindsOfTail ==
  ASSUME NEW q \in Seq(LiftCommands), q # <<>>
  PROVE  /\ KindsOf(q) # <<>> /\ Head(KindsOf(q)) = Head(q).kind
         /\ KindsOf(Tail(q)) = Tail(KindsOf(q))
<1> DEFINE k == KindsOf(q)
           t == Tail(q)
<1>1. k \in Seq(Promise!Kinds) /\ Len(k) = Len(q) /\ Len(q) \in Nat /\ Len(q) # 0
  BY KindsOfType, LenProperties, EmptySeq
<1>2. k # <<>>
  BY <1>1, EmptySeq
<1>3. /\ Head(q) = q[1] /\ t \in Seq(LiftCommands) /\ Len(t) = Len(q) - 1
      /\ \A i \in 1..Len(t) : t[i] = q[i + 1]
  BY HeadTailProperties
<1>4. /\ Head(k) = k[1] /\ Tail(k) \in Seq(Promise!Kinds) /\ Len(Tail(k)) = Len(q) - 1
      /\ \A i \in 1..Len(Tail(k)) : Tail(k)[i] = k[i + 1]
  BY <1>1, <1>2, HeadTailProperties
<1>5. /\ DOMAIN q = 1..Len(q) /\ DOMAIN t = 1..(Len(q) - 1)
      /\ DOMAIN Tail(k) = 1..(Len(q) - 1)
  BY <1>3, <1>4, LenProperties
<1>6. \A i \in 1..Len(q) : k[i] = q[i].kind
  BY <1>5 DEF KindsOf
<1>7. \A i \in 1..(Len(q) - 1) : KindsOf(t)[i] = Tail(k)[i]
  <2> SUFFICES ASSUME NEW i \in 1..(Len(q) - 1)
               PROVE  t[i].kind = Tail(k)[i]
    BY <1>5 DEF KindsOf
  <2>1. i + 1 \in 1..Len(q)
    BY <1>1
  <2>2. QED
    BY <1>3, <1>4, <1>6, <2>1
<1>8. /\ KindsOf(t) = [i \in 1..(Len(q) - 1) |-> KindsOf(t)[i]]
      /\ Tail(k) = [i \in 1..(Len(q) - 1) |-> Tail(k)[i]]
  <2>1. Tail(k) \in [1..(Len(q) - 1) -> Promise!Kinds]
    BY <1>4, SeqDef, LenProperties
  <2>2. KindsOf(t) = [i \in 1..(Len(q) - 1) |-> KindsOf(t)[i]]
    BY <1>5 DEF KindsOf
  <2>3. QED
    BY <2>1, <2>2
<1>9. KindsOf(t) = Tail(k)
  BY <1>7, <1>8
<1>10. 1 \in 1..Len(q)
  BY <1>1
<1>11. QED
  BY <1>2, <1>3, <1>4, <1>6, <1>9, <1>10

\* What the bridge is told of a sound lift: only the target of a lift that rests
\* with its reference may be out of range.
LEMMA ReportFacts ==
  ASSUME NEW s, Sound(s), NEW l \in BOOLEAN
  PROVE  /\ Report(s, l) \in Promise!States
         /\ Report(s, l).mode = s.mode /\ Report(s, l).lower = l
         /\ Report(s, l).fits <=> s.position >= -Depth /\ s.target \in Heights
         /\ s.homed /\ s.target \in Heights => Report(s, l).fits
         /\ s.mode = "MOVING" => Report(s, l).fits
         /\ Promise!Homed(Report(s, l)) <=> s.homed
<1>1. s.mode \in Promise!Modes
  BY DEF Sound, Records, Modes, InMotion, Promise!Modes
<1>2. s.homed => s.position >= -Depth
  BY Ranges DEF Sound, Room
<1>3. s.mode = "MOVING" => s.homed /\ s.target \in Heights
  BY DEF Sound
<1>4. Report(s, l) \in Promise!States
  BY <1>1 DEF Report, Promise!States
<1>5. QED
  BY <1>2, <1>3, <1>4 DEF Report, Promise!Homed, Sound

\* Two reports are equal when mode, switch and range are.
LEMMA SameReport ==
  ASSUME NEW a \in Promise!States, NEW b \in Promise!States,
         a.mode = b.mode, a.lower = b.lower, a.fits <=> b.fits
  PROVE  a = b
  BY DEF Promise!States

LEMMA PoweredUpReport == Report(PoweredUp, FALSE) = Promise!Unpowered
<1>1. /\ PoweredUp.mode = "UNHOMED" /\ PoweredUp.position = 0 /\ PoweredUp.target = 0
      /\ 0 >= -Depth /\ 0 \in Heights
  BY Ranges, CombinedLiftAssumption DEF PoweredUp
<1>2. /\ Promise!Unpowered \in Promise!States /\ Promise!Unpowered.fits
      /\ Promise!Unpowered.mode = "UNHOMED" /\ Promise!Unpowered.lower = FALSE
  BY DEF Promise!Unpowered, Promise!States, Promise!Modes
<1>3. /\ Report(PoweredUp, FALSE) \in Promise!States
      /\ Report(PoweredUp, FALSE).mode = "UNHOMED"
      /\ Report(PoweredUp, FALSE).lower = FALSE /\ Report(PoweredUp, FALSE).fits
  BY <1>1, PoweredUpSound, ReportFacts
<1>4. QED
  BY <1>2, <1>3, SameReport

\* A command does what the promise says.
LEMMA ObeyedKeepsPromise ==
  ASSUME NEW s, Sound(s), NEW c \in LiftCommands, lower \in BOOLEAN, upper \in BOOLEAN
  PROVE  Report(Obeyed(s, c), lower) \in Promise!After(Report(s, lower), c.kind)
<1> DEFINE t == Obeyed(s, c)
           r == Report(s, lower)
           q == Report(t, lower)
<1>1. Sound(t)
  BY ObeyedSound
<1>2. /\ r \in Promise!States /\ r.mode = s.mode /\ r.lower = lower
      /\ r.fits <=> s.position >= -Depth /\ s.target \in Heights
      /\ Promise!Homed(r) <=> s.homed
  BY ReportFacts
<1>3. /\ q \in Promise!States /\ q.mode = t.mode /\ q.lower = lower
      /\ q.fits <=> t.position >= -Depth /\ t.target \in Heights
      /\ t.homed /\ t.target \in Heights => q.fits
      /\ Promise!Homed(q) <=> t.homed
  BY <1>1, ReportFacts
<1>4. c.kind \in {"HOME", "STOP", "HB", "SET"}
  BY DEF LiftCommands, Command
<1>5. CASE c.kind = "HOME"
  <2>1. t = StartLiftHome(s)
    BY <1>5 DEF Obeyed
  <2>2. CASE s.mode = "FAULT" /\ lower /\ upper
    <3>1. t = s
      BY <2>1, <2>2 DEF StartLiftHome
    <3>2. q = r
      BY <3>1
    <3>3. r \in Promise!Home(r)
      BY <1>2, <2>2 DEF Promise!Home
    <3>4. QED
      BY <1>5, <3>2, <3>3 DEF Promise!After
  <2>3. CASE lower /\ ~(s.mode = "FAULT" /\ lower /\ upper)
    <3>1. t.mode = "IDLE" /\ t.homed /\ t.target \in Heights
      BY <2>1, <2>3, AcceptLowerHomeFacts, Ranges DEF StartLiftHome
    <3>2. q = [r EXCEPT !.mode = "IDLE", !.fits = TRUE]
      BY <1>2, <1>3, <3>1 DEF Promise!States
    <3>3. q \in Promise!Home(r)
      BY <1>2, <1>3, <2>3, <3>2 DEF Promise!Home
    <3>4. QED
      BY <1>5, <3>3 DEF Promise!After
  <2>4. CASE ~lower
    <3>1. t.mode = "HOMING" /\ t.position = s.position /\ t.target = s.target
      BY <2>1, <2>4 DEF StartLiftHome, AtRest, Starting, Sound, Records
    <3>2. q = [r EXCEPT !.mode = "HOMING"]
      BY <1>2, <1>3, <3>1 DEF Promise!States
    <3>3. q \in Promise!Home(r)
      BY <1>2, <1>3, <2>4, <3>2 DEF Promise!Home
    <3>4. QED
      BY <1>5, <3>3 DEF Promise!After
  <2>5. QED
    BY <2>2, <2>3, <2>4
<1>6. CASE c.kind = "STOP"
  <2>1. t.mode = Resting(s) /\ t.homed = s.homed
    <3>1. /\ StopLift(s, Resting(s)).mode = Resting(s)
          /\ StopLift(s, Resting(s)).homed = s.homed
          /\ StopLift(s, Resting(s)) \in Records
      BY RestingSound, StopLiftSound DEF Sound
    <3>2. QED
      BY <1>6, <3>1 DEF Obeyed, Records
  <2>2. q \in Promise!Stop(r)
    BY <1>2, <1>3, <2>1 DEF Promise!Stop, Resting
  <2>3. QED
    BY <1>6, <2>2 DEF Promise!After
<1>7. CASE c.kind = "HB"
  <2>1. t.mode = s.mode /\ t.position = s.position /\ t.target = s.target
    BY <1>7 DEF Obeyed, Sound, Records
  <2>2. q = r
    BY <1>2, <1>3, <2>1, SameReport
  <2>3. QED
    BY <1>7, <2>2 DEF Promise!After
<1>8. CASE c.kind = "SET"
  <2>1. t = SetLiftTarget(s, c.position)
    BY <1>8 DEF Obeyed
  <2>2. \/ t = s
        \/ s.homed /\ t.homed /\ t.mode \in {"IDLE", "MOVING"} /\ t.target \in Heights
    BY <2>1, SetLiftTargetSound
  <2>3. q \in Promise!Set(r)
    BY <1>2, <1>3, <2>2 DEF Promise!Set
  <2>4. QED
    BY <1>8, <2>3 DEF Promise!After
<1>9. QED
  BY <1>4, <1>5, <1>6, <1>7, <1>8

LEMMA UpdateKeepsPromise ==
  ASSUME Sound(lift), lower \in BOOLEAN, UpdateLift
  PROVE  Report(lift', lower') \in Promise!Moves(Report(lift, lower))
<1> DEFINE r == Report(lift, lower)
           q == Report(lift', lower')
<1>1. Sound(lift') /\ lower' \in BOOLEAN /\ Followed
  BY UpdateLiftFacts
<1>2. /\ r.mode = lift.mode /\ r.lower = lower
      /\ r.fits <=> lift.position >= -Depth /\ lift.target \in Heights
      /\ lift.mode = "MOVING" => r.fits
  BY ReportFacts
<1>3. /\ q \in Promise!States /\ q.mode = lift'.mode /\ q.lower = lower'
      /\ q.fits <=> lift'.position >= -Depth /\ lift'.target \in Heights
      /\ lift'.mode = "MOVING" => q.fits
  BY <1>1, ReportFacts
<1>4. Promise!Fitting(q)
  BY <1>3 DEF Promise!Fitting
<1>5. CASE lift'.mode = lift.mode /\ lift.mode = "MOVING"
  BY <1>2, <1>3, <1>4, <1>5 DEF Promise!Moves
<1>6. CASE /\ lift'.mode = lift.mode
           /\ lift'.target = lift.target /\ lift'.position <= lift.position
  <2>1. lift.position \in Int /\ lift'.position \in Int
    BY <1>1, Ranges DEF Sound, Records
  <2>2. lift'.position >= -Depth => lift.position >= -Depth
    BY <1>6, <2>1, CombinedLiftAssumption
  <2>3. QED
    BY <1>2, <1>3, <1>4, <1>6, <2>2 DEF Promise!Moves
<1>7. CASE lift'.mode = "IDLE" /\ lower' /\ lift'.position = 0 /\ lift'.target = 0
  <2>1. q.fits
    BY <1>3, <1>7, Ranges, CombinedLiftAssumption
  <2>2. QED
    BY <1>3, <1>4, <1>7, <2>1 DEF Promise!Moves
<1>8. QED
  BY <1>1, <1>2, <1>3, <1>4, <1>5, <1>6, <1>7 DEF Followed, Promise!Moves

\* Every step of the firmware is one of the promise, or changes nothing it tells.
LEMMA NextKeepsPromise ==
  IInv /\ [Next]_vars => [Promise!Next]_(Promise!deviceVars)
<1> SUFFICES ASSUME IInv, [Next]_vars PROVE [Promise!Next]_(Promise!deviceVars)
  OBVIOUS
<1>1. /\ queue \in Seq(LiftCommands) /\ Sound(lift)
      /\ lower \in BOOLEAN /\ upper \in BOOLEAN
  BY DEF IInv, TypeOK, LiftType
<1>2. CASE ProcessLiftCommand
  <2>1. /\ queue # <<>> /\ queue' = Tail(queue) /\ lower' = lower
        /\ Head(queue) \in LiftCommands /\ lift' = Obeyed(lift, Head(queue))
    BY <1>2, ProcessFacts DEF ProcessLiftCommand
  <2>2. /\ KindsOf(queue) # <<>> /\ KindsOf(queue') = Tail(KindsOf(queue))
        /\ Head(KindsOf(queue)) = Head(queue).kind
    BY <1>1, <2>1, KindsOfTail
  <2>3. Report(lift', lower') \in Promise!After(Report(lift, lower), Head(queue).kind)
    BY <1>1, <2>1, ObeyedKeepsPromise
  <2>4. Promise!Obey
    BY <2>2, <2>3 DEF Promise!Obey, KindsOf
  <2>5. QED
    BY <2>4 DEF Promise!Next
<1>3. CASE UpdateLift
  <2>1. Report(lift', lower') \in Promise!Moves(Report(lift, lower)) /\ queue' = queue
    BY <1>1, <1>3, UpdateKeepsPromise DEF UpdateLift
  <2>2. Promise!Run
    BY <2>1 DEF Promise!Run
  <2>3. QED
    BY <2>2 DEF Promise!Next
<1>4. CASE \E line \in Lines : ReadLine(line)
  <2>1. PICK line \in Lines : ReadLine(line)
    BY <1>4
  <2>2. lift' = lift /\ lower' = lower
    BY <2>1 DEF ReadLine, liftVars
  <2>3. CASE queue' = queue
    BY <2>2, <2>3 DEF Promise!deviceVars
  <2>4. CASE line # ZeroLine /\ queue' = Append(queue, line)
    <3>1. line \in LiftCommands
      BY <2>4 DEF Lines
    <3>2. KindsOf(queue') = Append(KindsOf(queue), line.kind)
      BY <1>1, <2>4, <3>1, KindsOfAppend
    <3>3. line.kind \in Promise!Kinds
      BY <3>1, KindIsKnown
    <3>4. Promise!Receive(line.kind)
      BY <2>2, <3>2 DEF Promise!Receive, KindsOf
    <3>5. QED
      BY <3>3, <3>4 DEF Promise!Next
  <2>5. QED
    BY <2>1, <2>3, <2>4 DEF ReadLine, Enqueued
<1>5. CASE ReadDone \/ SampleImu \/ UNCHANGED vars
  <2>1. lift' = lift /\ lower' = lower /\ queue' = queue
    BY <1>5 DEF ReadDone, SampleImu, liftVars, vars
  <2>2. QED
    BY <2>1 DEF Promise!deviceVars
<1>6. CASE Reset
  <2>1. KindsOf(queue') = <<>>
    <3>1. queue' = <<>>
      BY <1>6 DEF Reset
    <3>2. KindsOf(queue') \in Seq(Promise!Kinds) /\ Len(KindsOf(queue')) = 0
      BY <3>1, KindsOfType, EmptySeq
    <3>3. QED
      BY <3>2, EmptySeq
  <2>2. Report(lift', lower') = Promise!Unpowered
    BY <1>6, PoweredUpReport DEF Reset
  <2>3. Promise!Reset
    BY <2>1, <2>2 DEF Promise!Reset, KindsOf
  <2>4. QED
    BY <2>3 DEF Promise!Next
<1>7. QED
  BY <1>2, <1>3, <1>4, <1>5, <1>6 DEF Next, TaskLift, TaskIMU

\* For every travel, ramp, timeout and queue the firmware keeps the promises that
\* the bridge is checked against.
THEOREM Implements == Spec => ImplementsDevice
<1>1. Init => Promise!Init
  <2> SUFFICES ASSUME Init PROVE Promise!Init
    OBVIOUS
  <2>1. queue = <<>> /\ lift = PoweredUp /\ lower = FALSE
    BY DEF Init
  <2>2. KindsOf(queue) = <<>>
    <3>1. KindsOf(queue) \in Seq(Promise!Kinds) /\ Len(KindsOf(queue)) = 0
      BY <2>1, KindsOfType, EmptySeq
    <3>2. QED
      BY <3>1, EmptySeq
  <2>3. Report(lift, lower) = Promise!Unpowered
    BY <2>1, PoweredUpReport
  <2>4. QED
    BY <2>2, <2>3 DEF Promise!Init, KindsOf
<1>2. QED
  BY <1>1, NextKeepsPromise, SpecIInv, PTL DEF Spec, ImplementsDevice, Promise!Spec
=============================================================================
