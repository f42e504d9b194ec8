---------------------------- MODULE CombinedLift ----------------------------
(***************************************************************************)
(* The ESP32 with the IMU and the lift (bno055_imu_monitor).  The IMU task *)
(* on core 0 reads the serial port and reports; the lift task on core 1    *)
(* moves the stepper.  A command goes from one to the other through a      *)
(* FreeRTOS queue, the state goes back through a snapshot.                 *)
(*                                                                         *)
(* Data abstractions.  A switch may have any debounced level at any pass   *)
(* of the lift task.  Heights are steps; below 0 is the coordinate a       *)
(* homing without reference counts down to, kept down to one step below    *)
(* Depth.  A ramp is told from its steps, not from the intervals between   *)
(* them; it is kept while there is a reference, since the next reference   *)
(* clears what AccelStepper counts.  An age is kept only while a test may read it, and saturates.    *)
(* The texts of faults and events are left out.  The clock of a pass of    *)
(* the lift task is sampled at the end of the pass before it.              *)
(***************************************************************************)
EXTENDS Integers, Sequences

CONSTANTS
  Positions,       \* the heights a SET may carry, in range or not
  Top,             \* LIFT_MAX_POSITION_M in steps
  Depth,           \* the lowest coordinate the bridge takes, -0.60 m, in steps
  MaxRamp,         \* the pulses AccelStepper needs to stop from its maximum speed
  CommandTimeout,  \* LIFT_COMMAND_TIMEOUT_MS
  ReleaseTimeout,  \* LIFT_HOME_UPPER_RELEASE_TIMEOUT_MS
  HomeTimeout,     \* LIFT_HOME_TIMEOUT_MS
  MaxGap,          \* the longest time between two passes of the lift task
  QueueLength,     \* of liftCommandQueue, 16
  InvalidLimit     \* IMU_INVALID_SAMPLE_LIMIT

ASSUME CombinedLiftAssumption ==
  /\ Positions \subseteq Int
  /\ Top \in Nat \ {0} /\ Depth \in Nat
  /\ MaxRamp \in Nat \ {0} /\ MaxRamp <= Depth
  /\ CommandTimeout \in Nat /\ ReleaseTimeout \in Nat /\ HomeTimeout \in Nat
  /\ MaxGap \in Nat \ {0}
  /\ QueueLength \in Nat \ {0} /\ InvalidLimit \in Nat \ {0}

VARIABLES
  queue,     \* liftCommandQueue
  lift,      \* the globals of the lift task, a record
  lower, upper,  \* lowerLimit.active, upperLimit.active
  pulse,     \* the pulse of the last step of the lift task: -1, 0 or 1
  serial,    \* what the IMU task does next: read lines, sample, or calibrate
  imu,       \* bnoAvailable, bnoDataFaultLatched: "absent", "ready", "faulted"
  invalid,   \* invalidSampleCount
  zero_requested

imuVars == <<serial, imu, invalid, zero_requested>>
liftVars == <<lift, lower, upper, pulse>>
vars == <<queue, liftVars, imuVars>>

Heights == 0..Top
Overshoot == (-MaxRamp)..(Top + MaxRamp)
Coordinates == (-Depth - 1)..(Top + MaxRamp)
InMotion == {"MOVING", "HOMING"}
Ramps == (-MaxRamp)..MaxRamp
Modes == {"UNHOMED", "IDLE", "FAULT"} \cup InMotion

\* A line that parses, and the lift command it is queued as; only SET carries a
\* height.
Command(kind, p) == [kind |-> kind, position |-> p]
LiftCommands ==
  {Command(k, 0) : k \in {"HOME", "STOP", "HB"}}
    \cup {Command("SET", p) : p \in Positions}
ZeroLine == Command("Z", 0)
Lines == LiftCommands \cup {ZeroLine}

Smaller(a, b) == IF a < b THEN a ELSE b
Larger(a, b) == IF a < b THEN b ELSE a
Sign(n) == IF n > 0 THEN 1 ELSE IF n < 0 THEN -1 ELSE 0
Size(n) == IF n < 0 THEN 0 - n ELSE n

-----------------------------------------------------------------------------
(* What the lift task does with its globals.                               *)

\* ramp: the pulses it takes to stop, with the sign of the direction, 0 at rest.
\* slowing: AccelStepper's counter of steps is negative, it brakes.  halted: the
\* speed was set to 0 and that counter was not.
PoweredUp ==
  [mode |-> "UNHOMED", homed |-> FALSE, leaving |-> FALSE, position |-> 0,
   target |-> 0, ramp |-> 0, slowing |-> FALSE, halted |-> FALSE,
   command_age |-> 0, home_age |-> 0]

Starting(s, d) == [s EXCEPT !.ramp = d, !.slowing = FALSE, !.halted = FALSE]
AtRest(s) == Starting(s, 0)

\* The steps AccelStepper thinks it needs to stop: none when its speed is 0.
WayToStop(s) == IF s.ramp = 0 \/ s.halted THEN 0 ELSE Size(s.ramp) - 1

\* It brakes before the target and on a way that does not lead there.  At the
\* target it goes on with what it did.
Brakes(s, ahead) ==
  IF ahead = 0 THEN s.slowing
  ELSE WayToStop(s) >= Size(ahead) \/ Sign(ahead) # Sign(s.ramp)

\* The first pulse from rest, after braking, or when nothing is to be braked.
StartsAnew(s, ahead) ==
  \/ s.ramp = 0
  \/ s.slowing /\ Size(s.ramp) = 1
  \/ ~s.slowing /\ Brakes(s, ahead) /\ WayToStop(s) = 0

ComputeNewSpeed(s) ==
  LET ahead == s.target - s.position
      pace(n, brakes) == [s EXCEPT !.ramp = Sign(@) * n, !.slowing = brakes,
                                   !.halted = FALSE]
  IN CASE ahead = 0 /\ WayToStop(s) <= 1 -> AtRest(s)
       [] ahead # 0 /\ StartsAnew(s, ahead) -> Starting(s, Sign(ahead))
       [] OTHER -> IF Brakes(s, ahead) THEN pace(Size(s.ramp) - 1, TRUE)
                   ELSE pace(Smaller(Size(s.ramp) + 1, MaxRamp), FALSE)

MoveTo(s, p) ==
  IF p = s.target THEN s ELSE ComputeNewSpeed([s EXCEPT !.target = p])

SetCurrentPosition(s, p) == AtRest([s EXCEPT !.position = p, !.target = p])

\* stopLift() moves to where the lift is and sets the speed to 0.  That keeps the
\* ramp of a lift that was fast: a target in the same direction resumes it.
StopLift(s, next) ==
  LET t == MoveTo(s, s.position)
  IN [t EXCEPT !.halted = (t.ramp # 0), !.mode = next, !.leaving = FALSE]

Resting(s) == IF s.homed THEN "IDLE" ELSE "UNHOMED"

\* setLiftFault()
SetFault(s) == [AtRest(StopLift(s, "FAULT")) EXCEPT !.homed = FALSE]

AcceptLowerHome(s) ==
  [SetCurrentPosition(s, 0) EXCEPT !.homed = TRUE, !.leaving = FALSE,
                                   !.mode = "IDLE"]

\* HOME clears a fault unless both switches are active.  On the lower switch
\* there is nothing to look for.
StartLiftHome(s) ==
  IF s.mode = "FAULT" /\ lower /\ upper THEN s
  ELSE IF lower THEN [AcceptLowerHome(s) EXCEPT !.command_age = 0]
  ELSE [AtRest(s) EXCEPT !.homed = FALSE, !.leaving = upper, !.mode = "HOMING",
                         !.command_age = 0, !.home_age = 0]

\* (Mutant: a SET is taken during a homing.)
SetLiftTargetWhileHoming(s, p) ==
  IF p \notin Heights \/ s.mode = "FAULT" THEN s
  ELSE [MoveTo(s, p) EXCEPT !.command_age = 0,
                            !.mode = IF p = s.position THEN "IDLE" ELSE "MOVING"]

SetLiftTarget(s, p) ==
  IF p \notin Heights \/ ~s.homed \/ s.mode \in {"HOMING", "FAULT"} THEN s
  ELSE [MoveTo(s, p) EXCEPT !.command_age = 0,
                            !.mode = IF p = s.position THEN "IDLE" ELSE "MOVING"]

\* One turn of the loop of processLiftCommands().
Obeyed(s, c) ==
  CASE c.kind = "HOME" -> StartLiftHome(s)
    [] c.kind = "STOP" -> [StopLift(s, Resting(s)) EXCEPT !.command_age = 0]
    [] c.kind = "HB"   -> [s EXCEPT !.command_age = 0]
    [] c.kind = "SET"  -> SetLiftTarget(s, c.position)

\* updateLift(), test by test.  A homing that starts on the upper switch may
\* stay there for a while; one that meets it has gone the wrong way.
LeftUpper(s, u) ==
  IF s.mode # "HOMING" THEN s
  ELSE IF ~u THEN [s EXCEPT !.leaving = FALSE]
  ELSE IF ~s.leaving \/ s.home_age > ReleaseTimeout THEN SetFault(s)
  ELSE s

\* The lower switch is the reference unless the target lies above the bottom.
AtLower(s, l) ==
  LET moving_up == s.mode = "MOVING" /\ s.target > 0 IN
  IF ~l THEN s
  ELSE IF moving_up
    THEN IF s.homed THEN s
         ELSE [SetCurrentPosition(s, 0) EXCEPT !.target = s.target, !.homed = TRUE]
  ELSE IF s.homed /\ s.mode = "IDLE" /\ s.position = 0 THEN s
  ELSE AcceptLowerHome(s)

AtUpper(s, u) ==
  IF u /\ s.mode = "MOVING" /\ s.target > s.position
  THEN StopLift(SetCurrentPosition(s, Top), "IDLE")
  ELSE s

\* (Mutant: the watchdog looks after a homing only.)
CommTimeoutHomingOnly(s) ==
  IF s.mode = "HOMING" /\ s.command_age > CommandTimeout
  THEN StopLift(s, Resting(s)) ELSE s

CommTimeout(s) ==
  IF s.mode \in InMotion /\ s.command_age > CommandTimeout
  THEN StopLift(s, Resting(s)) ELSE s

HomingTimedOut(s) ==
  IF s.mode = "HOMING" /\ s.home_age > HomeTimeout THEN SetFault(s) ELSE s

Checked(s, l, u) ==
  IF l /\ u THEN IF s.mode = "FAULT" THEN s ELSE SetFault(s)
  ELSE HomingTimedOut(CommTimeout(AtUpper(AtLower(LeftUpper(s, u), l), u)))

\* The step pulse that may be due: runSpeed() downwards, or run().
Direction(s) ==
  CASE s.mode = "HOMING" -> -1
    [] s.mode = "MOVING" -> Sign(s.ramp)
    [] OTHER -> 0

\* After a pulse run() computes the speed of the next one.
Stepped(s, d) ==
  CASE s.mode = "HOMING" -> [s EXCEPT !.position = Larger(@ + d, -Depth - 1)]
    [] s.mode = "MOVING" /\ d # 0 ->
         LET t == ComputeNewSpeed([s EXCEPT !.position = @ + d])
         IN [t EXCEPT !.mode = IF t.ramp = 0 THEN "IDLE" ELSE "MOVING"]
    [] OTHER -> s

\* The ages of the next pass.
Older(age, gap, limit) == Smaller(age + gap, limit + 1)
Aged(s, gap) ==
  [s EXCEPT !.command_age = IF s.mode \in InMotion
                            THEN Older(@, gap, CommandTimeout) ELSE 0,
            !.home_age = IF s.mode = "HOMING" THEN Older(@, gap, HomeTimeout) ELSE 0]

\* What the telemetry tells of the lift, apart from homed, which the mode tells as
\* well (ModesAgree); fits: the bridge takes its numbers.  Its limit of the
\* position above the top, one centimetre, is the whole ramp of the stepper and is
\* left out.
Report(s, l) ==
  [mode |-> s.mode, lower |-> l,
   fits |-> s.position >= -Depth /\ s.target \in Heights]

-----------------------------------------------------------------------------
(* Core 1: TaskLift().                                                     *)

ProcessLiftCommand ==
  /\ queue # <<>> /\ queue' = Tail(queue)
  /\ lift' = Obeyed(lift, Head(queue)) /\ pulse' = 0
  /\ UNCHANGED <<lower, upper>>

\* updateLift(), the rest of the pass.
UpdateLift ==
  /\ queue = <<>>
  /\ \E l \in BOOLEAN, u \in BOOLEAN, gap \in 1..MaxGap, due \in BOOLEAN :
       LET s == Checked(lift, l, u)
           d == IF due THEN Direction(s) ELSE 0
       IN /\ lower' = l /\ upper' = u /\ pulse' = d
          /\ lift' = Aged(Stepped(s, d), gap)
  /\ UNCHANGED queue

TaskLift == (ProcessLiftCommand \/ UpdateLift) /\ UNCHANGED imuVars

-----------------------------------------------------------------------------
(* Core 0: TaskIMU().                                                      *)

\* (Mutant: a full queue loses its oldest command instead of the new one.)
EnqueuedForced(c) == IF Len(queue) < QueueLength THEN Append(queue, c)
                     ELSE Append(Tail(queue), c)

\* enqueueLiftCommand(): a full queue rejects the command.
Enqueued(c) == IF Len(queue) < QueueLength THEN Append(queue, c) ELSE queue

\* handleSerialCommand().  A zero is only promised while the IMU works.
ReadLine(line) ==
  /\ serial = "read"
  /\ \/ /\ line = ZeroLine
        /\ zero_requested' = (zero_requested \/ imu = "ready")
        /\ UNCHANGED queue
     \/ /\ line # ZeroLine
        /\ queue' = Enqueued(line)
        /\ UNCHANGED zero_requested
  /\ UNCHANGED <<liftVars, serial, imu, invalid>>

\* Nothing left to read; publishLiftTelemetry() only reads the lift.
ReadDone ==
  /\ serial = "read" /\ serial' = "sample"
  /\ UNCHANGED <<queue, liftVars, imu, invalid, zero_requested>>

\* No IMU at power-up: it is tried again every two seconds, and trying takes two
\* seconds in which nothing is read.
RetryImu ==
  /\ serial = "sample" /\ imu = "absent"
  /\ serial' \in {"read", "calibrate"}
  /\ UNCHANGED <<imu, invalid, zero_requested>>

Calibrated ==
  /\ serial = "calibrate" /\ serial' = "read"
  /\ imu' \in {"absent", "ready"}
  /\ UNCHANGED <<invalid, zero_requested>>

\* (Mutant: a faulted IMU is looked for again.)
BadSampleRetried ==
  /\ serial = "sample" /\ imu = "ready" /\ serial' = "read"
  /\ invalid' = invalid + 1
  /\ imu' = IF invalid' >= InvalidLimit THEN "absent" ELSE "ready"
  /\ UNCHANGED zero_requested

\* A run of invalid samples latches a fault until the ESP32 is reset.
BadSample ==
  /\ serial = "sample" /\ imu = "ready" /\ serial' = "read"
  /\ invalid' = invalid + 1
  /\ imu' = IF invalid' >= InvalidLimit THEN "faulted" ELSE "ready"
  /\ UNCHANGED zero_requested

\* A zero is applied to a valid sample only.
GoodSample ==
  /\ serial = "sample" /\ imu = "ready" /\ serial' = "read"
  /\ invalid' = 0 /\ zero_requested' = FALSE
  /\ UNCHANGED imu

ImuFaulted ==
  /\ serial = "sample" /\ imu = "faulted" /\ serial' = "read"
  /\ UNCHANGED <<imu, invalid, zero_requested>>

SampleImu ==
  /\ RetryImu \/ Calibrated \/ BadSample \/ GoodSample \/ ImuFaulted
  /\ UNCHANGED <<queue, liftVars>>

-----------------------------------------------------------------------------
\* setup(): the tasks start after the first attempt at the IMU.
Init ==
  /\ queue = <<>>
  /\ lift = PoweredUp /\ lower = FALSE /\ upper = FALSE /\ pulse = 0
  /\ serial = "read" /\ imu \in {"absent", "ready"}
  /\ invalid = 0 /\ zero_requested = FALSE

\* A reset loses the lines and the commands of both cores.
Reset ==
  /\ queue' = <<>>
  /\ lift' = PoweredUp /\ lower' = FALSE /\ upper' = FALSE /\ pulse' = 0
  /\ serial' = "read" /\ imu' \in {"absent", "ready"}
  /\ invalid' = 0 /\ zero_requested' = FALSE

TaskIMU == (\E line \in Lines : ReadLine(line)) \/ ReadDone \/ SampleImu

Next == TaskLift \/ TaskIMU \/ Reset

Spec == Init /\ [][Next]_vars

\* The lift task yields and is scheduled again, so it goes on to updateLift() when
\* its loop over the queue has ended; that loop ends at the first empty read: a
\* line takes at least half a millisecond to arrive, a turn of that loop
\* microseconds.  Nothing is asked of core 0, which may be stuck in the IMU for as
\* long as it likes.
LinesComeSlowly == []<>(queue = <<>>)
FairSpec == Spec /\ LinesComeSlowly /\ SF_vars(UpdateLift /\ UNCHANGED imuVars)

-----------------------------------------------------------------------------
(* Correctness.                                                            *)

LiftType ==
  /\ lift \in [mode : Modes, homed : BOOLEAN, leaving : BOOLEAN,
               position : Coordinates, target : Coordinates,
               ramp : Ramps, slowing : BOOLEAN, halted : BOOLEAN,
               command_age : 0..(CommandTimeout + 1),
               home_age : 0..(HomeTimeout + 1)]
  /\ lower \in BOOLEAN /\ upper \in BOOLEAN /\ pulse \in {-1, 0, 1}

\* Every variable has its type.
TypeOK ==
  /\ LiftType
  /\ queue \in Seq(LiftCommands) /\ Len(queue) <= QueueLength
  /\ serial \in {"read", "sample", "calibrate"}
  /\ imu \in {"absent", "ready", "faulted"}
  /\ invalid \in 0..InvalidLimit /\ zero_requested \in BOOLEAN

\* The lift has its reference exactly while it rests or goes to a height.  So no
\* order of HOME, SET, STOP, faults, timeouts and switches moves it to a height
\* without a reference, and every loss of it shows in the mode.
ModesAgree ==
  /\ lift.homed <=> lift.mode \in {"IDLE", "MOVING"}
  /\ lift.leaving => lift.mode = "HOMING"

\* With its reference, the lift never sets out for a height outside its travel,
\* and what it may overshoot is bounded by one ramp, position and way to stop
\* together: also when it is stopped at full speed, told the same direction again
\* just before the end, and resumes the speed it had.
OvershootBounded ==
  /\ lift.mode = "MOVING" => lift.target \in Heights
  /\ lift.homed => {lift.position, lift.position + lift.ramp} \subseteq Overshoot

\* A reference only ever comes from an active lower switch, whichever of HOME,
\* an old fault or the switch itself gives it.
HomedAtBottom == [][~lift.homed /\ lift'.homed => lower' /\ lift'.position = 0]_vars

\* No pulse goes into an active switch, but for two cases: the lift is on the way
\* to a height above the bottom when it meets the lower switch, or it is past its
\* target, told to turn round or stopped at speed, and brakes.
EndstopsHold ==
  /\ pulse = -1 /\ lower => lift.homed /\ lift.target > 0
  /\ pulse = 1 /\ upper => lift.homed /\ lift.target < lift.position

\* An IMU that has worked is never calibrated anew without a reset, whatever its
\* samples look like ("must not silently reinitialize and redefine yaw while the
\* robot may be moving", main.cpp:711).
YawKept == [][~Reset /\ imu # "absent" => imu' # "absent"]_vars

\* The firmware keeps the promises of LiftDevice: a SET never starts a motion
\* without a reference, a HOME never ends with one that is not from the switch,
\* and the numbers of a report are in range while it moves to a height.
Promise == INSTANCE LiftDevice WITH
  pending <- [i \in DOMAIN queue |-> queue[i].kind],
  state <- Report(lift, lower)
ImplementsDevice == Promise!Spec

\* Motion does not outlive the commands: again and again the lift is at rest or
\* a command has just been obeyed, also when core 0 hangs in the IMU or the queue
\* has been full and lost a STOP or a heartbeat.
SilenceStops == []<>(lift.mode \notin InMotion \/ lift.command_age = 0)
=============================================================================
