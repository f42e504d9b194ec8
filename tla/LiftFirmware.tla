---------------------------- MODULE LiftFirmware ----------------------------
(***************************************************************************)
(* The stand-alone lift ESP32 (esp32_firmware/Projects/cang_nang_ha).  One *)
(* pass of loop() is a Tick that samples millis() and the debounced limit  *)
(* switches, any number of received lines, the limit-switch handling, the  *)
(* watchdog and the motion step.                                           *)
(*                                                                         *)
(* Data abstractions.  A switch may have any level at any pass: it is      *)
(* pressed, its NC wire breaks, steps are lost.  sessionActive is          *)
(* sessionId # NoSession and homing is homingStage # "NONE".  The height   *)
(* is counted in steps from the reference and is kept at 0 while there is  *)
(* none (~homed): nothing but telemetry reads it then.  An age is kept     *)
(* only while a handler may read it, and saturates.  The STATE line, which *)
(* only reads the state, is left out.                                      *)
(***************************************************************************)
EXTENDS Integers

CONSTANTS
  Sessions,         \* the non-zero ids a host may draw
  NoSession,        \* 0 in the code
  SequenceModulus,  \* 2^32
  Sequences,        \* the sequence numbers a frame may carry
  Unseen,           \* sequenceSeen is FALSE
  Positions,        \* the heights a SET may carry, in range or not
  Top,              \* LIFT_MAX_M in steps (LIFT_MIN_M is 0)
  EndTolerance,     \* ENDSTOP_POSITION_TOLERANCE_M in steps
  MaxRamp,          \* steps AccelStepper needs to reach its maximum speed
  ReleaseTravel,    \* HOMING_RELEASE_MAX_TRAVEL_M in steps
  ReleaseTimeout,   \* HOMING_RELEASE_TIMEOUT_MS
  HomingTimeout,    \* HOMING_TIMEOUT_MS
  WatchdogTimeout,  \* COMMAND_WATCHDOG_MS
  MaxLoopGap        \* the longest time between two passes of loop()

\* Times are positive, and an active switch at one end is never near the other.
ASSUME LiftAssumption ==
  /\ Top \in Nat /\ EndTolerance \in Nat /\ 2 * EndTolerance < Top
  /\ MaxRamp \in Nat \ {0}
  /\ Positions \subseteq Int
  /\ ReleaseTravel \in Nat
  /\ ReleaseTimeout \in Nat /\ HomingTimeout \in Nat
  /\ WatchdogTimeout \in Nat
  /\ MaxLoopGap \in Nat \ {0}

\* Ids and sequence numbers; NoSession and Unseen are none of them.
ASSUME SessionAssumption ==
  /\ NoSession \notin Sessions
  /\ SequenceModulus \in Nat \ {0}
  /\ Sequences \subseteq 0..(SequenceModulus - 1)
  /\ Unseen \notin Sequences

VARIABLES
  pc,                \* what loop() does next
  lower, upper,      \* lowerLimit.active(), upperLimit.active()
  fault, homed, armed, homingStage,
  sessionId, retiredSessionId, lastSequence,
  command_age,       \* nowMs - lastCommandMs
  homing_age,        \* nowMs - homingStartedMs
  stage_age,         \* nowMs - homingStageStartedMs
  position, target,  \* stepper.currentPosition(), stepper.targetPosition()
  ramp,              \* signed number of steps in which the stepper can stop
  travel,            \* |currentPosition() - homingReleaseStartSteps|
  pulse,             \* the step pulse of the last motion step: -1, 0 or 1
  tx,                \* what this step wrote to the USB port, if anything
  target_session,    \* history: the session whose SET gave the target
  lower_seen_open    \* history: the lower switch was open during this homing

limits == <<lower, upper>>
modes == <<fault, homed, armed, homingStage>>
session == <<sessionId, retiredSessionId, lastSequence>>
stepper == <<position, target, ramp, travel, target_session>>
homingTimes == <<homing_age, stage_age, lower_seen_open>>
vars == <<pc, limits, modes, session, command_age, homingTimes, stepper, pulse,
          tx>>

Phases == {"tick", "read", "switches", "watchdog", "motion"}
FaultCodes == {"NONE", "COMM_TIMEOUT", "BOTH_LIMITS_ACTIVE", "HOMING_TIMEOUT",
               "HOMING_RELEASE_FAILED", "ENDSTOP_POSITION_MISMATCH"}
Stages == {"NONE", "RELEASE_LOWER", "RELEASE_UPPER", "SEEK_LOWER"}
Heights == 0..Top

sessionActive == sessionId # NoSession
homing == homingStage # "NONE"

Silent == [kind |-> "SILENT", what |-> "NONE"]
Boot == [kind |-> "BOOT", what |-> "LIFT_CONTROL"]
Event(e) == [kind |-> "EVENT", what |-> e]
Ack(command) == [kind |-> "ACK", what |-> command]
Err(reason) == [kind |-> "ERR", what |-> reason]

\* A line that parses; only SET carries a position.
Line(c, s, n, p) == [command |-> c, session |-> s, seq |-> n, position |-> p]
Envelopes == {"HB", "STATUS", "STOP", "CLEAR", "HOME", "ARM"}
Lines ==
  {Line(c, s, n, 0) : c \in Envelopes, s \in Sessions, n \in Sequences}
    \cup {Line("SET", s, n, p) :
            s \in Sessions, n \in Sequences, p \in Positions}

Larger(a, b) == IF a < b THEN b ELSE a
Smaller(a, b) == IF a < b THEN a ELSE b
Sign(n) == IF n > 0 THEN 1 ELSE IF n < 0 THEN -1 ELSE 0
Size(n) == IF n < 0 THEN 0 - n ELSE n

\* (Mutant: the stop only takes the target away.)
StopKeepsSpeed(p) ==
  /\ position' = p /\ target' = p /\ ramp' = ramp /\ travel' = 0
  /\ target_session' = NoSession

\* stopMotionImmediately(), with the position set to p first.
StopAt(p) ==
  /\ position' = p /\ target' = p /\ ramp' = 0 /\ travel' = 0
  /\ target_session' = NoSession

NotHoming ==
  /\ homingStage' = "NONE"
  /\ homing_age' = 0 /\ stage_age' = 0 /\ lower_seen_open' = FALSE

\* latchFault(): stop, disarm, and forget the reference unless only the link
\* failed.  A latched code is only replaced by BOTH_LIMITS_ACTIVE.
KeepsReference(code) == code = "COMM_TIMEOUT"

LatchFault(code) ==
  /\ fault' = IF fault = "NONE" \/ code = "BOTH_LIMITS_ACTIVE" THEN code
              ELSE fault
  /\ armed' = FALSE
  /\ NotHoming
  /\ homed' = (homed /\ KeepsReference(code))
  /\ StopAt(IF homed' THEN position ELSE 0)

-----------------------------------------------------------------------------
\* setup(): no reference, no session; two active switches are a fault at once.
Init ==
  /\ pc = "tick"
  /\ lower \in BOOLEAN /\ upper \in BOOLEAN
  /\ fault = IF lower /\ upper THEN "BOTH_LIMITS_ACTIVE" ELSE "NONE"
  /\ homed = FALSE /\ armed = FALSE /\ homingStage = "NONE"
  /\ sessionId = NoSession /\ retiredSessionId = NoSession
  /\ lastSequence = Unseen
  /\ command_age = 0 /\ homing_age = 0 /\ stage_age = 0
  /\ position = 0 /\ target = 0 /\ ramp = 0 /\ travel = 0 /\ pulse = 0
  /\ tx = Boot
  /\ target_session = NoSession /\ lower_seen_open = FALSE

\* The ESP32 resets anywhere in loop().
Reset ==
  /\ pc' = "tick"
  /\ lower' \in BOOLEAN /\ upper' \in BOOLEAN
  /\ fault' = IF lower' /\ upper' THEN "BOTH_LIMITS_ACTIVE" ELSE "NONE"
  /\ homed' = FALSE /\ armed' = FALSE
  /\ NotHoming
  /\ sessionId' = NoSession /\ retiredSessionId' = NoSession
  /\ lastSequence' = Unseen
  /\ command_age' = 0
  /\ StopAt(0)
  /\ pulse' = 0
  /\ tx' = Boot

\* The next pass samples millis() and the debounced switches.  An age is not
\* counted further than one pass beyond the longest test of it.
Older(age, d, limit) == Smaller(age + d, limit + 1)

Tick ==
  /\ pc = "tick" /\ pc' = "read"
  /\ lower' \in BOOLEAN /\ upper' \in BOOLEAN
  /\ \E d \in 1..MaxLoopGap :
       /\ command_age' = IF armed \/ homing
                         THEN Older(command_age, d, WatchdogTimeout) ELSE 0
       /\ homing_age' = IF homing THEN Older(homing_age, d, HomingTimeout) ELSE 0
       /\ stage_age' = IF homing THEN Older(stage_age, d, ReleaseTimeout) ELSE 0
  /\ lower_seen_open' = (homing /\ (lower_seen_open \/ ~lower'))
  /\ pulse' = 0
  /\ tx' = Silent
  /\ UNCHANGED <<modes, session, stepper>>

-----------------------------------------------------------------------------
(* The received lines.                                                     *)

RefreshWatchdog == command_age' = 0

\* (Mutant: only a homing is given up.)
HaltHoming ==
  /\ NotHoming
  /\ UNCHANGED <<armed, stepper>>

\* Stop at once, disarm, and give up a homing: HELLO, STOP and CLEAR.
Halt ==
  /\ armed' = FALSE
  /\ NotHoming
  /\ StopAt(position)

Refuse(reason) ==
  /\ tx' = Err(reason)
  /\ UNCHANGED <<modes, command_age, homingTimes, stepper>>

\* n comes after m: as an int32, the difference of the two is positive.
Ahead(n, m) ==
  LET d == IF n >= m THEN n - m ELSE n - m + SequenceModulus
  IN 0 < d /\ d < SequenceModulus \div 2

SequenceIsNew(n) == lastSequence # Unseen => Ahead(n, lastSequence)

ValidEnvelope(f) ==
  sessionActive /\ f.session = sessionId /\ SequenceIsNew(f.seq)

\* A line whose envelope is refused changes nothing.
RefuseEnvelope(f) ==
  /\ ~ValidEnvelope(f)
  /\ Refuse(IF sessionActive /\ f.session = sessionId THEN "STALE_SEQUENCE"
            ELSE "BAD_SESSION")
  /\ UNCHANGED session

\* (Mutant: a HELLO with the active id starts the session anew.)
SameSessionAnew(s) == FALSE

SameSession(s) == sessionActive /\ s = sessionId

\* beginSession(): the lift stops before the id is looked at.  The active id
\* again is only a refresh; 0 and the last retired id are refused.
HandleHello(s) ==
  /\ pc = "read"
  /\ Halt
  /\ \/ /\ SameSession(s)
        /\ RefreshWatchdog
        /\ tx' = Ack("HELLO")
        /\ UNCHANGED session
     \/ /\ ~SameSession(s) /\ s \in {NoSession, retiredSessionId}
        /\ tx' = Err("SESSION_ID_REUSE")
        /\ UNCHANGED <<session, command_age>>
     \/ /\ ~SameSession(s) /\ s \notin {NoSession, retiredSessionId}
        /\ retiredSessionId' = IF sessionActive THEN sessionId
                               ELSE retiredSessionId
        /\ sessionId' = s
        /\ lastSequence' = Unseen
        /\ RefreshWatchdog
        /\ tx' = Ack("HELLO")
  /\ UNCHANGED <<pc, limits, fault, homed, pulse>>

HandleHb(f) ==
  /\ f.command = "HB"
  /\ RefreshWatchdog
  /\ tx' = Ack("HB")
  /\ UNCHANGED <<modes, homingTimes, stepper>>

\* STATUS deliberately does not feed the watchdog.
HandleStatus(f) ==
  /\ f.command = "STATUS"
  /\ tx' = Ack("STATUS")
  /\ UNCHANGED <<modes, command_age, homingTimes, stepper>>

HandleStop(f) ==
  /\ f.command = "STOP"
  /\ Halt
  /\ RefreshWatchdog
  /\ tx' = Ack("STOP")
  /\ UNCHANGED <<fault, homed>>

HandleClear(f) ==
  /\ f.command = "CLEAR"
  /\ Halt
  /\ \/ /\ lower /\ upper
        /\ tx' = Err("LIMITS_STILL_INVALID")
        /\ UNCHANGED <<fault, command_age>>
     \/ /\ ~(lower /\ upper)
        /\ fault' = "NONE"
        /\ RefreshWatchdog
        /\ tx' = Ack("CLEAR")
  /\ UNCHANGED homed

\* (Mutants: an active switch is taken for the bottom; the old reference stays.)
StartHomingDown ==
  /\ armed' = FALSE /\ homed' = FALSE
  /\ homingStage' = "SEEK_LOWER"
  /\ homing_age' = 0 /\ stage_age' = 0
  /\ lower_seen_open' = ~lower
  /\ StopAt(0)
StartHomingHomed ==
  /\ armed' = FALSE /\ homed' = homed
  /\ homingStage' = IF lower THEN "RELEASE_LOWER"
                    ELSE IF upper THEN "RELEASE_UPPER" ELSE "SEEK_LOWER"
  /\ homing_age' = 0 /\ stage_age' = 0
  /\ lower_seen_open' = ~lower
  /\ StopAt(0)

\* startHoming(): an active switch is released first, so that a fresh edge of
\* the lower one is found.
StartHoming ==
  /\ armed' = FALSE /\ homed' = FALSE
  /\ homingStage' = IF lower THEN "RELEASE_LOWER"
                    ELSE IF upper THEN "RELEASE_UPPER" ELSE "SEEK_LOWER"
  /\ homing_age' = 0 /\ stage_age' = 0
  /\ lower_seen_open' = ~lower
  /\ StopAt(0)

HandleHome(f) ==
  /\ f.command = "HOME"
  /\ \/ fault # "NONE" /\ Refuse(fault)
     \/ /\ fault = "NONE"
        /\ RefreshWatchdog
        /\ StartHoming
        /\ tx' = Ack("HOME")
        /\ UNCHANGED fault

\* The target starts from where the lift is.
HandleArm(f) ==
  /\ f.command = "ARM"
  /\ \/ fault # "NONE" /\ Refuse(fault)
     \/ fault = "NONE" /\ ~homed /\ Refuse("NOT_HOMED")
     \/ /\ fault = "NONE" /\ homed
        /\ armed' = TRUE
        /\ NotHoming
        /\ target' = position
        /\ RefreshWatchdog
        /\ tx' = Ack("ARM")
        /\ UNCHANGED <<fault, homed, position, ramp, travel, target_session>>

\* Into an active switch there is no way.
LimitActive(p) == (p < position /\ lower) \/ (p > position /\ upper)

SetReason(p) ==
  IF fault # "NONE" THEN fault
  ELSE IF ~armed \/ ~homed THEN "NOT_ARMED"
  ELSE IF p \notin Heights THEN "POSITION_RANGE"
  ELSE IF LimitActive(p) THEN "LIMIT_ACTIVE"
  ELSE "NONE"

HandleSet(f) ==
  /\ f.command = "SET"
  /\ \/ SetReason(f.position) # "NONE" /\ Refuse(SetReason(f.position))
     \/ /\ SetReason(f.position) = "NONE"
        /\ target' = f.position
        /\ target_session' = sessionId
        /\ RefreshWatchdog
        /\ tx' = Ack("SET")
        /\ UNCHANGED <<modes, homingTimes, position, ramp, travel>>

\* handleAuthenticatedCommand(): the sequence is used up before the command is
\* looked at any further.
HandleLine(f) ==
  /\ pc = "read"
  /\ \/ RefuseEnvelope(f)
     \/ /\ ValidEnvelope(f)
        /\ lastSequence' = f.seq
        /\ UNCHANGED <<sessionId, retiredSessionId>>
        /\ \/ HandleHb(f) \/ HandleStatus(f) \/ HandleStop(f) \/ HandleClear(f)
           \/ HandleHome(f) \/ HandleArm(f) \/ HandleSet(f)
  /\ UNCHANGED <<pc, limits, pulse>>

\* Too long, too many fields, no number, or no command.
Malformed ==
  /\ pc = "read"
  /\ \E reason \in {"LINE_TOO_LONG", "TOO_MANY_FIELDS", "BAD_FORMAT",
                     "BAD_POSITION", "UNKNOWN_COMMAND"} : Refuse(reason)
  /\ UNCHANGED <<pc, limits, session, pulse>>

ReadDone ==
  /\ pc = "read" /\ pc' = "switches"
  /\ tx' = Silent
  /\ UNCHANGED <<limits, modes, session, command_age, homingTimes, stepper,
                 pulse>>

-----------------------------------------------------------------------------
(* The rest of the pass.                                                   *)

\* The switch is released: look for the edge of the lower one.
SeekLower ==
  /\ homingStage' = "SEEK_LOWER"
  /\ stage_age' = 0
  /\ StopAt(position)
  /\ tx' = Event("HOME_STARTED")
  /\ UNCHANGED <<fault, homed, armed, homing_age, lower_seen_open>>

CompleteHoming ==
  /\ homed' = TRUE /\ armed' = FALSE
  /\ NotHoming
  /\ StopAt(0)
  /\ tx' = Event("HOME_COMPLETE")
  /\ UNCHANGED fault

Fail(code) == LatchFault(code) /\ tx' = Event(code)

\* Nothing to do for the switches.
Stay ==
  /\ tx' = Silent
  /\ UNCHANGED <<modes, homingTimes, stepper>>

HomingSwitches ==
  \/ /\ homingStage = "RELEASE_LOWER"
     /\ \/ upper /\ Fail("HOMING_RELEASE_FAILED")
        \/ ~upper /\ ~lower /\ SeekLower
        \/ ~upper /\ lower /\ Stay
  \/ /\ homingStage = "RELEASE_UPPER"
     /\ (~upper /\ SeekLower) \/ (upper /\ Stay)
  \/ /\ homingStage = "SEEK_LOWER"
     /\ \/ upper /\ Fail("HOMING_RELEASE_FAILED")
        \/ ~upper /\ lower /\ CompleteHoming
        \/ ~upper /\ ~lower /\ Stay

\* An active switch where it cannot be.
EndstopMismatch ==
  (lower /\ position > EndTolerance) \/ (upper /\ position < Top - EndTolerance)

\* (Mutant: the ends are swapped.)
HitsLowerSwapped == lower /\ target > position

\* An active switch ahead stops the lift and is the new reference of that end.
HitsLower == lower /\ target < position
HitsUpper == upper /\ target > position

ReReference(end) ==
  /\ StopAt(end)
  /\ tx' = Silent
  /\ UNCHANGED <<modes, homingTimes>>

ArmedSwitches ==
  \/ EndstopMismatch /\ LatchFault("ENDSTOP_POSITION_MISMATCH") /\ tx' = Silent
  \/ ~EndstopMismatch /\ HitsLower /\ ReReference(0)
  \/ ~EndstopMismatch /\ ~HitsLower /\ HitsUpper /\ ReReference(Top)
  \/ ~EndstopMismatch /\ ~HitsLower /\ ~HitsUpper /\ Stay

HandleLimitSwitches ==
  /\ pc = "switches" /\ pc' = "watchdog"
  /\ \/ lower /\ upper /\ LatchFault("BOTH_LIMITS_ACTIVE") /\ tx' = Silent
     \/ ~(lower /\ upper) /\ homing /\ HomingSwitches
     \/ ~(lower /\ upper) /\ ~homing /\ armed /\ ArmedSwitches
     \/ ~(lower /\ upper) /\ ~homing /\ ~armed /\ Stay
  /\ UNCHANGED <<limits, session, command_age, pulse>>

\* (Mutant: the watchdog does not look after a homing.)
WatchdogArmedOnly == sessionActive /\ armed /\ command_age > WatchdogTimeout

WatchdogExpired ==
  sessionActive /\ (armed \/ homing) /\ command_age > WatchdogTimeout

\* COMM_TIMEOUT stops the lift and retires the session.
CheckWatchdog ==
  /\ pc = "watchdog" /\ pc' = "motion"
  /\ \/ /\ WatchdogExpired
        /\ Fail("COMM_TIMEOUT")
        /\ retiredSessionId' = sessionId
        /\ sessionId' = NoSession
        /\ lastSequence' = Unseen
     \/ /\ ~WatchdogExpired
        /\ Stay
        /\ UNCHANGED session
  /\ UNCHANGED <<limits, command_age, pulse>>

Releasing == homingStage \in {"RELEASE_LOWER", "RELEASE_UPPER"}

\* runSpeed() makes a step when one is due; only a release counts its way.
HomingStep(d) ==
  /\ pulse' \in {0, d}
  /\ travel' = IF Releasing THEN travel + Size(pulse') ELSE travel
  /\ tx' = Silent
  /\ UNCHANGED <<modes, homingTimes, position, target, ramp, target_session>>

\* AccelStepper::run(): no step is due, or one in the direction of the motion;
\* then it speeds up while the target is further than its way to stop.
RampAfter(d, ahead) ==
  IF ahead > Size(ramp) THEN d * Smaller(Size(ramp) + 1, MaxRamp)
  ELSE d * Larger(Size(ramp) - 1, 0)

ArmedStep ==
  /\ LET d == IF ramp # 0 THEN Sign(ramp) ELSE Sign(target - position) IN
     \/ /\ pulse' = 0
        /\ UNCHANGED <<position, ramp>>
     \/ /\ pulse' = d
        /\ position' = position + d
        /\ ramp' = RampAfter(d, d * (target - position) - 1)
  /\ tx' = Silent
  /\ UNCHANGED <<modes, homingTimes, target, travel, target_session>>

\* (Mutant: the seek has no time limit.)
HomingNeverExpires == FALSE

HomingExpired == homing_age > HomingTimeout

ReleaseFails == travel > ReleaseTravel \/ stage_age > ReleaseTimeout

HomingMotion ==
  \/ /\ Releasing /\ ReleaseFails
     /\ Fail("HOMING_RELEASE_FAILED") /\ pulse' = 0
  \/ /\ Releasing /\ ~ReleaseFails
     /\ HomingStep(IF homingStage = "RELEASE_LOWER" THEN 1 ELSE -1)
  \/ /\ ~Releasing /\ HomingExpired
     /\ Fail("HOMING_TIMEOUT") /\ pulse' = 0
  \/ /\ ~Releasing /\ ~HomingExpired
     /\ HomingStep(-1)

RunMotion ==
  /\ pc = "motion" /\ pc' = "tick"
  /\ \/ fault = "NONE" /\ homing /\ HomingMotion
     \/ fault = "NONE" /\ ~homing /\ armed /\ ArmedStep
     \/ (fault # "NONE" \/ (~homing /\ ~armed)) /\ Stay /\ pulse' = 0
  /\ UNCHANGED <<limits, session, command_age>>

-----------------------------------------------------------------------------
Loop == Tick \/ ReadDone \/ HandleLimitSwitches \/ CheckWatchdog \/ RunMotion
Receive ==
  \/ \E s \in Sessions \cup {NoSession} : HandleHello(s)
  \/ \E f \in Lines : HandleLine(f)
  \/ Malformed

Next == Loop \/ Receive \/ Reset

Spec == Init /\ [][Next]_vars

\* loop() is called again and again and readSerial() returns.  Nothing is asked
\* of the host or of the switches.
FairSpec == Spec /\ WF_vars(Loop)

-----------------------------------------------------------------------------
(* Correctness.                                                            *)

\* Every variable has its type; a height is within the travel.
TypeOK ==
  /\ pc \in Phases
  /\ lower \in BOOLEAN /\ upper \in BOOLEAN
  /\ fault \in FaultCodes /\ homingStage \in Stages
  /\ homed \in BOOLEAN /\ armed \in BOOLEAN
  /\ sessionId \in Sessions \cup {NoSession}
  /\ retiredSessionId \in Sessions \cup {NoSession}
  /\ lastSequence \in Sequences \cup {Unseen}
  /\ command_age \in 0..(WatchdogTimeout + 1)
  /\ homing_age \in 0..(HomingTimeout + 1)
  /\ stage_age \in 0..(ReleaseTimeout + 1)
  /\ position \in Heights /\ target \in Heights
  /\ ramp \in (-MaxRamp)..MaxRamp
  /\ travel \in 0..(ReleaseTravel + 1)
  /\ pulse \in {-1, 0, 1}
  /\ target_session \in Sessions \cup {NoSession}
  /\ lower_seen_open \in BOOLEAN

\* An armed lift has a session, a reference and no fault, and it is not homing;
\* a homing lift has a session, no fault and no reference.  No order of HELLO,
\* CLEAR, HOME, ARM, faults and timeouts leads anywhere else.
ArmedIsSafe ==
  /\ armed => sessionActive /\ homed /\ fault = "NONE" /\ ~homing
  /\ homing => sessionActive /\ ~homed /\ fault = "NONE"

\* Every geometry or endstop fault invalidates the reference, so that CLEAR does
\* not bypass a new HOME (PROTOCOL.md line 120).
GeometryFaultUnhomes == fault \notin {"NONE", "COMM_TIMEOUT"} => ~homed

\* A reference only ever comes from a fresh edge of the lower switch: it was seen
\* open during this homing and is now active, and the upper one is not.  A broken
\* NC wire, which reads as active for ever, is never taken for the bottom.
FreshEdgeHomes ==
  [][~homed /\ homed' => homing /\ lower_seen_open /\ lower /\ ~upper]_vars

\* A step pulse needs a session that was heard within the watchdog's time.
PulsesNeedLease ==
  pulse # 0 =>
    sessionActive /\ (armed \/ homing) /\ command_age <= WatchdogTimeout

\* The lift never goes to a height commanded by an earlier session, or before a
\* stop (PROTOCOL.md line 86: "the lift never resumes the old target"): with a way
\* to go, or with speed left, it is in the session whose SET sent it, and has not
\* been stopped since, whatever HELLO, fault, HOME and ARM came between.  The code
\* sees to it twice, when it stops (the target becomes the place) and when it arms.
NoOldTarget ==
  armed /\ (target # position \/ ramp # 0) => target_session = sessionId

\* Within a session no line is acted on twice or after a later one (up to the
\* wrap of the numbers): every line acted on is ahead of the one before, whatever
\* HELLO comes between.
NoReplay ==
  [][sessionActive /\ sessionId' = sessionId /\ lastSequence # Unseen =>
       \/ lastSequence' = lastSequence
            /\ (tx'.kind = "ACK" => tx'.what = "HELLO")
       \/ lastSequence' # Unseen /\ Ahead(lastSequence', lastSequence)]_vars

\* With its reference, the lift can always stop within the travel, whatever heights
\* it was sent to on the way and wherever an endstop gave it a new position (run()
\* brakes by itself; nothing looks at the position while it does).
StopsWithinTravel == homed => position + ramp \in Heights

\* No pulse goes into an active switch, but for two cases: in the one pass that
\* releases the upper switch the lower one is not looked at, and a lift that was
\* told to turn round brakes, within the tolerance of that end.
EndstopsHold ==
  /\ pulse = -1 /\ lower =>
       \/ homing /\ stage_age = 0
       \/ armed /\ target > position /\ position < EndTolerance
  /\ pulse = 1 /\ upper =>
       armed /\ target < position /\ position > Top - EndTolerance

HomeAccepted == tx' = Ack("HOME")

\* A homing always ends: with a reference, a fault, or a command that stops it.
HomingEnds == <>[][~HomeAccepted]_vars => <>[](~homing)

\* The lift as LiftContract describes it.
PortLift ==
  [session |-> sessionId, retired |-> retiredSessionId,
   fault |-> IF fault \in {"NONE", "COMM_TIMEOUT"} THEN fault ELSE "GEOMETRY",
   homed |-> homed,
   mode |-> IF armed THEN "armed" ELSE IF homing THEN "homing" ELSE "idle"]

PortAnswer ==
  CASE tx.kind = "ACK" -> [kind |-> "ACK", command |-> tx.what]
    [] tx.kind = "EVENT" ->
         [kind |-> IF tx.what \in {"HOME_STARTED", "HOME_COMPLETE"} THEN "SILENT"
                   ELSE "FAULT"]
    [] tx.kind \in {"BOOT", "ERR", "SILENT"} -> [kind |-> tx.kind]

Port == INSTANCE LiftContract WITH lift <- PortLift, answer <- PortAnswer

\* The firmware does with each line, and by itself, what the plug-in's model of
\* the lift counts on: it is armed or homing only as its host has been told, and
\* no HELLO, refusal, fault or timeout changes more than the host expects.
ImplementsPort == Port!Spec

\* PROTOCOL.md line 111: "Both endstops are enforced inside the ESP32".  The code
\* looks at the way to the target, not at the direction of the motion.
EndstopsEnforced ==
  /\ ~(armed /\ pulse = -1 /\ lower)
  /\ ~(armed /\ pulse = 1 /\ upper)
=============================================================================
