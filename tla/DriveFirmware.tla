--------------------------- MODULE DriveFirmware ---------------------------
(***************************************************************************)
(* The base-drive ESP32 (esp32_firmware/Projects/amr_firmware).  One pass  *)
(* of loop() is a Tick that samples millis(), any number of received       *)
(* lines, the command watchdog, the motor control and the telemetry.       *)
(*                                                                         *)
(* Data abstractions.  A speed is an integer, in the same unit for the     *)
(* requested speed and the ramped set-point; a speed within ZeroTolerance  *)
(* is what the code calls zero.  output_pwm is the magnitude of the duty   *)
(* cycle.  now_ms - last_command_ms is kept as one number, command_age,    *)
(* which wraps at MillisModulus (2^32 in the code) as the unsigned         *)
(* subtraction does.                                                       *)
(***************************************************************************)
EXTENDS Integers, FiniteSets

CONSTANTS
  Wheels,          \* FL, FR, RL, RR in the code
  Speeds,          \* the wheel speeds a CMD may carry
  ZeroTolerance,   \* 0.001 rad/s
  Acceleration,    \* kMaxAccelerationRpmPerSec, per unit of time
  PwmLimit,        \* 255
  SoftTimeout,     \* kCommandSoftTimeoutMs
  HardTimeout,     \* kCommandHardTimeoutMs
  ControlPeriod,   \* kControlPeriodUs
  MillisModulus,   \* 2^32
  MaxLoopGap,      \* the longest time between two passes of loop()
  SilenceCap,      \* bound of the history variable silence
  RxErrorCap,      \* bound of rx_error_count
  Sequences        \* the sequence numbers a frame may carry

\* Every time constant is a positive number of ticks, the lease ends before the
\* hard cut, a pass of loop() is short against the wrap of millis(), and the
\* history of the silence reaches beyond a wrap.
ASSUME TimeAssumption ==
  /\ SoftTimeout \in Nat \ {0}
  /\ HardTimeout \in Nat /\ SoftTimeout < HardTimeout
  /\ ControlPeriod \in Nat \ {0}
  /\ MaxLoopGap \in Nat \ {0}
  /\ MillisModulus \in Nat /\ HardTimeout + MaxLoopGap < MillisModulus - 1
  /\ SilenceCap \in Nat /\ MillisModulus <= SilenceCap

\* The zero tolerance and the limits are non-negative, 0 is a speed, and there
\* is a sequence number to send.
ASSUME DataAssumption ==
  /\ Speeds \subseteq Int /\ 0 \in Speeds
  /\ ZeroTolerance \in Nat
  /\ Acceleration \in Nat
  /\ PwmLimit \in Nat
  /\ RxErrorCap \in Nat
  /\ 0 \in Sequences

\* Between the two timeouts there is time to brake from any speed, even if loop()
\* is late: 320 rpm/s for 0.68 s, and 55 rpm at most, in the code.  It is not
\* assumed: only StopsBeforeTheCut depends on it.
BrakesInTime ==
  \A v \in Speeds :
    LET reach == ZeroTolerance + Acceleration *
          (HardTimeout - SoftTimeout - ControlPeriod - 2 * MaxLoopGap + 2)
    IN v <= reach /\ -v <= reach

VARIABLES
  pc,                     \* what loop() does next
  requested,              \* motors[w].requested_rad_s
  ramped_rpm,             \* motors[w].ramped_rpm
  output_pwm,             \* |motors[w].output_pwm|
  drive_enabled,
  have_motion_command,
  soft_timeout_active,
  fault_bits,
  command_age,            \* now_ms - last_command_ms, modulo MillisModulus
  since_control,          \* now_us - last_control_us
  last_command_sequence,
  rx_error_count,
  tx,                     \* what this step wrote to the USB port, if anything
  silence,                \* history: time since a CMD was accepted, not wrapping
  last_cmd_zero           \* history: the last accepted CMD was all-zero

drive == <<requested, ramped_rpm, output_pwm>>
latches == <<drive_enabled, soft_timeout_active, fault_bits>>
lease == <<have_motion_command, command_age, last_command_sequence, silence,
           last_cmd_zero>>
vars == <<pc, drive, latches, lease, since_control, rx_error_count, tx>>

Phases == {"tick", "read", "watchdog", "control", "telemetry"}
Faults == {"COMMAND_TIMEOUT", "SOFTWARE_ESTOP"}
StatusBits == {"Enabled", "CommandFresh", "SoftStopping", "EstopLatched",
               "MotorOutputActive"}
Commands == {"CMD", "PING", "DISABLE", "ESTOP", "CLEAR", "ENABLE", "OTHER"}

Still == [w \in Wheels |-> 0]
Speed == [Wheels -> Speeds]

\* A line as it arrives; only a CMD carries speeds.
Frame(c, d, s, v) == [command |-> c, defect |-> d, seq |-> s, speeds |-> v]
Frames ==
  {Frame("CMD", "none", s, v) : s \in Sequences, v \in Speed}
    \cup {Frame("CMD", "bad_speed", s, Still) : s \in Sequences}
    \cup {Frame(c, d, s, Still) : c \in Commands \ {"CMD"},
            d \in {"none", "field_count"}, s \in Sequences}
    \cup {Frame("CMD", d, s, Still) :
            d \in {"bad_frame", "bad_header", "field_count"}, s \in Sequences}

Silent == [kind |-> "SILENT"]
Reply(k, f, code) ==
  [kind |-> k, seq |-> f.seq, code |-> code, command |-> f.command]

Magnitude(v) == IF v < 0 THEN -v ELSE v
IsZero(v) == Magnitude(v) <= ZeroTolerance
AllZero(v) == \A w \in Wheels : IsZero(v[w])
Least(a, b) == IF a < b THEN a ELSE b

\* uint32 arithmetic: a + d wraps at MillisModulus (d is shorter than a wrap).
AddMillis(a, d) ==
  IF a + d >= MillisModulus THEN a + d - MillisModulus ELSE a + d

\* command_age of the code: UINT32_MAX while no CMD was ever accepted.
CommandAge == IF have_motion_command THEN command_age ELSE MillisModulus - 1

\* current moved by at most step towards target.
MoveTowards(current, target, step) ==
  IF current < target THEN Least(current + step, target)
  ELSE IF current - step > target THEN current - step ELSE target

-----------------------------------------------------------------------------
\* Power-up: setup(), then the first pass of loop().
Init ==
  /\ pc = "tick"
  /\ requested = Still /\ ramped_rpm = Still /\ output_pwm = Still
  /\ drive_enabled = FALSE /\ soft_timeout_active = FALSE /\ fault_bits = {}
  /\ have_motion_command = FALSE /\ command_age = 0
  /\ last_command_sequence = 0 /\ silence = SilenceCap
  /\ last_cmd_zero = FALSE
  /\ since_control = 0 /\ rx_error_count = 0
  /\ tx = [kind |-> "HELLO"]

\* hardStopMotorOutputs(): targets, ramps and outputs to zero at once.
HardStop ==
  /\ requested' = Still
  /\ ramped_rpm' = Still
  /\ output_pwm' = Still

\* A brown-out, a watchdog or the EN line resets the ESP32 anywhere in loop().
Reset ==
  /\ pc' = "tick"
  /\ HardStop
  /\ drive_enabled' = FALSE /\ soft_timeout_active' = FALSE /\ fault_bits' = {}
  /\ have_motion_command' = FALSE /\ command_age' = 0
  /\ last_command_sequence' = 0 /\ silence' = SilenceCap
  /\ last_cmd_zero' = FALSE
  /\ since_control' = 0 /\ rx_error_count' = 0
  /\ tx' = [kind |-> "HELLO"]

\* Time passes between two passes of loop(), which then samples millis().
Tick ==
  /\ pc = "tick" /\ pc' = "read"
  /\ \E d \in 1..MaxLoopGap :
       /\ command_age' = IF have_motion_command THEN AddMillis(command_age, d)
                         ELSE command_age
       /\ silence' = Least(silence + d, SilenceCap)
       /\ since_control' = since_control + d
  /\ tx' = Silent
  /\ UNCHANGED <<drive, latches, have_motion_command, last_command_sequence,
                 last_cmd_zero, rx_error_count>>

\* A refusal that does not count as a receive error.
Refuse(f, code) ==
  /\ tx' = Reply("NACK", f, code)
  /\ UNCHANGED <<drive, latches, lease, rx_error_count>>

\* A line that is no command: counted, answered when its header was read.
Malformed(answer) ==
  /\ rx_error_count' = Least(rx_error_count + 1, RxErrorCap)
  /\ tx' = answer
  /\ UNCHANGED <<drive, latches, lease>>

\* (Mutants: one half of the test is missing.)
InhibitedByFault == fault_bits # {}
InhibitedByDisable == ~drive_enabled

\* What refuses a non-zero CMD.
Inhibited == fault_bits # {} \/ ~drive_enabled

\* A valid CMD: a non-zero one is refused while inhibited; any other sets the
\* requested speeds and renews the motion lease.
AcceptMotion(f) ==
  /\ Inhibited => AllZero(f.speeds)
  /\ requested' = f.speeds
  /\ have_motion_command' = TRUE
  /\ command_age' = 0
  /\ last_command_sequence' = f.seq
  /\ silence' = 0
  /\ last_cmd_zero' = AllZero(f.speeds)
  /\ tx' = Reply("ACK", f, "OK")
  /\ UNCHANGED <<ramped_rpm, output_pwm, latches, rx_error_count>>

HandleMotionCommand(f) ==
  /\ f.command = "CMD" /\ f.defect = "none"
  /\ \/ AcceptMotion(f)
     \/ Inhibited /\ ~AllZero(f.speeds) /\ Refuse(f, "INHIBITED")

HandlePing(f) ==
  /\ f.command = "PING"
  /\ tx' = Reply("ACK", f, "OK")
  /\ UNCHANGED <<drive, latches, lease, rx_error_count>>

HandleDisable(f) ==
  /\ f.command = "DISABLE"
  /\ drive_enabled' = FALSE
  /\ soft_timeout_active' = FALSE
  /\ HardStop
  /\ tx' = Reply("ACK", f, "OK")
  /\ UNCHANGED <<fault_bits, lease, rx_error_count>>

HandleEstop(f) ==
  /\ f.command = "ESTOP"
  /\ drive_enabled' = FALSE
  /\ soft_timeout_active' = FALSE
  /\ fault_bits' = fault_bits \cup {"SOFTWARE_ESTOP"}
  /\ HardStop
  /\ tx' = Reply("ACK", f, "OK")
  /\ UNCHANGED <<lease, rx_error_count>>

\* (Mutant: the age of the CMD is not looked at.)
ZeroCommandOfAnyAge == AllZero(requested)

\* What CLEAR and ENABLE ask for: a lease in force and nothing requested.
FreshZeroCommand == CommandAge <= SoftTimeout /\ AllZero(requested)

HandleClear(f) ==
  /\ f.command = "CLEAR"
  /\ \/ /\ FreshZeroCommand
        /\ fault_bits' = {}
        /\ soft_timeout_active' = FALSE
        /\ drive_enabled' = FALSE
        /\ HardStop
        /\ tx' = Reply("ACK", f, "OK")
        /\ UNCHANGED <<lease, rx_error_count>>
     \/ ~FreshZeroCommand /\ Refuse(f, "ZERO_CMD_REQUIRED")

FaultActive == fault_bits # {}

HandleEnable(f) ==
  /\ f.command = "ENABLE"
  /\ \/ /\ ~FaultActive /\ FreshZeroCommand
        /\ drive_enabled' = TRUE
        /\ soft_timeout_active' = FALSE
        /\ tx' = Reply("ACK", f, "OK")
        /\ UNCHANGED <<drive, fault_bits, lease, rx_error_count>>
     \/ FaultActive /\ Refuse(f, "FAULT_ACTIVE")
     \/ ~FaultActive /\ ~FreshZeroCommand /\ Refuse(f, "ZERO_CMD_REQUIRED")

HandleSimpleCommand(f) ==
  /\ f.defect = "none"
  /\ \/ HandlePing(f) \/ HandleDisable(f) \/ HandleEstop(f)
     \/ HandleClear(f) \/ HandleEnable(f)
     \/ f.command = "OTHER" /\ Malformed(Reply("NACK", f, "UNKNOWN"))

\* One received line, at the now_ms that loop() sampled.
ProcessLine(f) ==
  /\ pc = "read"
  /\ \/ f.defect = "bad_frame" /\ Malformed(Silent)
     \/ f.defect = "bad_header" /\ Malformed(Reply("NACK", f, "BAD_HEADER"))
     \/ f.defect = "bad_speed" /\ Malformed(Reply("NACK", f, "BAD_SPEED"))
     \/ f.defect = "field_count" /\ Malformed(Reply("NACK", f, "FIELD_COUNT"))
     \/ HandleMotionCommand(f)
     \/ HandleSimpleCommand(f)
  /\ UNCHANGED <<pc, since_control>>

\* readSerial() returns when the receive buffer is empty.
ReadDone ==
  /\ pc = "read" /\ pc' = "watchdog"
  /\ tx' = Silent
  /\ UNCHANGED <<drive, latches, lease, since_control, rx_error_count>>

\* (Mutants: the soft stop comes as late as the hard one; its latch is tested
\* the wrong way round.)
SoftStopLate ==
  /\ drive_enabled /\ have_motion_command
  /\ command_age > HardTimeout /\ ~soft_timeout_active
SoftStopInverted ==
  /\ drive_enabled /\ have_motion_command
  /\ command_age > SoftTimeout /\ soft_timeout_active

SoftStopNow ==
  /\ drive_enabled /\ have_motion_command
  /\ command_age > SoftTimeout /\ ~soft_timeout_active

HardStopNow ==
  /\ drive_enabled /\ have_motion_command
  /\ soft_timeout_active \/ SoftStopNow
  /\ command_age > HardTimeout

\* A lapsed lease zeroes the targets and latches the fault; when it is older
\* than the hard timeout (in the same call after a long stall) the output is cut.
UpdateCommandWatchdog ==
  /\ pc = "watchdog" /\ pc' = "control"
  /\ soft_timeout_active' = (soft_timeout_active \/ SoftStopNow)
  /\ fault_bits' = IF SoftStopNow THEN fault_bits \cup {"COMMAND_TIMEOUT"}
                   ELSE fault_bits
  /\ drive_enabled' = (drive_enabled /\ ~HardStopNow)
  /\ IF HardStopNow THEN HardStop
     ELSE /\ requested' = IF SoftStopNow THEN Still ELSE requested
          /\ UNCHANGED <<ramped_rpm, output_pwm>>
  /\ tx' = Silent
  /\ UNCHANGED <<lease, since_control, rx_error_count>>

OutputInhibited == ~drive_enabled \/ "SOFTWARE_ESTOP" \in fault_bits

\* (Mutant: the ramp forgets how much time has elapsed.)
RampStepPerPass == Acceleration

RampStep == Acceleration * since_control

\* Every ControlPeriod each wheel's set-point moves towards its target by the
\* acceleration times the time elapsed.  VelocityPid may answer any duty: it
\* depends on the encoders, which the environment drives.
ControlWheels ==
  /\ ramped_rpm' = [w \in Wheels |->
       IF OutputInhibited THEN 0
       ELSE MoveTowards(ramped_rpm[w], requested[w], RampStep)]
  /\ output_pwm' \in [Wheels -> 0..PwmLimit]
  /\ \A w \in Wheels :
       OutputInhibited \/ (requested[w] = 0 /\ ramped_rpm'[w] = 0)
         => output_pwm'[w] = 0

UpdateMotorControl ==
  /\ pc = "control" /\ pc' = "telemetry"
  /\ \/ /\ since_control < ControlPeriod
        /\ UNCHANGED <<since_control, ramped_rpm, output_pwm>>
     \/ /\ since_control >= ControlPeriod
        /\ since_control' = 0
        /\ ControlWheels
  /\ tx' = Silent
  /\ UNCHANGED <<requested, latches, lease, rx_error_count>>

BuildStatusBits ==
  {b \in StatusBits :
     \/ b = "Enabled" /\ drive_enabled
     \/ b = "CommandFresh" /\ CommandAge <= SoftTimeout
     \/ b = "SoftStopping" /\ soft_timeout_active
     \/ b = "EstopLatched" /\ "SOFTWARE_ESTOP" \in fault_bits
     \/ b = "MotorOutputActive" /\ \E w \in Wheels : output_pwm[w] # 0}

State == [kind |-> "STATE", seq |-> last_command_sequence,
          status |-> BuildStatusBits, fault |-> fault_bits,
          rx_errors |-> rx_error_count]

\* A STATE frame when its period has run out; the period is a free choice.
SendTelemetry ==
  /\ pc = "telemetry" /\ pc' = "tick"
  /\ tx' \in {Silent, State}
  /\ UNCHANGED <<drive, latches, lease, since_control, rx_error_count>>

Loop == Tick \/ ReadDone \/ UpdateCommandWatchdog \/ UpdateMotorControl
          \/ SendTelemetry
Receive == \E f \in Frames : ProcessLine(f)

Next == Loop \/ Receive \/ Reset

Spec == Init /\ [][Next]_vars

\* loop() is called again and again, and readSerial() returns because 460800
\* baud bring fewer bytes than a pass can read.  Nothing is asked of the host.
FairSpec == Spec /\ WF_vars(Loop)

-----------------------------------------------------------------------------
(* Correctness.                                                            *)

\* Every variable has its type.
TypeOK ==
  /\ pc \in Phases
  /\ requested \in [Wheels -> Int]
  /\ ramped_rpm \in [Wheels -> Int]
  /\ output_pwm \in [Wheels -> 0..PwmLimit]
  /\ drive_enabled \in BOOLEAN
  /\ have_motion_command \in BOOLEAN
  /\ soft_timeout_active \in BOOLEAN
  /\ fault_bits \subseteq Faults
  /\ command_age \in 0..(MillisModulus - 1)
  /\ since_control \in Nat
  /\ last_command_sequence \in Sequences
  /\ rx_error_count \in 0..RxErrorCap
  /\ silence \in 0..SilenceCap
  /\ last_cmd_zero \in BOOLEAN

\* Between Tick and the watchdog of the same pass, a lease may be older than
\* its limit by the time since the pass before.
Grace == IF pc \in {"read", "watchdog"} THEN MaxLoopGap ELSE 0

\* A disabled drive has no set-point and no output left on any wheel, whatever
\* disabled it and whatever CMD still arrives (README: "powers up disabled with
\* zero PWM"; the commands DISABLE, ESTOP, CLEAR and the hard timeout).
DisabledIsStill ==
  ~drive_enabled =>
    ramped_rpm = Still /\ output_pwm = Still /\ AllZero(requested)

\* A wheel has a target beyond zero only while the drive is enabled, nothing is
\* latched, and a CMD was really accepted within the soft timeout: no PING, no
\* old CMD and no wrap of millis() keeps a target alive.
MotionNeedsLease ==
  ~AllZero(requested) =>
    /\ drive_enabled /\ fault_bits = {}
    /\ silence <= SoftTimeout + Grace

\* No wheel keeps a set-point beyond zero when the last accepted CMD is older
\* than the hard timeout.
SetpointNeedsLease ==
  ~AllZero(ramped_rpm) => silence <= HardTimeout + Grace

\* A latched software E-stop means a disabled drive and no output on any wheel:
\* no sequence of commands re-enables it short of CLEAR.
EstopCutsOutput ==
  "SOFTWARE_ESTOP" \in fault_bits => ~drive_enabled /\ output_pwm = Still

\* A timeout is only ever cleared after the host has sent an all-zero CMD since
\* it was latched, so software that reconnects cannot go on with an old speed
\* (README line 41), as long as millis() has not wrapped since the last CMD.
TimeoutRecovery ==
  [][/\ fault_bits = {"COMMAND_TIMEOUT"} /\ fault_bits' = {}
     /\ tx'.kind # "HELLO" /\ silence < MillisModulus
     => last_cmd_zero /\ silence <= SoftTimeout]_vars

\* While the watchdog's soft stop is active no wheel's set-point grows: no CMD
\* can turn the controlled stop back into motion.
SoftStopOnlySlows ==
  [][soft_timeout_active /\ soft_timeout_active' =>
       \A w \in Wheels :
         Magnitude(ramped_rpm'[w]) <= Magnitude(ramped_rpm[w])
           \/ IsZero(ramped_rpm'[w])]_vars

\* The controlled stop is complete when the hard timeout comes: the cut never
\* finds a wheel with a set-point (where BrakesInTime, as with the acceleration
\* and the timeouts of the code and a loop() that is late by less than 0.2 s).
StopsBeforeTheCut ==
  pc = "watchdog" /\ HardStopNow => AllZero(ramped_rpm)

CmdAccepted == tx'.kind = "ACK" /\ tx'.command = "CMD"

\* When the host stops sending CMD for good, the wheels come to rest for good,
\* whatever else is sent or reset.
SilenceStops ==
  <>[][~CmdAccepted]_vars => <>[](ramped_rpm = Still /\ output_pwm = Still)

\* The refinement: the drive is off, stopping, driving or on without a target,
\* and it is moving while a set-point is beyond zero.
DriveMode ==
  IF ~drive_enabled THEN "off"
  ELSE IF fault_bits # {} THEN "stopping"
  ELSE IF AllZero(requested) THEN "standby"
  ELSE "driving"

Lease == INSTANCE DriveLease
  WITH mode <- DriveMode, moving <- ~AllZero(ramped_rpm), idle <- silence,
       IdleCap <- SilenceCap

\* The firmware keeps the promise of DriveLease.
ImplementsLease == Lease!Spec

\* The drive as DriveContract describes it.
PortBase ==
  [enabled |-> drive_enabled, fault |-> fault_bits,
   moving |-> ~AllZero(requested), fresh |-> CommandAge <= SoftTimeout]

\* A line it answers is known by its command; a CMD that is refused is not zero.
PortCommand ==
  IF tx.command # "CMD" THEN tx.command
  ELSE IF tx.kind = "ACK" /\ AllZero(requested) THEN "CMD0" ELSE "CMDV"
PortAnswer ==
  CASE tx.kind \in {"HELLO", "SILENT"} -> [kind |-> tx.kind]
    [] tx.kind = "ACK" -> [kind |-> "ACK", command |-> PortCommand]
    [] tx.kind = "NACK" ->
         IF tx.code \in {"INHIBITED", "FAULT_ACTIVE", "ZERO_CMD_REQUIRED"}
         THEN [kind |-> "NACK", command |-> PortCommand]
         ELSE [kind |-> "DAMAGED"]
    [] tx.kind = "STATE" ->
         [kind |-> "STATE", enabled |-> "Enabled" \in tx.status,
          fault |-> tx.fault, errors |-> tx.rx_errors]

Port == INSTANCE DriveContract
  WITH base <- PortBase, errors <- rx_error_count, answer <- PortAnswer,
       ErrorCap <- RxErrorCap

\* The firmware does with each line, and by itself, what the plug-in's model of
\* the drive counts on: no order of commands, timeouts, late passes and wraps of
\* millis() shows the host a drive it does not expect.
ImplementsPort == Port!Spec

=============================================================================
