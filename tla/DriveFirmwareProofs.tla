------------------------ MODULE DriveFirmwareProofs ------------------------
(***************************************************************************)
(* Theorems about DriveFirmware, for every number of wheels, every speed   *)
(* range and every timeout that TimeAssumption and DataAssumption admit.   *)
(***************************************************************************)
EXTENDS DriveFirmware, TLAPS

\* A latched fault leaves no target beyond zero.
FaultsStop == fault_bits # {} => AllZero(requested)

\* How the latches of the watchdog and of the E-stop go together.
LatchesAgree ==
  /\ soft_timeout_active => "COMMAND_TIMEOUT" \in fault_bits
  /\ "SOFTWARE_ESTOP" \in fault_bits => ~drive_enabled
  /\ drive_enabled /\ fault_bits # {} => soft_timeout_active

\* The drive is only enabled after a CMD was accepted.
EnabledHasCommand == drive_enabled => have_motion_command

\* Until millis() has wrapped, the age the code computes is the true one.
AgeIsSilence ==
  have_motion_command /\ silence < MillisModulus => command_age = silence

\* A pure timeout: the CMD that renews the lease after it is all-zero.
TimeoutNeedsZero ==
  fault_bits = {"COMMAND_TIMEOUT"} => last_cmd_zero \/ silence > SoftTimeout

IInv ==
  /\ TypeOK
  /\ DisabledIsStill
  /\ FaultsStop
  /\ LatchesAgree
  /\ EnabledHasCommand
  /\ AgeIsSilence
  /\ TimeoutNeedsZero
  /\ MotionNeedsLease
  /\ SetpointNeedsLease

-----------------------------------------------------------------------------
(* The operators.                                                          *)

\* MoveTowards answers an integer that is no further from zero than the larger
\* of its arguments.
LEMMA MoveTowardsBound ==
  ASSUME NEW c \in Int, NEW t \in Int, NEW s \in Nat
  PROVE  /\ MoveTowards(c, t, s) \in Int
         /\ \/ Magnitude(MoveTowards(c, t, s)) <= Magnitude(c)
            \/ Magnitude(MoveTowards(c, t, s)) <= Magnitude(t)
  BY DEF MoveTowards, Magnitude, Least

\* The step of the ramp is a natural number.
LEMMA RampStepType ==
  ASSUME since_control \in Nat
  PROVE  RampStep \in Nat
  BY DataAssumption DEF RampStep

\* millis() arithmetic stays within one turn, and adds where it does not wrap.
LEMMA AddMillisType ==
  ASSUME NEW a \in 0..(MillisModulus - 1), NEW d \in 1..MaxLoopGap
  PROVE  /\ AddMillis(a, d) \in 0..(MillisModulus - 1)
         /\ a + d < MillisModulus => AddMillis(a, d) = a + d
  BY TimeAssumption DEF AddMillis

\* Standing still is a zero speed on every wheel.
LEMMA StillIsZero ==
  /\ AllZero(Still)
  /\ Still \in [Wheels -> Int]
  /\ Still \in [Wheels -> 0..PwmLimit]
  BY DataAssumption DEF AllZero, Still, IsZero, Magnitude

\* A frame carries integer speeds and one of the sequence numbers.
LEMMA FrameType ==
  ASSUME NEW f \in Frames
  PROVE  f.speeds \in [Wheels -> Int] /\ f.seq \in Sequences
<1>1. \E c, d : \E s \in Sequences, v \in Speed \cup {Still} : f = Frame(c, d, s, v)
  BY DEF Frames
<1>2. PICK c, d, s, v :
        s \in Sequences /\ v \in Speed \cup {Still} /\ f = Frame(c, d, s, v)
  BY <1>1
<1>3. v \in [Wheels -> Int]
  BY <1>2, StillIsZero, DataAssumption DEF Speed
<1>4. QED
  BY <1>2, <1>3 DEF Frame

-----------------------------------------------------------------------------
(* The inductive invariant.                                                *)

LEMMA InitIInv == Init => IInv
<1> SUFFICES ASSUME Init PROVE IInv
  OBVIOUS
<1>1. TypeOK
  <2>1. /\ requested \in [Wheels -> Int] /\ ramped_rpm \in [Wheels -> Int]
        /\ output_pwm \in [Wheels -> 0..PwmLimit]
    BY StillIsZero DEF Init
  <2>2. /\ command_age \in 0..(MillisModulus - 1) /\ since_control \in Nat
        /\ silence \in 0..SilenceCap
    BY TimeAssumption DEF Init
  <2>3. last_command_sequence \in Sequences /\ rx_error_count \in 0..RxErrorCap
    BY DataAssumption DEF Init
  <2>4. QED
    BY <2>1, <2>2, <2>3 DEF Init, TypeOK, Phases, Faults
<1>2. AllZero(requested) /\ AllZero(ramped_rpm)
  BY StillIsZero DEF Init
<1>3. DisabledIsStill /\ FaultsStop /\ MotionNeedsLease /\ SetpointNeedsLease
  BY <1>2
  DEF Init, DisabledIsStill, FaultsStop, MotionNeedsLease, SetpointNeedsLease
<1>4. LatchesAgree /\ EnabledHasCommand /\ AgeIsSilence
  BY DEF Init, LatchesAgree, EnabledHasCommand, AgeIsSilence
<1>5. TimeoutNeedsZero
  BY DEF Init, TimeoutNeedsZero
<1>6. QED
  BY <1>1, <1>3, <1>4, <1>5 DEF IInv

\* A step that leaves the motors, the latches and the lease alone keeps the
\* invariant if it does not leave the phases in which Grace is allowed.
LEMMA QuietStep ==
  ASSUME IInv, UNCHANGED <<drive, latches, lease>>,
         pc' \in Phases, since_control' \in Nat, rx_error_count' \in 0..RxErrorCap,
         pc \in {"read", "watchdog"} => pc' \in {"read", "watchdog"}
  PROVE  IInv'
<1>1. TypeOK'
  BY DEF IInv, TypeOK, drive, latches, lease
<1>2. /\ DisabledIsStill' /\ FaultsStop' /\ LatchesAgree' /\ EnabledHasCommand'
      /\ AgeIsSilence' /\ TimeoutNeedsZero'
  BY DEF IInv, DisabledIsStill, FaultsStop, LatchesAgree, EnabledHasCommand,
         AgeIsSilence, TimeoutNeedsZero, AllZero, drive, latches, lease
<1>3. MotionNeedsLease' /\ SetpointNeedsLease'
  <2>1. /\ silence' = silence /\ silence \in Nat
        /\ AllZero(requested)' = AllZero(requested)
        /\ AllZero(ramped_rpm)' = AllZero(ramped_rpm)
        /\ drive_enabled' = drive_enabled /\ fault_bits' = fault_bits
    BY DEF IInv, TypeOK, AllZero, drive, latches, lease
  <2>2. QED
    BY <2>1, TimeAssumption DEF IInv, MotionNeedsLease, SetpointNeedsLease, Grace
<1>4. QED
  BY <1>1, <1>2, <1>3 DEF IInv

LEMMA TickIInv == IInv /\ Tick => IInv'
<1> SUFFICES ASSUME IInv, Tick PROVE IInv'
  OBVIOUS
<1> USE TimeAssumption, DataAssumption
<1>1. PICK d \in 1..MaxLoopGap :
        /\ command_age' = IF have_motion_command THEN AddMillis(command_age, d)
                          ELSE command_age
        /\ silence' = Least(silence + d, SilenceCap)
        /\ since_control' = since_control + d
  BY DEF Tick
<1>2. /\ AddMillis(command_age, d) \in 0..(MillisModulus - 1)
      /\ command_age + d < MillisModulus => AddMillis(command_age, d) = command_age + d
  BY AddMillisType DEF IInv, TypeOK
<1>3. TypeOK'
  BY <1>1, <1>2 DEF IInv, TypeOK, Tick, Phases, Least, drive, latches
<1>4. AgeIsSilence'
  BY <1>1, <1>2 DEF IInv, TypeOK, Tick, AgeIsSilence, Least
<1>5. /\ DisabledIsStill' /\ FaultsStop' /\ LatchesAgree' /\ EnabledHasCommand'
  BY DEF IInv, Tick, DisabledIsStill, FaultsStop, LatchesAgree,
         EnabledHasCommand, AllZero, drive, latches
<1>6. TimeoutNeedsZero'
  BY <1>1 DEF IInv, TypeOK, Tick, TimeoutNeedsZero, Least, latches
<1>7. MotionNeedsLease' /\ SetpointNeedsLease'
  BY <1>1
  DEF IInv, TypeOK, Tick, MotionNeedsLease, SetpointNeedsLease, Grace, Least,
      AllZero, drive, latches
<1>8. QED
  BY <1>3, <1>4, <1>5, <1>6, <1>7 DEF IInv

LEMMA ReadDoneIInv == IInv /\ ReadDone => IInv'
  BY QuietStep, TimeAssumption DEF ReadDone, IInv, TypeOK, Phases

LEMMA TelemetryIInv == IInv /\ SendTelemetry => IInv'
  BY QuietStep, TimeAssumption DEF SendTelemetry, IInv, TypeOK, Phases

LEMMA ResetIInv == Reset => IInv'
<1> SUFFICES ASSUME Reset PROVE IInv'
  OBVIOUS
<1>1. TypeOK'
  <2>1. /\ requested' \in [Wheels -> Int] /\ ramped_rpm' \in [Wheels -> Int]
        /\ output_pwm' \in [Wheels -> 0..PwmLimit]
    BY StillIsZero DEF Reset, HardStop
  <2>2. /\ command_age' \in 0..(MillisModulus - 1) /\ since_control' \in Nat
        /\ silence' \in 0..SilenceCap
    BY TimeAssumption DEF Reset
  <2>3. last_command_sequence' \in Sequences /\ rx_error_count' \in 0..RxErrorCap
    BY DataAssumption DEF Reset
  <2>4. QED
    BY <2>1, <2>2, <2>3 DEF Reset, TypeOK, Phases, Faults
<1>2. AllZero(requested)' /\ AllZero(ramped_rpm)'
  BY StillIsZero DEF Reset, HardStop, AllZero
<1>3. DisabledIsStill' /\ FaultsStop' /\ MotionNeedsLease' /\ SetpointNeedsLease'
  BY <1>2 DEF Reset, HardStop, DisabledIsStill, FaultsStop, MotionNeedsLease,
              SetpointNeedsLease
<1>4. LatchesAgree' /\ EnabledHasCommand' /\ AgeIsSilence'
  BY DEF Reset, LatchesAgree, EnabledHasCommand, AgeIsSilence
<1>5. TimeoutNeedsZero'
  BY DEF Reset, TimeoutNeedsZero
<1>6. QED
  BY <1>1, <1>3, <1>4, <1>5 DEF IInv

LEMMA WatchdogIInv == IInv /\ UpdateCommandWatchdog => IInv'
<1> SUFFICES ASSUME IInv, UpdateCommandWatchdog PROVE IInv'
  OBVIOUS
<1> USE TimeAssumption, DataAssumption, StillIsZero
<1> USE DEF UpdateCommandWatchdog, lease, HardStop
<1>1. TypeOK'
  BY DEF IInv, TypeOK, Phases, Faults
<1>2. AgeIsSilence' /\ EnabledHasCommand'
  BY DEF IInv, AgeIsSilence, EnabledHasCommand
<1>3. AllZero(requested) \/ (SoftStopNow \/ HardStopNow) => AllZero(requested)'
  BY DEF AllZero
<1>4. DisabledIsStill' /\ FaultsStop'
  BY <1>3 DEF IInv, DisabledIsStill, FaultsStop, AllZero
<1>5. LatchesAgree'
  BY DEF IInv, TypeOK, LatchesAgree, SoftStopNow, HardStopNow, Faults
<1>6. SoftStopNow => silence > SoftTimeout
  BY DEF IInv, TypeOK, AgeIsSilence, SoftStopNow
<1>7. TimeoutNeedsZero'
  BY <1>6 DEF IInv, TypeOK, TimeoutNeedsZero
<1>8. MotionNeedsLease'
  <2> SUFFICES ASSUME ~AllZero(requested)' PROVE MotionNeedsLease'
    BY DEF MotionNeedsLease
  <2>1. /\ ~SoftStopNow /\ ~HardStopNow /\ UNCHANGED requested
    BY <1>3 DEF AllZero
  <2>2. /\ drive_enabled /\ fault_bits = {} /\ ~soft_timeout_active
        /\ have_motion_command /\ command_age <= SoftTimeout
        /\ silence <= SoftTimeout + MaxLoopGap
    BY <2>1 DEF IInv, TypeOK, MotionNeedsLease, LatchesAgree, EnabledHasCommand,
                SoftStopNow, Grace, AllZero
  <2>3. QED
    <3>1. silence <= SoftTimeout
      BY <2>2 DEF IInv, TypeOK, AgeIsSilence
    <3>2. drive_enabled' /\ fault_bits' = {}
      BY <2>1, <2>2
    <3>3. QED
      BY <3>1, <3>2 DEF IInv, TypeOK, MotionNeedsLease, Grace
<1>9. SetpointNeedsLease'
  <2> SUFFICES ASSUME ~AllZero(ramped_rpm)' PROVE SetpointNeedsLease'
    BY DEF SetpointNeedsLease
  <2>1. ~HardStopNow /\ UNCHANGED ramped_rpm /\ ~AllZero(ramped_rpm)
    BY DEF AllZero
  <2>2. drive_enabled /\ have_motion_command /\ silence <= HardTimeout + MaxLoopGap
    BY <2>1 DEF IInv, TypeOK, DisabledIsStill, EnabledHasCommand,
                SetpointNeedsLease, Grace
  <2>3. command_age = silence
    BY <2>2 DEF IInv, TypeOK, AgeIsSilence
  <2>4. silence <= HardTimeout
    BY <2>1, <2>2, <2>3 DEF IInv, TypeOK, HardStopNow, SoftStopNow
  <2>5. QED
    BY <2>4 DEF SetpointNeedsLease, Grace
<1>10. QED
  BY <1>1, <1>2, <1>4, <1>5, <1>7, <1>8, <1>9 DEF IInv

\* The control step gives no wheel a set-point when no wheel has a target.
LEMMA ControlNeedsTarget ==
  ASSUME IInv, UpdateMotorControl, AllZero(requested), AllZero(ramped_rpm)
  PROVE  AllZero(ramped_rpm)'
<1> SUFFICES ASSUME NEW w \in Wheels PROVE IsZero(ramped_rpm'[w])
  BY DEF AllZero, IsZero
<1>1. CASE UNCHANGED ramped_rpm
  BY <1>1 DEF AllZero
<1>2. CASE ControlWheels
  <2>1. CASE OutputInhibited
    BY <1>2, <2>1, DataAssumption DEF ControlWheels, IsZero, Magnitude
  <2>2. CASE ~OutputInhibited
    <3>1. ramped_rpm'[w] = MoveTowards(ramped_rpm[w], requested[w], RampStep)
      BY <1>2, <2>2 DEF ControlWheels
    <3>2. ramped_rpm[w] \in Int /\ requested[w] \in Int /\ RampStep \in Nat
      BY RampStepType DEF IInv, TypeOK
    <3>3. /\ ramped_rpm'[w] \in Int
          /\ \/ Magnitude(ramped_rpm'[w]) <= Magnitude(ramped_rpm[w])
             \/ Magnitude(ramped_rpm'[w]) <= Magnitude(requested[w])
      BY <3>1, <3>2, MoveTowardsBound
    <3>4. IsZero(ramped_rpm[w]) /\ IsZero(requested[w])
      BY DEF AllZero
    <3>5. QED
      BY <3>2, <3>3, <3>4, DataAssumption DEF IsZero, Magnitude
  <2>3. QED
    BY <2>1, <2>2
<1>3. QED
  BY <1>1, <1>2 DEF UpdateMotorControl

LEMMA ControlIInv == IInv /\ UpdateMotorControl => IInv'
<1> SUFFICES ASSUME IInv, UpdateMotorControl PROVE IInv'
  OBVIOUS
<1>1. CASE since_control < ControlPeriod
  <2>1. UNCHANGED <<drive, latches, lease>> /\ since_control' \in Nat
    BY <1>1, TimeAssumption DEF UpdateMotorControl, drive, IInv, TypeOK
  <2>2. QED
    BY <2>1, QuietStep DEF UpdateMotorControl, IInv, TypeOK, Phases
<1>2. CASE since_control >= ControlPeriod
  <2>1. ControlWheels /\ since_control' = 0
    BY <1>2, TimeAssumption DEF UpdateMotorControl, IInv, TypeOK
  <2>2. RampStep \in Nat
    BY RampStepType DEF IInv, TypeOK
  <2>3. \A w \in Wheels :
          MoveTowards(ramped_rpm[w], requested[w], RampStep) \in Int
    BY <2>2, MoveTowardsBound DEF IInv, TypeOK
  <2>4. ramped_rpm' \in [Wheels -> Int]
    BY <2>1, <2>3 DEF ControlWheels
  <2>5. TypeOK'
    BY <2>1, <2>4 DEF UpdateMotorControl, ControlWheels, IInv, TypeOK, Phases,
                      latches, lease
  <2>6. AllZero(requested) /\ AllZero(ramped_rpm) => AllZero(ramped_rpm)'
    BY ControlNeedsTarget
  <2>7. DisabledIsStill'
    <3> SUFFICES ASSUME ~drive_enabled PROVE DisabledIsStill'
      BY DEF UpdateMotorControl, latches, DisabledIsStill
    <3>1. OutputInhibited
      BY DEF OutputInhibited
    <3>2. ramped_rpm' = Still
      BY <3>1, <2>1 DEF ControlWheels, Still
    <3>3. output_pwm' = Still
      BY <3>1, <2>1 DEF ControlWheels, Still
    <3>4. AllZero(requested)'
      BY DEF UpdateMotorControl, IInv, DisabledIsStill, AllZero
    <3>5. QED
      BY <3>2, <3>3, <3>4 DEF DisabledIsStill
  <2>8. /\ FaultsStop' /\ LatchesAgree' /\ EnabledHasCommand'
        /\ AgeIsSilence' /\ TimeoutNeedsZero'
    BY DEF UpdateMotorControl, latches, lease, IInv, FaultsStop, LatchesAgree,
           EnabledHasCommand, AgeIsSilence, TimeoutNeedsZero, AllZero
  <2>9. MotionNeedsLease'
    BY DEF UpdateMotorControl, latches, lease, IInv, MotionNeedsLease, AllZero, Grace
  <2>10. SetpointNeedsLease'
    <3> SUFFICES ASSUME ~AllZero(ramped_rpm)' PROVE silence <= HardTimeout
      BY TimeAssumption
      DEF UpdateMotorControl, lease, SetpointNeedsLease, Grace, IInv, TypeOK
    <3>1. ~AllZero(requested) \/ ~AllZero(ramped_rpm)
      BY <2>6
    <3>2. QED
      BY <3>1, TimeAssumption
      DEF UpdateMotorControl, IInv, TypeOK, MotionNeedsLease, SetpointNeedsLease,
          Grace
  <2>11. QED
    BY <2>5, <2>7, <2>8, <2>9, <2>10 DEF IInv
<1>3. QED
  BY <1>1, <1>2, TimeAssumption DEF IInv, TypeOK

-----------------------------------------------------------------------------
(* The commands.                                                           *)

\* A handler that cuts the drive keeps the invariant: DISABLE, ESTOP, CLEAR.
LEMMA CutKeeps ==
  ASSUME IInv, HardStop, ~drive_enabled', soft_timeout_active' = FALSE,
         drive_enabled' \in BOOLEAN,
         fault_bits' \in {{}, fault_bits, fault_bits \cup {"SOFTWARE_ESTOP"}},
         UNCHANGED <<lease, pc, since_control, rx_error_count>>
  PROVE  IInv'
<1>1. TypeOK'
  BY StillIsZero DEF IInv, TypeOK, HardStop, lease, Faults
<1>2. AllZero(requested)' /\ AllZero(ramped_rpm)'
  BY StillIsZero DEF HardStop, AllZero
<1>3. /\ DisabledIsStill' /\ FaultsStop' /\ MotionNeedsLease' /\ SetpointNeedsLease'
  BY <1>2 DEF HardStop, DisabledIsStill, FaultsStop, MotionNeedsLease,
              SetpointNeedsLease
<1>4. LatchesAgree' /\ EnabledHasCommand' /\ AgeIsSilence'
  BY DEF IInv, LatchesAgree, EnabledHasCommand, AgeIsSilence, lease
<1>5. TimeoutNeedsZero'
  BY DEF IInv, TimeoutNeedsZero, lease
<1>6. QED
  BY <1>1, <1>3, <1>4, <1>5 DEF IInv

LEMMA EnableKeeps ==
  ASSUME IInv, NEW f \in Frames, HandleEnable(f),
         pc \in {"read"}, UNCHANGED <<pc, since_control>>
  PROVE  IInv'
<1>1. CASE Refuse(f, "FAULT_ACTIVE") \/ Refuse(f, "ZERO_CMD_REQUIRED")
  BY <1>1, QuietStep DEF Refuse, IInv, TypeOK
<1>2. CASE /\ fault_bits = {} /\ FreshZeroCommand
           /\ drive_enabled' = TRUE /\ soft_timeout_active' = FALSE
           /\ UNCHANGED <<drive, fault_bits, lease, rx_error_count>>
  <2>1. TypeOK' /\ DisabledIsStill' /\ FaultsStop'
    BY <1>2 DEF IInv, TypeOK, DisabledIsStill, FaultsStop, drive, lease, AllZero
  <2>2. have_motion_command
    BY <1>2, TimeAssumption DEF FreshZeroCommand, CommandAge
  <2>3. LatchesAgree' /\ EnabledHasCommand' /\ AgeIsSilence' /\ TimeoutNeedsZero'
    BY <1>2, <2>2 DEF IInv, LatchesAgree, EnabledHasCommand, AgeIsSilence,
                      TimeoutNeedsZero, lease
  <2>4. MotionNeedsLease' /\ SetpointNeedsLease'
    BY <1>2 DEF IInv, MotionNeedsLease, SetpointNeedsLease, drive, lease, AllZero,
                Grace
  <2>5. QED
    BY <2>1, <2>3, <2>4 DEF IInv
<1>3. QED
  BY <1>1, <1>2 DEF HandleEnable, FaultActive

LEMMA MotionKeeps ==
  ASSUME IInv, NEW f \in Frames, HandleMotionCommand(f),
         pc = "read", UNCHANGED <<pc, since_control>>
  PROVE  IInv'
<1> USE TimeAssumption, DataAssumption
<1>1. CASE Refuse(f, "INHIBITED")
  BY <1>1, QuietStep DEF Refuse, IInv, TypeOK
<1>2. CASE AcceptMotion(f)
  <2>1. f.speeds \in [Wheels -> Int] /\ f.seq \in Sequences
    BY FrameType
  <2>2. TypeOK'
    <3>1. last_cmd_zero' \in BOOLEAN
      BY <1>2 DEF AcceptMotion, AllZero
    <3>2. QED
      BY <1>2, <2>1, <3>1 DEF AcceptMotion, IInv, TypeOK, latches
  <2>3. Inhibited => AllZero(requested)'
    BY <1>2 DEF AcceptMotion, AllZero
  <2>4. DisabledIsStill' /\ FaultsStop'
    BY <1>2, <2>3 DEF AcceptMotion, Inhibited, IInv, DisabledIsStill, FaultsStop,
                      latches
  <2>5. LatchesAgree' /\ EnabledHasCommand' /\ AgeIsSilence'
    BY <1>2 DEF AcceptMotion, IInv, LatchesAgree, EnabledHasCommand, AgeIsSilence,
                latches
  <2>6. TimeoutNeedsZero'
    BY <1>2 DEF AcceptMotion, Inhibited, IInv, TimeoutNeedsZero, latches
  <2>7. MotionNeedsLease'
    BY <1>2, <2>3 DEF AcceptMotion, Inhibited, MotionNeedsLease, latches, Grace
  <2>8. SetpointNeedsLease'
    BY <1>2 DEF AcceptMotion, SetpointNeedsLease, Grace
  <2>9. QED
    BY <2>2, <2>4, <2>5, <2>6, <2>7, <2>8 DEF IInv
<1>3. QED
  BY <1>1, <1>2 DEF HandleMotionCommand

LEMMA MalformedKeeps ==
  ASSUME IInv, NEW a, Malformed(a), pc = "read", UNCHANGED <<pc, since_control>>
  PROVE  IInv'
<1>1. rx_error_count' \in 0..RxErrorCap
  BY DataAssumption DEF Malformed, IInv, TypeOK, Least
<1>2. QED
  BY <1>1, QuietStep DEF Malformed, IInv, TypeOK

LEMMA ReceiveIInv == IInv /\ Receive => IInv'
<1> SUFFICES ASSUME IInv, NEW f \in Frames, ProcessLine(f) PROVE IInv'
  BY DEF Receive
<1>0. pc = "read" /\ UNCHANGED <<pc, since_control>>
  BY DEF ProcessLine
<1>1. ASSUME NEW a, Malformed(a) PROVE IInv'
  BY <1>0, <1>1, MalformedKeeps
<1>2. CASE HandleMotionCommand(f)
  BY <1>0, <1>2, MotionKeeps
<1>3. CASE HandlePing(f)
  BY <1>0, <1>3, QuietStep DEF HandlePing, IInv, TypeOK
<1>4. CASE HandleDisable(f)
  BY <1>0, <1>4, CutKeeps DEF HandleDisable
<1>5. CASE HandleEstop(f)
  BY <1>0, <1>5, CutKeeps DEF HandleEstop
<1>6. CASE HandleClear(f)
  <2>1. CASE Refuse(f, "ZERO_CMD_REQUIRED")
    BY <1>0, <2>1, QuietStep DEF Refuse, IInv, TypeOK
  <2>2. CASE ~Refuse(f, "ZERO_CMD_REQUIRED")
    BY <1>0, <1>6, <2>2, CutKeeps DEF HandleClear
  <2>3. QED
    BY <2>1, <2>2
<1>7. CASE HandleEnable(f)
  BY <1>0, <1>7, EnableKeeps
<1>8. QED
  BY <1>1, <1>2, <1>3, <1>4, <1>5, <1>6, <1>7 DEF ProcessLine, HandleSimpleCommand

LEMMA StutterIInv == IInv /\ UNCHANGED vars => IInv'
  BY QuietStep DEF vars, IInv, TypeOK

\* The invariant is inductive, so it holds in every reachable state.
THEOREM Invariance == Spec => []IInv
<1>1. Init => IInv
  BY InitIInv
<1>2. IInv /\ [Next]_vars => IInv'
  BY TickIInv, ReadDoneIInv, WatchdogIInv, ControlIInv, TelemetryIInv, ReceiveIInv,
     ResetIInv, StutterIInv DEF Next, Loop
<1>3. QED
  BY <1>1, <1>2, PTL DEF Spec

-----------------------------------------------------------------------------
(* The properties.                                                         *)

\* Every variable keeps its type.
THEOREM TypeCorrect == Spec => []TypeOK
  BY Invariance, PTL DEF IInv

\* A disabled drive is still, for any number of wheels and any command.
THEOREM DisabledStill == Spec => []DisabledIsStill
  BY Invariance, PTL DEF IInv

\* No wheel has a target without a lease: no PING, replayed CMD, refused CMD or
\* wrap of millis() keeps one alive.
THEOREM MotionLease == Spec => []MotionNeedsLease
  BY Invariance, PTL DEF IInv

\* No wheel keeps a set-point beyond the hard timeout.
THEOREM SetpointLease == Spec => []SetpointNeedsLease
  BY Invariance, PTL DEF IInv

\* A latched E-stop cuts the output until it is cleared.
THEOREM EstopCut == Spec => []EstopCutsOutput
<1>1. IInv => EstopCutsOutput
  BY DEF IInv, LatchesAgree, DisabledIsStill, EstopCutsOutput
<1>2. QED
  BY <1>1, Invariance, PTL

\* The controlled stop only ever slows a wheel down.
THEOREM SoftStopSlows == Spec => SoftStopOnlySlows
<1> DEFINE Slows ==
      soft_timeout_active /\ soft_timeout_active' =>
        \A w \in Wheels :
          Magnitude(ramped_rpm'[w]) <= Magnitude(ramped_rpm[w])
            \/ IsZero(ramped_rpm'[w])
<1>1. ASSUME IInv, [Next]_vars PROVE [Slows]_vars
  <2>1. CASE UNCHANGED ramped_rpm
    BY <1>1, <2>1 DEF IInv, TypeOK, Magnitude
  <2>2. CASE HardStop
    BY <2>2, DataAssumption DEF HardStop, Still, IsZero, Magnitude
  <2>3. CASE UpdateMotorControl /\ since_control >= ControlPeriod
    <3> SUFFICES ASSUME soft_timeout_active, NEW w \in Wheels
                 PROVE  \/ Magnitude(ramped_rpm'[w]) <= Magnitude(ramped_rpm[w])
                        \/ IsZero(ramped_rpm'[w])
      OBVIOUS
    <3>1. ControlWheels
      BY <2>3, <1>1, TimeAssumption DEF UpdateMotorControl, IInv, TypeOK
    <3>2. IsZero(requested[w])
      BY <1>1 DEF IInv, FaultsStop, LatchesAgree, AllZero
    <3>3. CASE OutputInhibited
      BY <3>1, <3>3, DataAssumption DEF ControlWheels, IsZero, Magnitude
    <3>4. CASE ~OutputInhibited
      <4>1. ramped_rpm'[w] = MoveTowards(ramped_rpm[w], requested[w], RampStep)
        BY <3>1, <3>4 DEF ControlWheels
      <4>2. /\ ramped_rpm[w] \in Int /\ requested[w] \in Int /\ RampStep \in Nat
        BY <1>1, RampStepType DEF IInv, TypeOK
      <4>3. QED
        <5>1. /\ ramped_rpm'[w] \in Int
              /\ \/ Magnitude(ramped_rpm'[w]) <= Magnitude(ramped_rpm[w])
                 \/ Magnitude(ramped_rpm'[w]) <= Magnitude(requested[w])
          BY <4>1, <4>2, MoveTowardsBound
        <5>2. QED
          BY <3>2, <4>2, <5>1, DataAssumption DEF IsZero, Magnitude
    <3>5. QED
      BY <3>3, <3>4
  <2>4. QED
    <3>1. [Next]_vars => UNCHANGED ramped_rpm \/ HardStop
                         \/ (UpdateMotorControl /\ since_control >= ControlPeriod)
      BY DEF Next, vars, drive, Loop, Tick, ReadDone, UpdateCommandWatchdog,
             UpdateMotorControl, SendTelemetry, Receive, ProcessLine, Malformed,
             HandleMotionCommand, AcceptMotion, HandleSimpleCommand, HandlePing,
             HandleDisable, HandleEstop, HandleClear, HandleEnable, Refuse, Reset
    <3>2. QED
      BY <1>1, <2>1, <2>2, <2>3, <3>1
<1>2. QED
  BY <1>1, Invariance, PTL DEF Spec, SoftStopOnlySlows

\* A timeout is cleared only after a fresh all-zero CMD.
THEOREM TimeoutRecovers == Spec => TimeoutRecovery
<1> DEFINE Recovers ==
      /\ fault_bits = {"COMMAND_TIMEOUT"} /\ fault_bits' = {}
      /\ tx'.kind # "HELLO" /\ silence < MillisModulus
      => last_cmd_zero /\ silence <= SoftTimeout
<1>1. ASSUME IInv, [Next]_vars PROVE [Recovers]_vars
  <2> SUFFICES ASSUME fault_bits = {"COMMAND_TIMEOUT"}, fault_bits' = {},
                      tx'.kind # "HELLO", silence < MillisModulus
               PROVE  last_cmd_zero /\ silence <= SoftTimeout
    OBVIOUS
  <2>1. \E f \in Frames : HandleClear(f) /\ FreshZeroCommand
    BY <1>1 DEF Next, vars, latches, Loop, Tick, ReadDone, UpdateCommandWatchdog,
             UpdateMotorControl, SendTelemetry, Receive, ProcessLine, Malformed,
             HandleMotionCommand, AcceptMotion, HandleSimpleCommand, HandlePing,
             HandleDisable, HandleEstop, HandleClear, HandleEnable, Refuse, Reset
  <2>2. have_motion_command /\ command_age <= SoftTimeout
    BY <2>1, TimeAssumption DEF FreshZeroCommand, CommandAge
  <2>3. QED
    BY <2>2, <1>1, TimeAssumption DEF IInv, TypeOK, AgeIsSilence, TimeoutNeedsZero
<1>2. QED
  BY <1>1, Invariance, PTL DEF Spec, TimeoutRecovery

-----------------------------------------------------------------------------
(* The watchdog notices in time.                                           *)

\* An enabled drive has a CMD that is not too old, or the watchdog knows.
NotUnnoticed ==
  drive_enabled =>
    /\ command_age <= HardTimeout + Grace
    /\ ~soft_timeout_active => command_age <= SoftTimeout + Grace

\* A step that leaves the drive enabled or not, the latch and the age alone.
LEMMA NoticedQuiet ==
  ASSUME NotUnnoticed, UNCHANGED <<drive_enabled, soft_timeout_active, command_age>>,
         \/ pc' = pc
         \/ pc = "read" /\ pc' = "watchdog"
         \/ pc = "control" /\ pc' = "telemetry"
         \/ pc = "telemetry" /\ pc' = "tick"
  PROVE  NotUnnoticed'
  BY DEF NotUnnoticed, Grace

\* While the drive is enabled, millis() does not wrap around its last CMD.
LEMMA TickAges ==
  ASSUME IInv, NotUnnoticed, Tick, drive_enabled, NEW d \in 1..MaxLoopGap,
         command_age' = IF have_motion_command THEN AddMillis(command_age, d)
                        ELSE command_age
  PROVE  command_age' = command_age + d
<1> USE TimeAssumption
<1>1. have_motion_command /\ command_age <= HardTimeout
  BY DEF Tick, IInv, TypeOK, EnabledHasCommand, NotUnnoticed, Grace
<1>2. command_age + d < MillisModulus
  BY <1>1 DEF IInv, TypeOK
<1>3. QED
  BY <1>1, <1>2, AddMillisType DEF IInv, TypeOK

LEMMA NoticedTick == IInv /\ NotUnnoticed /\ Tick => NotUnnoticed'
<1> SUFFICES ASSUME IInv, NotUnnoticed, Tick PROVE NotUnnoticed'
  OBVIOUS
<1>1. PICK d \in 1..MaxLoopGap :
        command_age' = IF have_motion_command THEN AddMillis(command_age, d)
                       ELSE command_age
  BY DEF Tick
<1>2. /\ pc = "tick" /\ pc' = "read"
      /\ UNCHANGED <<drive_enabled, soft_timeout_active>>
  BY DEF Tick, latches
<1>3. QED
  BY <1>1, <1>2, TickAges, TimeAssumption DEF NotUnnoticed, Grace, IInv, TypeOK

LEMMA NoticedWatchdog ==
  IInv /\ NotUnnoticed /\ UpdateCommandWatchdog => NotUnnoticed'
<1> SUFFICES ASSUME IInv, NotUnnoticed, UpdateCommandWatchdog PROVE NotUnnoticed'
  OBVIOUS
<1> USE TimeAssumption
<1>1. pc = "watchdog" /\ pc' = "control" /\ command_age' = command_age
  BY DEF UpdateCommandWatchdog, lease
<1>3. CASE HardStopNow
  BY <1>3 DEF UpdateCommandWatchdog, NotUnnoticed
<1>4. CASE ~HardStopNow
  <2>1. /\ drive_enabled' = drive_enabled
        /\ soft_timeout_active' = (soft_timeout_active \/ SoftStopNow)
    BY <1>4 DEF UpdateCommandWatchdog, IInv, TypeOK
  <2>3. drive_enabled => have_motion_command
    BY DEF IInv, EnabledHasCommand
  <2>4. NotUnnoticed'
    <3>1. command_age \in Int /\ SoftTimeout < HardTimeout
      BY DEF IInv, TypeOK
    <3>2. drive_enabled /\ ~soft_timeout_active /\ ~SoftStopNow
            => command_age <= SoftTimeout
      BY <2>3, <3>1 DEF SoftStopNow
    <3>3. drive_enabled /\ (soft_timeout_active \/ SoftStopNow)
            => command_age <= HardTimeout
      BY <1>4, <2>3, <3>1 DEF HardStopNow
    <3>4. drive_enabled => command_age <= HardTimeout
      BY <3>1, <3>2, <3>3
    <3>5. Grace' = 0
      BY <1>1 DEF Grace
    <3>6. drive_enabled' = drive_enabled /\ command_age' = command_age
      BY <1>1, <2>1
    <3>7. ~soft_timeout_active' => ~soft_timeout_active /\ ~SoftStopNow
      BY <2>1
    <3>8. drive_enabled' => command_age' <= HardTimeout + Grace'
      BY <3>1, <3>4, <3>5, <3>6
    <3>9. drive_enabled' /\ ~soft_timeout_active'
            => command_age' <= SoftTimeout + Grace'
      BY <3>1, <3>2, <3>5, <3>6, <3>7
    <3>10. QED
      BY <3>8, <3>9 DEF NotUnnoticed
  <2>5. QED
    BY <2>4
<1>5. QED
  BY <1>3, <1>4

LEMMA NoticedReceive == IInv /\ NotUnnoticed /\ Receive => NotUnnoticed'
<1> SUFFICES ASSUME IInv, NotUnnoticed, NEW f \in Frames, ProcessLine(f)
             PROVE  NotUnnoticed'
  BY DEF Receive
<1>1. pc = "read" /\ UNCHANGED pc
  BY DEF ProcessLine
<1>2. ASSUME NEW a, Malformed(a) PROVE NotUnnoticed'
  BY <1>1, <1>2, NoticedQuiet DEF Malformed, latches, lease
<1>3. ASSUME NEW code, Refuse(f, code) PROVE NotUnnoticed'
  BY <1>1, <1>3, NoticedQuiet DEF Refuse, latches, lease
<1>4. CASE AcceptMotion(f)
  BY <1>4, TimeAssumption DEF AcceptMotion, NotUnnoticed, Grace
<1>5. CASE HandlePing(f)
  BY <1>1, <1>5, NoticedQuiet DEF HandlePing, latches, lease
<1>6. CASE drive_enabled' = FALSE
  BY <1>6 DEF NotUnnoticed
<1>7. CASE HandleEnable(f)
  <2>1. CASE Refuse(f, "FAULT_ACTIVE") \/ Refuse(f, "ZERO_CMD_REQUIRED")
    BY <1>3, <2>1
  <2>2. CASE FreshZeroCommand /\ UNCHANGED lease
    <3>1. have_motion_command /\ command_age <= SoftTimeout /\ command_age' = command_age
      BY <2>2, TimeAssumption DEF FreshZeroCommand, CommandAge, lease
    <3>2. QED
      BY <3>1, TimeAssumption DEF NotUnnoticed, Grace, IInv, TypeOK
  <2>3. QED
    BY <1>7, <2>1, <2>2 DEF HandleEnable
<1>8. QED
  BY <1>2, <1>3, <1>4, <1>5, <1>6, <1>7
  DEF ProcessLine, HandleMotionCommand, HandleSimpleCommand, HandleDisable,
      HandleEstop, HandleClear

LEMMA Noticed == Spec => []NotUnnoticed
<1>1. Init => NotUnnoticed
  BY DEF Init, NotUnnoticed
<1>2. IInv /\ NotUnnoticed /\ [Next]_vars => NotUnnoticed'
  <2> SUFFICES ASSUME IInv, NotUnnoticed, [Next]_vars PROVE NotUnnoticed'
    OBVIOUS
  <2>1. CASE ReadDone \/ SendTelemetry \/ UpdateMotorControl \/ UNCHANGED vars
    BY <2>1, NoticedQuiet
    DEF ReadDone, SendTelemetry, UpdateMotorControl, vars, latches, lease
  <2>2. CASE Reset
    BY <2>2 DEF Reset, NotUnnoticed
  <2>3. QED
    BY <2>1, <2>2, NoticedTick, NoticedWatchdog, NoticedReceive DEF Next, Loop
<1>3. QED
  BY <1>1, <1>2, Invariance, PTL DEF Spec

-----------------------------------------------------------------------------
(* The controlled stop.  It starts no later than MaxLoopGap after the soft *)
(* timeout, and every control step takes Acceleration times the time since *)
(* the one before from a set-point.  What a wheel may still have is        *)
(* therefore bounded by the time left to the hard timeout, counted from    *)
(* the last control step, command_age - since_control ago.                 *)

TopSpeed ==
  ZeroTolerance + Acceleration *
    (HardTimeout - SoftTimeout - ControlPeriod - 2 * MaxLoopGap + 2)

\* How far a wheel can be brought down between the last control step and the cut.
TimeToBrake ==
  HardTimeout - ControlPeriod - MaxLoopGap + 2 + since_control - command_age
StillToBrake == ZeroTolerance + Acceleration * TimeToBrake

\* No wheel is beyond the largest speed of a CMD.
WithinTopSpeed ==
  \A w \in Wheels :
    Magnitude(requested[w]) <= TopSpeed /\ Magnitude(ramped_rpm[w]) <= TopSpeed

\* The control step is not late.
ControlInTime ==
  since_control < ControlPeriod +
    (IF pc \in {"read", "watchdog", "control"} THEN MaxLoopGap ELSE 0)

\* While it brakes, no wheel has more than it can still get rid of.
Braking ==
  drive_enabled /\ soft_timeout_active =>
    \A w \in Wheels :
      IsZero(ramped_rpm[w]) \/ Magnitude(ramped_rpm[w]) <= StillToBrake

StopInv == WithinTopSpeed /\ ControlInTime /\ Braking

\* A product with the acceleration grows with its other factor.
LEMMA ScaleType ==
  ASSUME NEW x \in Int
  PROVE  Acceleration * x \in Int
  BY DataAssumption

LEMMA ScaleOrder ==
  ASSUME NEW x \in Int, NEW y \in Int, x <= y
  PROVE  Acceleration * x <= Acceleration * y
<1>1. y - x \in Nat /\ Acceleration \in Nat
  BY DataAssumption
<1>2. Acceleration * (y - x) \in Nat
  BY <1>1
<1>3. Acceleration * y = Acceleration * x + Acceleration * (y - x)
  BY <1>1
<1>4. QED
  BY <1>2, <1>3, ScaleType

\* The bounds are integers, and every speed of a CMD is within the top speed if
\* there is time to brake from it.
LEMMA BoundTypes ==
  /\ TopSpeed \in Int
  /\ TypeOK => TimeToBrake \in Int /\ StillToBrake \in Int
  /\ BrakesInTime => \A v \in Speeds : Magnitude(v) <= TopSpeed
<1> USE TimeAssumption, DataAssumption
<1>1. TopSpeed \in Int
  BY ScaleType DEF TopSpeed
<1>2. ASSUME TypeOK PROVE TimeToBrake \in Int
  BY <1>2 DEF TimeToBrake, TypeOK
<1>3. TypeOK => StillToBrake \in Int
  BY <1>2, ScaleType DEF StillToBrake
<1>4. BrakesInTime => \A v \in Speeds : Magnitude(v) <= TopSpeed
  BY DEF BrakesInTime, TopSpeed, Magnitude
<1>5. QED
  BY <1>1, <1>2, <1>3, <1>4

\* At rest every wheel is within the top speed.
LEMMA StillIsWithin ==
  BrakesInTime => \A w \in Wheels : Magnitude(Still[w]) <= TopSpeed
  BY BoundTypes, DataAssumption DEF Still

\* On its way to a speed the code takes for zero, a set-point loses a full step, or
\* is zero as well.
LEMMA MoveTowardsZero ==
  ASSUME NEW c \in Int, NEW t \in Int, NEW s \in Nat, IsZero(t)
  PROVE  LET m == MoveTowards(c, t, s)
         IN  IsZero(m) \/ Magnitude(m) <= Magnitude(c) - s
  BY DataAssumption DEF MoveTowards, Magnitude, Least, IsZero

LEMMA InitStop == BrakesInTime /\ Init => StopInv
<1> SUFFICES ASSUME BrakesInTime, Init PROVE StopInv
  OBVIOUS
<1>1. WithinTopSpeed
  BY StillIsWithin DEF Init, WithinTopSpeed
<1>2. ControlInTime
  BY TimeAssumption DEF Init, ControlInTime
<1>3. QED
  BY <1>1, <1>2 DEF Init, StopInv, Braking

\* A step that leaves the drive, its latches and the times alone.
LEMMA QuietStop ==
  ASSUME StopInv, UNCHANGED <<drive, latches, lease, since_control>>,
         \/ pc' = pc
         \/ pc = "read" /\ pc' = "watchdog"
         \/ pc = "telemetry" /\ pc' = "tick"
  PROVE  StopInv'
<1>1. UNCHANGED <<requested, ramped_rpm, drive_enabled, soft_timeout_active,
                  command_age, since_control>>
  BY DEF drive, latches, lease
<1>2. WithinTopSpeed' /\ ControlInTime'
  BY <1>1 DEF StopInv, WithinTopSpeed, ControlInTime
<1>3. StillToBrake' = StillToBrake
  BY <1>1 DEF StillToBrake, TimeToBrake
<1>4. Braking'
  BY <1>1, <1>3 DEF StopInv, Braking
<1>5. QED
  BY <1>2, <1>4 DEF StopInv

\* A step that stops every wheel and disables the drive.
LEMMA CutStop ==
  ASSUME BrakesInTime, HardStop, ~drive_enabled', ControlInTime'
  PROVE  StopInv'
<1>1. WithinTopSpeed'
  BY StillIsWithin DEF HardStop, WithinTopSpeed
<1>2. QED
  BY <1>1 DEF StopInv, Braking

\* Time passes for the age and for the control step alike.
LEMMA TickStop == IInv /\ NotUnnoticed /\ StopInv /\ Tick => StopInv'
<1> SUFFICES ASSUME IInv, NotUnnoticed, StopInv, Tick PROVE StopInv'
  OBVIOUS
<1> USE TimeAssumption
<1>1. PICK d \in 1..MaxLoopGap :
        /\ command_age' = IF have_motion_command THEN AddMillis(command_age, d)
                          ELSE command_age
        /\ since_control' = since_control + d
  BY DEF Tick
<1>2. /\ pc = "tick" /\ pc' = "read"
      /\ UNCHANGED <<requested, ramped_rpm, drive_enabled, soft_timeout_active>>
  BY DEF Tick, drive, latches
<1>3. WithinTopSpeed'
  BY <1>2 DEF StopInv, WithinTopSpeed
<1>4. ControlInTime'
  BY <1>1, <1>2 DEF StopInv, ControlInTime, IInv, TypeOK
<1>7. drive_enabled => TimeToBrake' = TimeToBrake
  BY <1>1, TickAges DEF TimeToBrake, IInv, TypeOK
<1>8. Braking'
  BY <1>2, <1>7 DEF StopInv, Braking, StillToBrake
<1>9. QED
  BY <1>3, <1>4, <1>8 DEF StopInv

\* When the soft stop begins, there is time for the top speed.
LEMMA WatchdogStop ==
  BrakesInTime /\ IInv /\ NotUnnoticed /\ StopInv /\ UpdateCommandWatchdog => StopInv'
<1> SUFFICES ASSUME BrakesInTime, IInv, NotUnnoticed, StopInv, UpdateCommandWatchdog
             PROVE  StopInv'
  OBVIOUS
<1> USE TimeAssumption
<1>1. pc = "watchdog" /\ pc' = "control" /\ UNCHANGED <<command_age, since_control>>
  BY DEF UpdateCommandWatchdog, lease
<1>2. ControlInTime'
  BY <1>1 DEF StopInv, ControlInTime
<1>3. CASE HardStopNow
  BY <1>2, <1>3, CutStop DEF UpdateCommandWatchdog, IInv, TypeOK
<1>4. CASE ~HardStopNow
  <2>1. /\ UNCHANGED <<ramped_rpm, drive_enabled>>
        /\ soft_timeout_active' = (soft_timeout_active \/ SoftStopNow)
        /\ requested' = IF SoftStopNow THEN Still ELSE requested
    BY <1>4 DEF UpdateCommandWatchdog, IInv, TypeOK
  <2>2. WithinTopSpeed'
    BY <2>1, StillIsWithin DEF StopInv, WithinTopSpeed
  <2>3. ASSUME drive_enabled
        PROVE  /\ command_age <= HardTimeout + MaxLoopGap
               /\ ~soft_timeout_active => command_age <= SoftTimeout + MaxLoopGap
               /\ have_motion_command
    BY <1>1, <2>3 DEF NotUnnoticed, Grace, IInv, EnabledHasCommand
  <2>5. TimeToBrake' = TimeToBrake /\ StillToBrake' = StillToBrake
    BY <1>1 DEF TimeToBrake, StillToBrake
  <2>6. CASE drive_enabled /\ ~soft_timeout_active
    <3>1. HardTimeout - SoftTimeout - ControlPeriod - 2 * MaxLoopGap + 2 <= TimeToBrake
      BY <2>3, <2>6 DEF TimeToBrake, IInv, TypeOK
    <3>2. TopSpeed <= StillToBrake
      <4> DEFINE x == HardTimeout - SoftTimeout - ControlPeriod - 2 * MaxLoopGap + 2
      <4>1. x \in Int /\ TimeToBrake \in Int /\ ZeroTolerance \in Int
        BY BoundTypes, DataAssumption DEF IInv
      <4>2. Acceleration * x <= Acceleration * TimeToBrake
        BY <3>1, <4>1, ScaleOrder
      <4>3. Acceleration * x \in Int /\ Acceleration * TimeToBrake \in Int
        BY <4>1, ScaleType
      <4> HIDE DEF x
      <4>4. ZeroTolerance + Acceleration * x <= ZeroTolerance + Acceleration * TimeToBrake
        BY <4>1, <4>2, <4>3
      <4>5. QED
        BY <4>4 DEF TopSpeed, StillToBrake, x
    <3>3. ASSUME NEW w \in Wheels PROVE Magnitude(ramped_rpm[w]) <= StillToBrake
      <4>1. Magnitude(ramped_rpm[w]) <= TopSpeed /\ Magnitude(ramped_rpm[w]) \in Int
        BY DEF StopInv, WithinTopSpeed, IInv, TypeOK, Magnitude
      <4>2. QED
        BY <3>2, <4>1, BoundTypes DEF IInv
    <3>4. QED
      BY <2>1, <2>2, <2>5, <1>2, <3>3 DEF StopInv, Braking
  <2>7. CASE drive_enabled => soft_timeout_active
    BY <1>2, <2>1, <2>2, <2>5, <2>7 DEF StopInv, Braking
  <2>8. QED
    BY <2>6, <2>7
<1>5. QED
  BY <1>3, <1>4

\* A control step takes what it has to from every wheel.
LEMMA ControlStop ==
  BrakesInTime /\ IInv /\ StopInv /\ UpdateMotorControl => StopInv'
<1> SUFFICES ASSUME BrakesInTime, IInv, StopInv, UpdateMotorControl PROVE StopInv'
  OBVIOUS
<1> USE TimeAssumption
<1>1. /\ pc = "control" /\ pc' = "telemetry"
      /\ UNCHANGED <<requested, drive_enabled, soft_timeout_active, command_age>>
  BY DEF UpdateMotorControl, latches, lease
<1>3. CASE since_control < ControlPeriod
  <2>1. UNCHANGED <<since_control, ramped_rpm>>
    BY <1>3 DEF UpdateMotorControl, IInv, TypeOK
  <2>2. WithinTopSpeed' /\ ControlInTime'
    BY <1>1, <1>3, <2>1 DEF StopInv, WithinTopSpeed, ControlInTime, IInv, TypeOK
  <2>3. Braking'
    BY <1>1, <2>1 DEF StopInv, Braking, StillToBrake, TimeToBrake
  <2>4. QED
    BY <2>2, <2>3 DEF StopInv
<1>4. CASE since_control >= ControlPeriod
  <2>1. since_control' = 0 /\ ControlWheels
    BY <1>4 DEF UpdateMotorControl, IInv, TypeOK
  <2>2. ControlInTime'
    BY <1>1, <2>1 DEF ControlInTime
  <2>3. ASSUME NEW w \in Wheels
        PROVE  /\ ramped_rpm[w] \in Int /\ requested[w] \in Int
               /\ RampStep \in Nat /\ Magnitude(ramped_rpm[w]) \in Nat
               /\ \/ ramped_rpm'[w] = 0
                  \/ /\ drive_enabled
                     /\ ramped_rpm'[w] =
                          MoveTowards(ramped_rpm[w], requested[w], RampStep)
    BY <2>1, RampStepType DEF ControlWheels, OutputInhibited, IInv, TypeOK, Magnitude
  <2>4. WithinTopSpeed'
    <3> SUFFICES ASSUME NEW w \in Wheels
                 PROVE  Magnitude(ramped_rpm'[w]) <= TopSpeed
      BY <1>1 DEF StopInv, WithinTopSpeed
    <3>1. /\ Magnitude(ramped_rpm[w]) <= TopSpeed /\ Magnitude(requested[w]) <= TopSpeed
          /\ Magnitude(0) <= TopSpeed /\ TopSpeed \in Int
      BY BoundTypes, DataAssumption DEF StopInv, WithinTopSpeed
    <3>2. QED
      <4>1. CASE ramped_rpm'[w] = 0
        BY <3>1, <4>1
      <4>2. CASE ramped_rpm'[w] = MoveTowards(ramped_rpm[w], requested[w], RampStep)
        <5>1. /\ ramped_rpm'[w] \in Int
              /\ \/ Magnitude(ramped_rpm'[w]) <= Magnitude(ramped_rpm[w])
                 \/ Magnitude(ramped_rpm'[w]) <= Magnitude(requested[w])
          BY <2>3, <4>2, MoveTowardsBound
        <5>2. QED
          BY <2>3, <3>1, <5>1 DEF Magnitude
      <4>3. QED
        BY <2>3, <4>1, <4>2
  <2>5. Braking'
    <3> SUFFICES ASSUME drive_enabled, soft_timeout_active, NEW w \in Wheels
                 PROVE  \/ IsZero(ramped_rpm'[w])
                        \/ Magnitude(ramped_rpm'[w]) <= StillToBrake'
      BY <1>1 DEF Braking, IsZero
    <3>1. IsZero(requested[w])
      BY DEF IInv, FaultsStop, LatchesAgree, AllZero
    <3>2. IsZero(0)
      BY DataAssumption DEF IsZero, Magnitude
    <3>3. \/ IsZero(ramped_rpm[w])
          \/ Magnitude(ramped_rpm[w]) <= StillToBrake
      BY DEF StopInv, Braking
    <3>4. StillToBrake' = StillToBrake - RampStep
      <4>1. TimeToBrake \in Int /\ since_control \in Int /\ Acceleration \in Int
        BY BoundTypes, DataAssumption DEF IInv, TypeOK
      <4>2. TimeToBrake' = TimeToBrake - since_control
        BY <1>1, <2>1 DEF TimeToBrake, IInv, TypeOK
      <4>3. Acceleration * (TimeToBrake - since_control)
              = Acceleration * TimeToBrake - Acceleration * since_control
        BY <4>1
      <4>4. /\ Acceleration * TimeToBrake \in Int /\ Acceleration * since_control \in Int
            /\ ZeroTolerance \in Int
        BY <4>1, ScaleType, DataAssumption
      <4>5. QED
        BY <4>2, <4>3, <4>4 DEF StillToBrake, RampStep
    <3>5. CASE ramped_rpm'[w] = MoveTowards(ramped_rpm[w], requested[w], RampStep)
      <4>1. \/ IsZero(ramped_rpm'[w])
            \/ Magnitude(ramped_rpm'[w]) <= Magnitude(ramped_rpm[w]) - RampStep
        BY <2>3, <3>1, <3>5, MoveTowardsZero
      <4>2. IsZero(ramped_rpm[w]) => IsZero(ramped_rpm'[w])
        <5>1. /\ ramped_rpm'[w] \in Int
              /\ \/ Magnitude(ramped_rpm'[w]) <= Magnitude(ramped_rpm[w])
                 \/ Magnitude(ramped_rpm'[w]) <= Magnitude(requested[w])
          BY <2>3, <3>5, MoveTowardsBound
        <5>2. QED
          BY <2>3, <3>1, <5>1, DataAssumption DEF IsZero, Magnitude
      <4>3. ramped_rpm'[w] \in Int /\ StillToBrake \in Int
        BY <2>3, <3>5, MoveTowardsBound, BoundTypes DEF IInv
      <4>4. QED
        BY <2>3, <3>3, <3>4, <4>1, <4>2, <4>3 DEF Magnitude
    <3>6. QED
      BY <2>3, <3>2, <3>5
  <2>6. QED
    BY <2>2, <2>4, <2>5 DEF StopInv
<1>5. QED
  BY <1>3, <1>4 DEF IInv, TypeOK

\* Every CMD is within the top speed, and a new lease only gives more time.
LEMMA MotionStop ==
  ASSUME BrakesInTime, IInv, StopInv, NEW f \in Frames, AcceptMotion(f),
         f.command = "CMD", f.defect = "none", UNCHANGED <<pc, since_control>>
  PROVE  StopInv'
<1> USE TimeAssumption
<1>1. /\ requested' = f.speeds /\ command_age' = 0
      /\ UNCHANGED <<ramped_rpm, drive_enabled, soft_timeout_active>>
  BY DEF AcceptMotion, latches
<1>2. f.speeds \in Speed
  BY DataAssumption DEF Frames, Frame, Speed, Still
<1>3. WithinTopSpeed'
  BY <1>1, <1>2, BoundTypes DEF StopInv, WithinTopSpeed, Speed
<1>4. ControlInTime'
  BY DEF StopInv, ControlInTime
<1>5. StillToBrake <= StillToBrake'
  <2>1. TimeToBrake \in Int /\ TimeToBrake' \in Int /\ TimeToBrake <= TimeToBrake'
    BY <1>1 DEF TimeToBrake, IInv, TypeOK
  <2>2. Acceleration * TimeToBrake <= Acceleration * TimeToBrake'
    BY <2>1, ScaleOrder
  <2>3. /\ Acceleration * TimeToBrake \in Int /\ Acceleration * TimeToBrake' \in Int
        /\ ZeroTolerance \in Int
    BY <2>1, ScaleType, DataAssumption
  <2>4. ZeroTolerance + Acceleration * TimeToBrake
          <= ZeroTolerance + Acceleration * TimeToBrake'
    BY <2>2, <2>3
  <2>5. QED
    BY <2>4 DEF StillToBrake
<1>6. StillToBrake \in Int /\ StillToBrake' \in Int
  <2>1. TimeToBrake' \in Int
    BY <1>1 DEF TimeToBrake, IInv, TypeOK
  <2>2. QED
    BY <2>1, BoundTypes, ScaleType, DataAssumption DEF StillToBrake, IInv
<1>7. Braking'
  BY <1>1, <1>5, <1>6 DEF StopInv, Braking, Magnitude, IInv, TypeOK
<1>8. QED
  BY <1>3, <1>4, <1>7 DEF StopInv

LEMMA ReceiveStop == BrakesInTime /\ IInv /\ StopInv /\ Receive => StopInv'
<1> SUFFICES ASSUME BrakesInTime, IInv, StopInv, NEW f \in Frames, ProcessLine(f)
             PROVE  StopInv'
  BY DEF Receive
<1>1. pc = "read" /\ UNCHANGED <<pc, since_control>>
  BY DEF ProcessLine
<1>2. ControlInTime'
  BY <1>1 DEF StopInv, ControlInTime
<1>3. ASSUME NEW a, Malformed(a) PROVE StopInv'
  BY <1>1, <1>3, QuietStop DEF Malformed
<1>4. ASSUME NEW code, Refuse(f, code) PROVE StopInv'
  BY <1>1, <1>4, QuietStop DEF Refuse
<1>5. CASE HandleMotionCommand(f)
  BY <1>1, <1>4, <1>5, MotionStop DEF HandleMotionCommand
<1>6. CASE HandlePing(f)
  BY <1>1, <1>6, QuietStop DEF HandlePing
<1>7. CASE HandleDisable(f) \/ HandleEstop(f)
  BY <1>2, <1>7, CutStop DEF HandleDisable, HandleEstop
<1>8. CASE HandleClear(f)
  BY <1>2, <1>4, <1>8, CutStop DEF HandleClear
<1>9. CASE HandleEnable(f)
  <2>1. CASE Refuse(f, "FAULT_ACTIVE") \/ Refuse(f, "ZERO_CMD_REQUIRED")
    BY <1>4, <2>1
  <2>2. CASE /\ FreshZeroCommand /\ drive_enabled' = TRUE
             /\ soft_timeout_active' = FALSE
             /\ UNCHANGED <<drive, lease>>
    <3>1. WithinTopSpeed' /\ Braking'
      BY <2>2 DEF StopInv, WithinTopSpeed, Braking, drive
    <3>2. QED
      BY <1>2, <3>1 DEF StopInv
  <2>3. QED
    BY <1>9, <2>1, <2>2 DEF HandleEnable
<1>10. QED
  BY <1>3, <1>5, <1>6, <1>7, <1>8, <1>9 DEF ProcessLine, HandleSimpleCommand

\* When the hard timeout cuts the output, every wheel has come to rest, if there is
\* time to brake between the timeouts.
THEOREM CutFindsRest == Spec => [](BrakesInTime => StopsBeforeTheCut)
<1>1. Init => (BrakesInTime => StopInv)
  BY InitStop
<1>2. IInv /\ NotUnnoticed /\ (BrakesInTime => StopInv) /\ [Next]_vars
        => (BrakesInTime => StopInv)'
  <2> SUFFICES ASSUME BrakesInTime, IInv, NotUnnoticed, StopInv, [Next]_vars
               PROVE  StopInv'
    BY DEF BrakesInTime
  <2>1. CASE ReadDone \/ SendTelemetry \/ UNCHANGED vars
    BY <2>1, QuietStop DEF ReadDone, SendTelemetry, vars
  <2>2. CASE Reset
    <3>1. ControlInTime'
      BY <2>2, TimeAssumption DEF Reset, ControlInTime
    <3>2. QED
      BY <2>2, <3>1, CutStop DEF Reset
  <2>3. QED
    BY <2>1, <2>2, TickStop, WatchdogStop, ControlStop, ReceiveStop DEF Next, Loop
<1>3. IInv /\ NotUnnoticed /\ (BrakesInTime => StopInv)
        => (BrakesInTime => StopsBeforeTheCut)
  <2> SUFFICES ASSUME BrakesInTime, IInv, NotUnnoticed, StopInv, pc = "watchdog",
                      HardStopNow, NEW w \in Wheels
               PROVE  IsZero(ramped_rpm[w])
    BY DEF StopsBeforeTheCut, AllZero
  <2> USE TimeAssumption
  <2>1. /\ drive_enabled /\ have_motion_command /\ command_age > HardTimeout
        /\ since_control < ControlPeriod + MaxLoopGap
    BY DEF HardStopNow, StopInv, ControlInTime
  <2>2. CASE soft_timeout_active
    <3>1. TimeToBrake \in Int /\ TimeToBrake <= 0
      BY <2>1 DEF TimeToBrake, IInv, TypeOK
    <3>2. StillToBrake <= ZeroTolerance
      <4>1. Acceleration * TimeToBrake <= Acceleration * 0
        BY <3>1, ScaleOrder
      <4>2. Acceleration * 0 = 0 /\ Acceleration * TimeToBrake \in Int
        BY <3>1, ScaleType, DataAssumption
      <4>3. QED
        BY <4>1, <4>2, DataAssumption DEF StillToBrake
    <3>3. QED
      BY <2>1, <2>2, <3>2, BoundTypes, DataAssumption
      DEF StopInv, Braking, IsZero, Magnitude, IInv, TypeOK
  <2>3. CASE ~soft_timeout_active
    <3>1. HardTimeout < SoftTimeout + MaxLoopGap
      BY <2>1, <2>3 DEF NotUnnoticed, Grace, IInv, TypeOK
    <3>2. TopSpeed <= ZeroTolerance
      <4> DEFINE x == HardTimeout - SoftTimeout - ControlPeriod - 2 * MaxLoopGap + 2
      <4>1. x \in Int /\ x <= 0
        BY <3>1
      <4> HIDE DEF x
      <4>2. Acceleration * x <= Acceleration * 0
        BY <4>1, ScaleOrder
      <4>3. Acceleration * 0 = 0 /\ Acceleration * x \in Int
        BY <4>1, ScaleType, DataAssumption
      <4>4. ZeroTolerance + Acceleration * x <= ZeroTolerance
        BY <4>2, <4>3, DataAssumption
      <4>5. QED
        BY <4>4 DEF TopSpeed, x
    <3>3. QED
      BY <3>2, BoundTypes, DataAssumption
      DEF StopInv, WithinTopSpeed, IsZero, Magnitude, IInv, TypeOK
  <2>4. QED
    BY <2>2, <2>3 DEF IInv, TypeOK
<1>4. QED
  BY <1>1, <1>2, <1>3, Invariance, Noticed, PTL DEF Spec

-----------------------------------------------------------------------------
(* The refinement of DriveLease.                                           *)

LEMMA RefinesInit == Init => Lease!Init
  BY StillIsZero DEF Init, Lease!Init, DriveMode

\* A step that changes neither the drive, nor a latch, nor the silence.
LEMMA RefinesQuiet ==
  ASSUME UNCHANGED <<drive, latches, silence>>
  PROVE  UNCHANGED Lease!vars
  BY DEF drive, latches, Lease!vars, DriveMode, AllZero

\* A step that disables the drive and stops every wheel is a Cut.
LEMMA RefinesCut ==
  ASSUME HardStop, ~drive_enabled', silence' \in {silence, SilenceCap}
  PROVE  Lease!Cut
<1>1. ~(~AllZero(ramped_rpm))' /\ DriveMode' = "off"
  BY StillIsZero DEF HardStop, DriveMode, AllZero
<1>2. QED
  BY <1>1 DEF Lease!Cut

LEMMA RefinesTick == IInv /\ Tick => Lease!Pass
<1> SUFFICES ASSUME IInv, Tick PROVE Lease!Pass
  OBVIOUS
<1>1. UNCHANGED DriveMode /\ AllZero(ramped_rpm)' = AllZero(ramped_rpm)
  BY DEF Tick, drive, latches, DriveMode, AllZero
<1>2. \E d \in 1..MaxLoopGap :
        silence' = IF silence + d < SilenceCap THEN silence + d ELSE SilenceCap
  BY DEF Tick, Least
<1>3. DriveMode = "driving" => silence <= SoftTimeout
  BY TimeAssumption DEF IInv, TypeOK, Tick, DriveMode, MotionNeedsLease, Grace
<1>4. ~AllZero(ramped_rpm) => silence <= HardTimeout
  BY TimeAssumption DEF IInv, TypeOK, Tick, SetpointNeedsLease, Grace
<1>5. QED
  BY <1>1, <1>2, <1>3, <1>4 DEF Lease!Pass

LEMMA RefinesWatchdog == IInv /\ UpdateCommandWatchdog => [Lease!Next]_(Lease!vars)
<1> SUFFICES ASSUME IInv, UpdateCommandWatchdog PROVE [Lease!Next]_(Lease!vars)
  OBVIOUS
<1>1. CASE HardStopNow
  BY <1>1, RefinesCut DEF UpdateCommandWatchdog, lease, Lease!Next
<1>2. CASE ~HardStopNow /\ ~SoftStopNow
  <2>1. UNCHANGED <<drive, latches, silence>>
    BY <1>2 DEF UpdateCommandWatchdog, drive, latches, lease, IInv, TypeOK
  <2>2. QED
    BY <2>1, RefinesQuiet
<1>3. CASE ~HardStopNow /\ SoftStopNow
  <2>1. drive_enabled /\ drive_enabled' /\ fault_bits = {} /\ fault_bits' # {}
    BY <1>3 DEF UpdateCommandWatchdog, SoftStopNow, IInv, TypeOK, LatchesAgree
  <2>2. silence > SoftTimeout
    BY <1>3, TimeAssumption DEF SoftStopNow, IInv, TypeOK, AgeIsSilence
  <2>3. /\ DriveMode \in {"standby", "driving"} /\ DriveMode' = "stopping"
    BY <2>1 DEF DriveMode
  <2>4. silence' = silence /\ AllZero(ramped_rpm)' = AllZero(ramped_rpm)
    BY <1>3 DEF UpdateCommandWatchdog, lease, AllZero
  <2>5. QED
    BY <2>2, <2>3, <2>4 DEF Lease!Next, Lease!Lapse
<1>4. QED
  BY <1>1, <1>2, <1>3

LEMMA RefinesControl == IInv /\ UpdateMotorControl => [Lease!Next]_(Lease!vars)
<1> SUFFICES ASSUME IInv, UpdateMotorControl PROVE [Lease!Next]_(Lease!vars)
  OBVIOUS
<1>0. IInv'
  BY ControlIInv
<1>1. UNCHANGED <<requested, latches, silence>> /\ UNCHANGED DriveMode
  BY DEF UpdateMotorControl, lease, latches, DriveMode, AllZero
<1>2. CASE AllZero(ramped_rpm)' = AllZero(ramped_rpm)
  BY <1>1, <1>2 DEF Lease!vars
<1>3. CASE AllZero(ramped_rpm)' # AllZero(ramped_rpm)
  <2>1. DriveMode # "off"
    BY <1>0, <1>1, <1>3, StillIsZero
    DEF IInv, DisabledIsStill, DriveMode, latches, AllZero
  <2>2. CASE AllZero(ramped_rpm)'
    BY <2>1, <2>2, <1>1 DEF Lease!Next, Lease!Move
  <2>3. CASE ~AllZero(ramped_rpm)'
    <3>1. AllZero(ramped_rpm) /\ ~AllZero(requested)
      BY <1>3, <2>3, ControlNeedsTarget DEF AllZero
    <3>2. DriveMode = "driving"
      BY <3>1, <2>1 DEF DriveMode, IInv, FaultsStop
    <3>3. QED
      BY <3>2, <2>1, <2>3, <1>1 DEF Lease!Next, Lease!Move
  <2>4. QED
    BY <2>2, <2>3
<1>4. QED
  BY <1>2, <1>3

LEMMA RefinesReceive == IInv /\ Receive => [Lease!Next]_(Lease!vars)
<1> SUFFICES ASSUME IInv, NEW f \in Frames, ProcessLine(f)
             PROVE  [Lease!Next]_(Lease!vars)
  BY DEF Receive
<1>1. ASSUME NEW a, Malformed(a) PROVE UNCHANGED Lease!vars
  BY <1>1, RefinesQuiet DEF Malformed, lease
<1>2. ASSUME NEW code, Refuse(f, code) PROVE UNCHANGED Lease!vars
  BY <1>2, RefinesQuiet DEF Refuse, lease
<1>3. CASE AcceptMotion(f)
  <2>1. silence' = 0 /\ AllZero(ramped_rpm)' = AllZero(ramped_rpm)
    BY <1>3 DEF AcceptMotion, AllZero
  <2>2. DriveMode' \in IF DriveMode \in {"off", "stopping"} THEN {DriveMode}
                       ELSE {"standby", "driving"}
    BY <1>3 DEF AcceptMotion, latches, DriveMode
  <2>3. QED
    BY <2>1, <2>2 DEF Lease!Next, Lease!Renew
<1>4. CASE HandlePing(f)
  BY <1>4, RefinesQuiet DEF HandlePing, lease
<1>5. CASE HandleDisable(f) \/ HandleEstop(f)
  BY <1>5, RefinesCut DEF HandleDisable, HandleEstop, lease, Lease!Next
<1>6. CASE HandleClear(f)
  BY <1>2, <1>6, RefinesCut DEF HandleClear, lease, Lease!Next
<1>7. CASE HandleEnable(f)
  <2>1. CASE Refuse(f, "FAULT_ACTIVE") \/ Refuse(f, "ZERO_CMD_REQUIRED")
    BY <1>2, <2>1
  <2>2. CASE /\ fault_bits = {} /\ FreshZeroCommand /\ drive_enabled' = TRUE
             /\ UNCHANGED <<drive, fault_bits, lease>>
    <3>1. DriveMode \in {"off", "standby"} /\ DriveMode' = "standby"
      BY <2>2 DEF FreshZeroCommand, DriveMode, drive, AllZero
    <3>2. silence' = silence /\ AllZero(ramped_rpm)' = AllZero(ramped_rpm)
      BY <2>2 DEF drive, lease, AllZero
    <3>3. QED
      BY <3>1, <3>2 DEF Lease!Next, Lease!Start, Lease!vars
  <2>3. QED
    BY <1>7, <2>1, <2>2 DEF HandleEnable, FaultActive
<1>8. QED
  BY <1>1, <1>2, <1>3, <1>4, <1>5, <1>6, <1>7
  DEF ProcessLine, HandleMotionCommand, HandleSimpleCommand

\* The firmware implements the lease: every step of loop(), every line received
\* and every reset is a step that DriveLease allows.
THEOREM LeaseImplemented == Spec => ImplementsLease
<1>1. Init => Lease!Init
  BY RefinesInit
<1>2. ASSUME IInv, [Next]_vars PROVE [Lease!Next]_(Lease!vars)
  <2>1. CASE Tick
    BY <1>2, <2>1, RefinesTick DEF Lease!Next
  <2>2. CASE ReadDone \/ SendTelemetry \/ UNCHANGED vars
    BY <2>2, RefinesQuiet DEF ReadDone, SendTelemetry, vars, lease
  <2>3. CASE UpdateCommandWatchdog
    BY <1>2, <2>3, RefinesWatchdog
  <2>4. CASE UpdateMotorControl
    BY <1>2, <2>4, RefinesControl
  <2>5. CASE Receive
    BY <1>2, <2>5, RefinesReceive
  <2>6. CASE Reset
    BY <2>6, RefinesCut DEF Reset, Lease!Next
  <2>7. QED
    BY <1>2, <2>1, <2>2, <2>3, <2>4, <2>5, <2>6 DEF Next, Loop
<1>3. QED
  BY <1>1, <1>2, Invariance, PTL DEF Spec, ImplementsLease, Lease!Spec

-----------------------------------------------------------------------------
(* The refinement of DriveContract.                                        *)

\* The fields of the drive that the host is shown.
Shown(e, f, m, r) == [enabled |-> e, fault |-> f, moving |-> m, fresh |-> r]

LEMMA ShownNow ==
  ASSUME NEW m, NEW r, (~AllZero(requested)) = m, (CommandAge <= SoftTimeout) = r
  PROVE  PortBase = Shown(drive_enabled, fault_bits, m, r)
  BY DEF PortBase, Shown

LEMMA ShownNext ==
  ASSUME NEW m, NEW r, (~AllZero(requested)') = m, (CommandAge <= SoftTimeout)' = r
  PROVE  PortBase' = Shown(drive_enabled', fault_bits', m, r)
  BY DEF PortBase, Shown

\* A change of some of them.
LEMMA ShownFresh ==
  ASSUME NEW e, NEW f, NEW m, NEW r, NEW v
  PROVE  [Shown(e, f, m, r) EXCEPT !.fresh = v] = Shown(e, f, m, v)
  BY DEF Shown

\* What the contract's operators make of them.
LEMMA ShownAged ==
  ASSUME NEW e, NEW f, NEW m, NEW r
  PROVE  Port!Aged(Shown(e, f, m, r)) = Shown(e, f, m, FALSE)
<1>1. \A v : [Shown(e, f, m, r) EXCEPT !.fresh = v] = Shown(e, f, m, v)
  BY ShownFresh
<1>2. QED
  BY <1>1 DEF Port!Aged

LEMMA ShownWrapped ==
  ASSUME NEW e, NEW f, NEW m, NEW r
  PROVE  Port!Wrapped(Shown(e, f, m, r)) = Shown(e, f, m, TRUE)
<1>1. \A v : [Shown(e, f, m, r) EXCEPT !.fresh = v] = Shown(e, f, m, v)
  BY ShownFresh
<1>2. QED
  BY <1>1 DEF Port!Wrapped

LEMMA ShownCommanded ==
  ASSUME NEW e, NEW f, NEW m, NEW r
  PROVE  /\ Port!BaseAfter(Shown(e, f, m, r), "CMD0") = Shown(e, f, FALSE, TRUE)
         /\ Port!BaseAfter(Shown(e, f, m, r), "CMDV") = Shown(e, f, TRUE, TRUE)
  BY DEF Shown, Port!BaseAfter

LEMMA PortInit == Init => Port!Init
<1> SUFFICES ASSUME Init PROVE Port!Init
  OBVIOUS
<1>1. PortBase = Port!BaseOff
  <2>1. (~AllZero(requested)) = FALSE
    BY StillIsZero DEF Init
  <2>2. (CommandAge <= SoftTimeout) = FALSE
    BY TimeAssumption DEF Init, CommandAge
  <2>3. drive_enabled = FALSE /\ fault_bits = {}
    BY DEF Init
  <2>4. PortBase = Shown(FALSE, {}, FALSE, FALSE)
    BY <2>1, <2>2, <2>3, ShownNow
  <2>5. QED
    BY <2>4 DEF Shown, Port!BaseOff
<1>2. QED
  BY <1>1 DEF Init, Port!Init, Port!Says, PortAnswer

\* What the two ends of a step show, field by field.
LEMMA SameBase ==
  ASSUME drive_enabled' = drive_enabled, fault_bits' = fault_bits,
         AllZero(requested)' = AllZero(requested),
         (CommandAge <= SoftTimeout)' = (CommandAge <= SoftTimeout)
  PROVE  PortBase' = PortBase
  BY DEF PortBase

\* A silent step that shows no change.
LEMMA PortQuiet ==
  ASSUME tx' = Silent, PortBase' = PortBase, rx_error_count' = rx_error_count
  PROVE  Port!Next
  BY DEF Silent, PortAnswer, Port!Next, Port!Alone, Port!Says

LEMMA PortTick == IInv /\ NotUnnoticed /\ Tick => Port!Next
<1> SUFFICES ASSUME IInv, NotUnnoticed, Tick PROVE Port!Next
  OBVIOUS
<1>1. /\ tx' = Silent /\ rx_error_count' = rx_error_count
      /\ drive_enabled' = drive_enabled /\ fault_bits' = fault_bits
      /\ AllZero(requested)' = AllZero(requested)
      /\ drive_enabled \in BOOLEAN
  BY DEF Tick, drive, latches, AllZero, IInv, TypeOK
<1> DEFINE fresh == CommandAge <= SoftTimeout
<1> DEFINE m == ~AllZero(requested)
<1>2. \A r : /\ fresh = r => PortBase = Shown(drive_enabled, fault_bits, m, r)
             /\ fresh' = r => PortBase' = Shown(drive_enabled, fault_bits, m, r)
  BY <1>1, ShownNow, ShownNext
<1>3. CASE fresh' = fresh
  BY <1>1, <1>3, SameBase, PortQuiet
<1>4. CASE fresh /\ ~fresh'
  <2>1. PortBase.fresh /\ PortBase' = Port!Aged(PortBase)
    <3>1. fresh = TRUE /\ fresh' = FALSE
      BY <1>4
    <3>2. /\ PortBase = Shown(drive_enabled, fault_bits, m, TRUE)
          /\ PortBase' = Shown(drive_enabled, fault_bits, m, FALSE)
      BY <1>2, <3>1
    <3> HIDE DEF m
    <3>3. PortBase' = Port!Aged(PortBase)
      BY <3>2, ShownAged, Zenon
    <3>4. PortBase.fresh
      BY <3>1 DEF PortBase
    <3>5. QED
      BY <3>3, <3>4
  <2>2. QED
    BY <1>1, <2>1
    DEF Silent, PortAnswer, Port!Next, Port!Alone, Port!Ages, Port!Says
<1>5. CASE ~fresh /\ fresh'
  <2>1. ~drive_enabled
    <3> SUFFICES ASSUME drive_enabled PROVE FALSE
      OBVIOUS
    <3>1. /\ have_motion_command /\ command_age \in 0..(MillisModulus - 1)
          /\ command_age > SoftTimeout
      BY <1>5, TimeAssumption DEF IInv, TypeOK, EnabledHasCommand, CommandAge
    <3>2. PICK d \in 1..MaxLoopGap :
            command_age' = IF have_motion_command THEN AddMillis(command_age, d)
                           ELSE command_age
      BY DEF Tick
    <3>3. command_age' = command_age + d
      BY <3>2, TickAges
    <3>4. have_motion_command'
      BY <3>1 DEF Tick
    <3>5. QED
      BY <1>5, <3>1, <3>3, <3>4, TimeAssumption DEF CommandAge
  <2>2. /\ ~PortBase.enabled /\ ~PortBase.fresh
        /\ PortBase' = Port!Wrapped(PortBase)
    <3>1. fresh = FALSE /\ fresh' = TRUE /\ drive_enabled = FALSE
      BY <1>1, <1>5, <2>1
    <3>2. /\ PortBase = Shown(FALSE, fault_bits, m, FALSE)
          /\ PortBase' = Shown(FALSE, fault_bits, m, TRUE)
      BY <1>2, <3>1
    <3> HIDE DEF m
    <3>3. PortBase' = Port!Wrapped(PortBase)
      BY <3>2, ShownWrapped, Zenon
    <3>4. ~PortBase.fresh /\ ~PortBase.enabled
      BY <3>1 DEF PortBase
    <3>5. QED
      BY <3>3, <3>4
  <2>3. QED
    BY <1>1, <2>2
    DEF Silent, PortAnswer, Port!Next, Port!Alone, Port!Wraps, Port!Says
<1>6. QED
  BY <1>3, <1>4, <1>5

LEMMA PortWatchdog == IInv /\ UpdateCommandWatchdog => Port!Next
<1> SUFFICES ASSUME IInv, UpdateCommandWatchdog PROVE Port!Next
  OBVIOUS
<1>1. /\ tx' = Silent /\ rx_error_count' = rx_error_count
      /\ (CommandAge <= SoftTimeout)' = (CommandAge <= SoftTimeout)
  BY DEF UpdateCommandWatchdog, lease, CommandAge
<1>2. CASE SoftStopNow \/ HardStopNow
  <2>1. /\ drive_enabled /\ have_motion_command /\ command_age > SoftTimeout
        /\ CommandAge = command_age /\ command_age \in Int
    BY <1>2, TimeAssumption DEF SoftStopNow, HardStopNow, CommandAge, IInv, TypeOK
  <2>2. fault_bits' = fault_bits \cup {"COMMAND_TIMEOUT"}
    <3>1. CASE SoftStopNow
      BY <3>1 DEF UpdateCommandWatchdog
    <3>2. CASE ~SoftStopNow
      <4>1. fault_bits' = fault_bits /\ soft_timeout_active
        BY <1>2, <3>2 DEF UpdateCommandWatchdog, HardStopNow
      <4>2. "COMMAND_TIMEOUT" \in fault_bits
        BY <2>1, <4>1 DEF IInv, LatchesAgree
      <4>3. QED
        BY <4>1, <4>2
    <3>3. QED
      BY <3>1, <3>2
  <2>3. AllZero(requested')
    BY <1>2, StillIsZero DEF UpdateCommandWatchdog, HardStop
  <2>4. drive_enabled' \in BOOLEAN
    BY DEF UpdateCommandWatchdog
  <2>5. PortBase.enabled /\ ~PortBase.fresh
        /\ \E x \in BOOLEAN : PortBase' = Port!Lapsed(PortBase, x)
    <3> DEFINE m == ~AllZero(requested)
               r == CommandAge <= SoftTimeout
               b == PortBase
               h == b.fault \cup {"COMMAND_TIMEOUT"}
               x == drive_enabled'
    <3>1. b = Shown(drive_enabled, fault_bits, m, r)
      BY ShownNow
    <3>2. (~AllZero(requested)') = FALSE /\ (CommandAge <= SoftTimeout)' = r
      BY <1>1, <2>3 DEF AllZero
    <3>3. fault_bits' = h
      BY <2>2 DEF PortBase
    <3>4. PortBase' = Shown(x, h, FALSE, r)
      BY <3>2, <3>3, ShownNext
    <3>5. b.enabled /\ ~b.fresh
      <4>1. ~(CommandAge <= SoftTimeout)
        BY <2>1, TimeAssumption
      <4>2. QED
        BY <2>1, <4>1 DEF PortBase
    <3>6. PortBase' = Port!Lapsed(b, x)
      <4>1. \A v : [[[b EXCEPT !.moving = v] EXCEPT !.fault = h] EXCEPT !.enabled = x]
                     = Shown(x, h, v, r)
        <5> HIDE DEF b, m, r, h, x
        <5>1. ASSUME NEW v
              PROVE  [[[Shown(drive_enabled, fault_bits, m, r) EXCEPT !.moving = v]
                         EXCEPT !.fault = h] EXCEPT !.enabled = x] = Shown(x, h, v, r)
          <6> DEFINE e == drive_enabled
                     f == fault_bits
          <6> HIDE DEF e, f
          <6>1. [Shown(e, f, m, r) EXCEPT !.moving = v] = Shown(e, f, v, r)
            BY DEF Shown
          <6>2. [Shown(e, f, v, r) EXCEPT !.fault = h] = Shown(e, h, v, r)
            BY DEF Shown
          <6>3. [Shown(e, h, v, r) EXCEPT !.enabled = x] = Shown(x, h, v, r)
            BY DEF Shown
          <6>4. [[[Shown(e, f, m, r) EXCEPT !.moving = v] EXCEPT !.fault = h]
                   EXCEPT !.enabled = x] = Shown(x, h, v, r)
            BY <6>1, <6>2, <6>3
          <6>5. QED
            BY <6>4 DEF e, f
        <5>2. QED
          BY <3>1, <5>1, Zenon
      <4>2. Port!Lapsed(b, x) = Shown(x, h, FALSE, r)
        <5> HIDE DEF b, r, x
        <5>1. QED
          BY <4>1, Zenon DEF Port!Lapsed
      <4>3. QED
        BY <3>4, <4>2
    <3>7. QED
      BY <2>4, <3>5, <3>6
  <2>7. QED
    BY <1>1, <2>5
    DEF Silent, PortAnswer, Port!Next, Port!Alone, Port!Lapses, Port!Says
<1>3. CASE ~SoftStopNow /\ ~HardStopNow
  <2>1. UNCHANGED <<drive_enabled, fault_bits, requested>>
    BY <1>3 DEF UpdateCommandWatchdog, IInv, TypeOK
  <2>2. QED
    BY <1>1, <2>1, SameBase, PortQuiet DEF AllZero
<1>4. QED
  BY <1>2, <1>3

\* A line that is obeyed or refused, as the contract says.
LEMMA PortObeys ==
  ASSUME NEW c \in Port!Commands, Port!BaseAccepts(PortBase, c),
         PortBase' = Port!BaseAfter(PortBase, c),
         PortAnswer' = [kind |-> "ACK", command |-> c],
         rx_error_count' = rx_error_count
  PROVE  Port!Next
  BY DEF Port!Next, Port!Obeys, Port!Answers

LEMMA PortRefuses ==
  ASSUME NEW c \in Port!Commands, ~Port!BaseAccepts(PortBase, c),
         NEW f, f.command = IF c = "CMDV" THEN "CMD" ELSE c,
         NEW code \in {"INHIBITED", "FAULT_ACTIVE", "ZERO_CMD_REQUIRED"},
         c # "CMD", Refuse(f, code)
  PROVE  Port!Next
<1>1. tx' = Reply("NACK", f, code)
  BY DEF Refuse
<1>2. tx'.kind = "NACK" /\ tx'.code = code /\ tx'.command = f.command
  BY <1>1 DEF Reply
<1>3. PortCommand' = c
  BY <1>2 DEF PortCommand
<1>4. PortAnswer' = [kind |-> "NACK", command |-> c]
  BY <1>2, <1>3 DEF PortAnswer
<1>5. UNCHANGED <<drive_enabled, fault_bits, requested, have_motion_command,
                  command_age, rx_error_count>>
  BY DEF Refuse, drive, latches, lease
<1>6. PortBase' = PortBase
  BY <1>5 DEF PortBase, AllZero, CommandAge
<1>7. QED
  BY <1>4, <1>5, <1>6 DEF Port!Next, Port!Refuses, Port!Answers

\* A line that is no command.
LEMMA PortCounts ==
  ASSUME IInv, NEW a, Malformed(a),
         \/ a = Silent
         \/ a.kind = "NACK" /\ a.code \notin {"INHIBITED", "FAULT_ACTIVE",
                                              "ZERO_CMD_REQUIRED"}
  PROVE  Port!Next
<1>1. tx' = a
  BY DEF Malformed
<1>2. PortAnswer' \in {[kind |-> "SILENT"], [kind |-> "DAMAGED"]}
  BY <1>1 DEF PortAnswer, Silent
<1>3. UNCHANGED <<drive_enabled, fault_bits, requested, have_motion_command,
                  command_age>>
  BY DEF Malformed, drive, latches, lease
<1>4. PortBase' = PortBase
  BY <1>3 DEF PortBase, AllZero, CommandAge
<1>5. rx_error_count' = IF rx_error_count < RxErrorCap THEN rx_error_count + 1
                        ELSE rx_error_count
  BY DataAssumption DEF Malformed, Least, IInv, TypeOK
<1>6. QED
  BY <1>2, <1>4, <1>5 DEF Port!Next, Port!Counts, Port!Says

LEMMA PortMotion ==
  ASSUME IInv, NEW f \in Frames, HandleMotionCommand(f)
  PROVE  Port!Next
<1>1. CASE AcceptMotion(f)
  <2> DEFINE c == IF AllZero(f.speeds) THEN "CMD0" ELSE "CMDV"
  <2>1. /\ tx' = Reply("ACK", f, "OK") /\ requested' = f.speeds
        /\ have_motion_command' = TRUE /\ command_age' = 0
        /\ UNCHANGED <<drive_enabled, fault_bits, rx_error_count>>
    BY <1>1 DEF AcceptMotion, latches
  <2>2. tx'.kind = "ACK" /\ tx'.command = "CMD"
    BY <2>1 DEF Reply, HandleMotionCommand
  <2>3. PortCommand' = c
    BY <2>1, <2>2 DEF PortCommand, AllZero
  <2>4. PortAnswer' = [kind |-> "ACK", command |-> c]
    BY <2>2, <2>3 DEF PortAnswer
  <2>5. (CommandAge <= SoftTimeout)'
    BY <2>1, TimeAssumption DEF CommandAge
  <2>7. PortBase' = Port!BaseAfter(PortBase, c)
    <3> DEFINE m == ~AllZero(requested)
               r == CommandAge <= SoftTimeout
    <3>1. PortBase = Shown(drive_enabled, fault_bits, m, r)
      BY ShownNow
    <3>2. (CommandAge <= SoftTimeout)' = TRUE
      BY <2>5
    <3> HIDE DEF m, r
    <3>3. CASE AllZero(f.speeds)
      <4>1. (~AllZero(requested)') = FALSE
        BY <2>1, <3>3 DEF AllZero
      <4>2. PortBase' = Shown(drive_enabled, fault_bits, FALSE, TRUE)
        BY <2>1, <3>2, <4>1, ShownNext
      <4>3. QED
        BY <3>1, <3>3, <4>2, ShownCommanded
    <3>4. CASE ~AllZero(f.speeds)
      <4>1. (~AllZero(requested)') = TRUE
        BY <2>1, <3>4 DEF AllZero
      <4>2. PortBase' = Shown(drive_enabled, fault_bits, TRUE, TRUE)
        BY <2>1, <3>2, <4>1, ShownNext
      <4>3. QED
        BY <3>1, <3>4, <4>2, ShownCommanded
    <3>5. QED
      BY <3>3, <3>4
  <2>8. Port!BaseAccepts(PortBase, c)
    BY <1>1 DEF AcceptMotion, Inhibited, Port!BaseAccepts, PortBase
  <2>9. QED
    BY <2>1, <2>4, <2>7, <2>8, PortObeys DEF Port!Commands
<1>2. CASE Inhibited /\ ~AllZero(f.speeds) /\ Refuse(f, "INHIBITED")
  <2>1. ~Port!BaseAccepts(PortBase, "CMDV")
    BY <1>2 DEF Inhibited, Port!BaseAccepts, PortBase
  <2>2. QED
    BY <1>2, <2>1, PortRefuses DEF HandleMotionCommand, Port!Commands
<1>3. QED
  BY <1>1, <1>2 DEF HandleMotionCommand

\* A line that is acknowledged and is no CMD.
LEMMA AckedCommand ==
  ASSUME NEW f, tx' = Reply("ACK", f, "OK"), f.command # "CMD"
  PROVE  PortAnswer' = [kind |-> "ACK", command |-> f.command]
<1>1. tx'.kind = "ACK" /\ tx'.command = f.command
  BY DEF Reply
<1>2. PortCommand' = f.command
  BY <1>1 DEF PortCommand
<1>3. QED
  BY <1>1, <1>2 DEF PortAnswer

LEMMA PortSimple ==
  ASSUME IInv, NEW f \in Frames, HandleSimpleCommand(f)
  PROVE  Port!Next
<1>1. FreshZeroCommand <=> Port!FreshZero(PortBase)
  BY DEF FreshZeroCommand, Port!FreshZero, PortBase
<1>2. CASE HandlePing(f)
  <2>1. UNCHANGED <<drive_enabled, fault_bits, requested, have_motion_command,
                    command_age, rx_error_count>>
    BY <1>2 DEF HandlePing, drive, latches, lease
  <2>2. PortBase' = Port!BaseAfter(PortBase, "PING")
    BY <2>1 DEF PortBase, AllZero, CommandAge, Port!BaseAfter
  <2>3. QED
    BY <1>2, <2>1, <2>2, AckedCommand, PortObeys
    DEF HandlePing, Port!BaseAccepts, Port!Commands
<1>3. CASE HandleDisable(f)
  <2>1. /\ UNCHANGED <<fault_bits, have_motion_command, command_age, rx_error_count>>
        /\ drive_enabled' = FALSE /\ AllZero(requested')
    BY <1>3, StillIsZero DEF HandleDisable, HardStop, lease
  <2>2. PortBase' = Port!BaseAfter(PortBase, "DISABLE")
    BY <2>1 DEF PortBase, AllZero, CommandAge, Port!BaseAfter
  <2>3. QED
    BY <1>3, <2>1, <2>2, AckedCommand, PortObeys
    DEF HandleDisable, Port!BaseAccepts, Port!Commands
<1>4. CASE HandleEstop(f)
  <2>1. /\ UNCHANGED <<have_motion_command, command_age, rx_error_count>>
        /\ fault_bits' = fault_bits \cup {"SOFTWARE_ESTOP"}
        /\ drive_enabled' = FALSE /\ AllZero(requested')
    BY <1>4, StillIsZero DEF HandleEstop, HardStop, lease
  <2>2. PortBase' = Port!BaseAfter(PortBase, "ESTOP")
    BY <2>1 DEF PortBase, AllZero, CommandAge, Port!BaseAfter
  <2>3. QED
    BY <1>4, <2>1, <2>2, AckedCommand, PortObeys
    DEF HandleEstop, Port!BaseAccepts, Port!Commands
<1>5. CASE HandleClear(f)
  <2>1. CASE ~FreshZeroCommand /\ Refuse(f, "ZERO_CMD_REQUIRED")
    <3>1. ~Port!BaseAccepts(PortBase, "CLEAR")
      BY <1>1, <2>1 DEF Port!BaseAccepts
    <3>2. QED
      BY <1>5, <2>1, <3>1, PortRefuses DEF HandleClear, Port!Commands
  <2>2. CASE /\ FreshZeroCommand /\ fault_bits' = {} /\ drive_enabled' = FALSE
             /\ HardStop /\ tx' = Reply("ACK", f, "OK")
             /\ UNCHANGED <<lease, rx_error_count>>
    <3>1. /\ UNCHANGED <<have_motion_command, command_age, rx_error_count>>
          /\ fault_bits' = {} /\ FreshZeroCommand
          /\ drive_enabled' = FALSE /\ AllZero(requested')
          /\ tx' = Reply("ACK", f, "OK")
      BY <2>2, StillIsZero DEF HardStop, lease
    <3>2. PortBase' = Port!BaseAfter(PortBase, "CLEAR")
      BY <3>1 DEF PortBase, AllZero, CommandAge, Port!BaseAfter, FreshZeroCommand
    <3>3. Port!BaseAccepts(PortBase, "CLEAR")
      BY <1>1, <3>1 DEF Port!BaseAccepts
    <3>4. QED
      BY <1>5, <3>1, <3>2, <3>3, AckedCommand, PortObeys
      DEF HandleClear, Port!Commands
  <2>3. QED
    BY <1>5, <2>1, <2>2 DEF HandleClear
<1>6. CASE HandleEnable(f)
  <2>1. CASE \/ FaultActive /\ Refuse(f, "FAULT_ACTIVE")
             \/ ~FreshZeroCommand /\ Refuse(f, "ZERO_CMD_REQUIRED")
    <3>1. ~Port!BaseAccepts(PortBase, "ENABLE")
      BY <1>1, <2>1 DEF Port!BaseAccepts, PortBase, FaultActive
    <3>2. QED
      BY <1>6, <2>1, <3>1, PortRefuses DEF HandleEnable, Port!Commands
  <2>2. CASE /\ ~FaultActive /\ FreshZeroCommand
             /\ drive_enabled' = TRUE
             /\ tx' = Reply("ACK", f, "OK")
             /\ UNCHANGED <<drive, fault_bits, lease, rx_error_count>>
    <3>1. UNCHANGED <<requested, have_motion_command, command_age, rx_error_count>>
      BY <2>2 DEF drive, lease
    <3>2. PortBase' = Port!BaseAfter(PortBase, "ENABLE")
      BY <2>2, <3>1 DEF PortBase, AllZero, CommandAge, Port!BaseAfter
    <3>3. Port!BaseAccepts(PortBase, "ENABLE")
      BY <1>1, <2>2 DEF Port!BaseAccepts, PortBase, FaultActive
    <3>4. QED
      BY <1>6, <2>2, <3>1, <3>2, <3>3, AckedCommand, PortObeys
      DEF HandleEnable, Port!Commands
  <2>3. QED
    BY <1>6, <2>1, <2>2 DEF HandleEnable
<1>7. CASE f.command = "OTHER" /\ Malformed(Reply("NACK", f, "UNKNOWN"))
  BY <1>7, PortCounts DEF Reply
<1>8. QED
  BY <1>2, <1>3, <1>4, <1>5, <1>6, <1>7 DEF HandleSimpleCommand

LEMMA PortReceive == IInv /\ Receive => Port!Next
<1> SUFFICES ASSUME IInv, NEW f \in Frames, ProcessLine(f) PROVE Port!Next
  BY DEF Receive
<1>1. ASSUME NEW code \in {"BAD_HEADER", "BAD_SPEED", "FIELD_COUNT"},
             Malformed(Reply("NACK", f, code))
      PROVE  Port!Next
  BY <1>1, PortCounts DEF Reply
<1>2. CASE Malformed(Silent)
  BY <1>2, PortCounts
<1>3. QED
  BY <1>1, <1>2, PortMotion, PortSimple DEF ProcessLine

\* What a report says is what the host is shown.
LEMMA PortReports ==
  ASSUME IInv, UNCHANGED <<drive, latches, lease, rx_error_count>>, tx' = State
  PROVE  Port!Next
<1>1. UNCHANGED <<drive_enabled, fault_bits, requested, have_motion_command,
                  command_age, rx_error_count>>
  BY DEF drive, latches, lease
<1>2. PortBase' = PortBase
  BY <1>1 DEF PortBase, AllZero, CommandAge
<1>3. /\ tx'.kind = "STATE" /\ tx'.status = BuildStatusBits /\ tx'.fault = fault_bits
      /\ tx'.rx_errors = rx_error_count
  BY DEF State
<1>4. ("Enabled" \in tx'.status) = drive_enabled
  <2>1. "Enabled" \in tx'.status <=> drive_enabled
    BY <1>3 DEF BuildStatusBits, StatusBits
  <2>2. CASE drive_enabled = TRUE
    BY <2>1, <2>2
  <2>3. CASE drive_enabled = FALSE
    <3>1. ~("Enabled" \in tx'.status)
      BY <2>1, <2>3
    <3>2. ("Enabled" \in tx'.status) = FALSE
      BY <3>1
    <3>3. QED
      BY <2>3, <3>2
  <2>4. QED
    BY <2>2, <2>3 DEF IInv, TypeOK
<1>5. PortAnswer' = Port!Report
  BY <1>3, <1>4 DEF PortAnswer, Port!Report, PortBase
<1>6. QED
  BY <1>1, <1>2, <1>5 DEF Port!Next, Port!Reports

LEMMA PortReset == Reset => Port!Next
<1> SUFFICES ASSUME Reset PROVE Port!Next
  OBVIOUS
<1>1. PortBase' = Port!BaseOff
  <2>1. (~AllZero(requested)') = FALSE
    BY StillIsZero DEF Reset, HardStop, AllZero
  <2>2. (CommandAge <= SoftTimeout)' = FALSE
    BY TimeAssumption DEF Reset, CommandAge
  <2>3. drive_enabled' = FALSE /\ fault_bits' = {}
    BY DEF Reset
  <2>4. PortBase' = Shown(FALSE, {}, FALSE, FALSE)
    BY <2>1, <2>2, <2>3, ShownNext
  <2>5. QED
    BY <2>4 DEF Shown, Port!BaseOff
<1>2. QED
  BY <1>1 DEF Reset, PortAnswer, Port!Next, Port!Resets, Port!Says

\* The firmware implements DriveContract: whatever a pass, a line or a reset does,
\* the host sees a step that the contract allows, with the answer that belongs to
\* it.  It rests on the invariant: only a disabled drive lives through a wrap of
\* millis(), and a late cut finds the timeout latched and nothing requested.
THEOREM PortImplemented == Spec => ImplementsPort
<1>1. Init => Port!Init
  BY PortInit
<1>2. ASSUME IInv, NotUnnoticed, [Next]_vars
      PROVE  [Port!Next]_(Port!contractVars)
  <2>1. CASE Tick \/ UpdateCommandWatchdog \/ Receive \/ Reset
    BY <1>2, <2>1, PortTick, PortWatchdog, PortReceive, PortReset
  <2>2. CASE \/ ReadDone \/ UpdateMotorControl
             \/ SendTelemetry /\ tx' = Silent
    <3>1. /\ tx' = Silent /\ rx_error_count' = rx_error_count
          /\ UNCHANGED <<requested, latches, lease>>
      BY <2>2 DEF ReadDone, UpdateMotorControl, SendTelemetry, drive
    <3>2. PortBase' = PortBase
      BY <3>1 DEF PortBase, AllZero, CommandAge, latches, lease
    <3>3. QED
      BY <3>1, <3>2, PortQuiet
  <2>3. CASE SendTelemetry /\ tx' = State
    BY <1>2, <2>3, PortReports DEF SendTelemetry
  <2>4. CASE UNCHANGED vars
    <3>1. UNCHANGED <<requested, latches, lease, rx_error_count, tx>>
      BY <2>4 DEF vars, drive
    <3>2. UNCHANGED <<PortBase, PortAnswer, rx_error_count>>
      BY <3>1 DEF PortBase, PortAnswer, PortCommand, AllZero, CommandAge, latches, lease
    <3>3. QED
      BY <3>2 DEF Port!contractVars
  <2>5. QED
    BY <1>2, <2>1, <2>2, <2>3, <2>4 DEF Next, Loop, SendTelemetry
<1>3. QED
  BY <1>1, <1>2, Invariance, Noticed, PTL DEF Spec, ImplementsPort, Port!Spec
=============================================================================
