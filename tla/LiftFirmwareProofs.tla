------------------------- MODULE LiftFirmwareProofs -------------------------
(***************************************************************************)
(* Theorems about LiftFirmware, for every set of sessions and sequence     *)
(* numbers, every travel and every timeout that LiftAssumption and         *)
(* SessionAssumption admit.                                                *)
(***************************************************************************)
EXTENDS LiftFirmware, TLAPS

\* The lift can stop within the travel (referenced or not); a lift that is not
\* armed stands.
CanStop ==
  /\ position + ramp \in Heights
  /\ ~armed => ramp = 0

\* A homing that is past its first release has seen the lower switch open.
EdgeSeen ==
  /\ homingStage \in {"RELEASE_UPPER", "SEEK_LOWER"} => lower_seen_open
  /\ homing /\ ~lower => lower_seen_open

\* What the switch handling leaves to the rest of the pass.
Switched ==
  pc \in {"watchdog", "motion"} =>
    /\ armed \/ homing => ~(lower /\ upper)
    /\ armed => ~EndstopMismatch /\ ~HitsLower /\ ~HitsUpper
    /\ homingStage = "RELEASE_LOWER" => ~upper
    /\ homingStage = "RELEASE_UPPER" => ~lower
    /\ homingStage = "SEEK_LOWER" => ~upper /\ (lower => stage_age = 0)

\* What the watchdog leaves to the motion step.
Watched ==
  pc = "motion" /\ (armed \/ homing) => command_age <= WatchdogTimeout

\* A pulse belongs to the motion step that has just ended.
PulseEndsPass == pc # "tick" => pulse = 0

IInv ==
  /\ TypeOK
  /\ ArmedIsSafe
  /\ GeometryFaultUnhomes
  /\ NoOldTarget
  /\ CanStop
  /\ EdgeSeen
  /\ Switched
  /\ Watched
  /\ PulseEndsPass
  /\ PulsesNeedLease
  /\ EndstopsHold

-----------------------------------------------------------------------------
(* Lemmas about states and operators.                                      *)

\* A lift that is neither armed nor homing only has its type, the rule of the
\* geometry faults and a speed of zero to keep.
LEMMA DisarmedIInv ==
  ASSUME TypeOK', armed' = FALSE, homingStage' = "NONE", pulse' = 0,
         GeometryFaultUnhomes', CanStop'
  PROVE  IInv'
  BY DEF IInv, ArmedIsSafe, NoOldTarget, EdgeSeen, Switched, Watched,
         PulseEndsPass, PulsesNeedLease, EndstopsHold, homing

\* What a stop leaves of the stepper.
LEMMA StopAtType ==
  ASSUME NEW p \in Heights, StopAt(p)
  PROVE  /\ position' \in Heights /\ target' \in Heights
         /\ ramp' \in (-MaxRamp)..MaxRamp /\ travel' \in 0..(ReleaseTravel + 1)
         /\ CanStop' /\ target_session' \in Sessions \cup {NoSession}
  BY LiftAssumption DEF StopAt, Heights, CanStop

\* What NotHoming leaves of a homing.
LEMMA NotHomingType ==
  ASSUME NotHoming
  PROVE  /\ homingStage' = "NONE" /\ homingStage' \in Stages
         /\ homing_age' \in 0..(HomingTimeout + 1)
         /\ stage_age' \in 0..(ReleaseTimeout + 1)
         /\ lower_seen_open' \in BOOLEAN
<1>1. homing_age' \in 0..(HomingTimeout + 1) /\ stage_age' \in 0..(ReleaseTimeout + 1)
  BY LiftAssumption DEF NotHoming
<1>2. /\ homingStage' = "NONE" /\ homingStage' \in Stages
      /\ lower_seen_open' \in BOOLEAN
  BY DEF NotHoming, Stages
<1>3. QED
  BY <1>1, <1>2

\* latchFault() keeps the invariant in whatever step it is called.
LEMMA LatchFaultIInv ==
  ASSUME IInv, NEW code \in FaultCodes \ {"NONE"}, LatchFault(code),
         pulse' = 0, pc' \in Phases, lower' \in BOOLEAN, upper' \in BOOLEAN,
         sessionId' \in Sessions \cup {NoSession},
         retiredSessionId' \in Sessions \cup {NoSession},
         lastSequence' \in Sequences \cup {Unseen},
         command_age' = command_age
  PROVE  IInv'
<1>1. /\ fault' \in FaultCodes \ {"NONE"} /\ homed' \in BOOLEAN
      /\ armed' = FALSE /\ NotHoming /\ GeometryFaultUnhomes'
  BY DEF IInv, TypeOK, LatchFault, KeepsReference, GeometryFaultUnhomes, FaultCodes
<1>2. \E p \in Heights : StopAt(p)
  BY LiftAssumption DEF IInv, TypeOK, LatchFault, Heights
<1>3. TypeOK'
  BY <1>1, <1>2, StopAtType, NotHomingType DEF IInv, TypeOK
<1>4. QED
  BY <1>1, <1>2, <1>3, StopAtType, NotHomingType, DisarmedIInv

\* A stop on request keeps the invariant.
LEMMA HaltIInv ==
  ASSUME IInv, Halt, pc = "read", UNCHANGED <<pc, limits, pulse>>,
         homed' = homed, fault' \in {fault, "NONE"},
         sessionId' \in Sessions \cup {NoSession},
         retiredSessionId' \in Sessions \cup {NoSession},
         lastSequence' \in Sequences \cup {Unseen},
         command_age' \in {0, command_age}
  PROVE  IInv'
<1>1. NotHoming /\ armed' = FALSE /\ StopAt(position) /\ position \in Heights
  BY DEF Halt, IInv, TypeOK
<1>2. /\ command_age' \in 0..(WatchdogTimeout + 1)
      /\ position' \in Heights /\ target' \in Heights /\ CanStop'
      /\ ramp' \in (-MaxRamp)..MaxRamp /\ travel' \in 0..(ReleaseTravel + 1)
      /\ target_session' \in Sessions \cup {NoSession}
  BY <1>1, StopAtType, LiftAssumption DEF IInv, TypeOK
<1>3. TypeOK'
  BY <1>1, <1>2, NotHomingType DEF IInv, TypeOK, limits, FaultCodes
<1>4. pulse' = 0 /\ GeometryFaultUnhomes'
  BY DEF IInv, PulseEndsPass, GeometryFaultUnhomes
<1>5. QED
  BY <1>1, <1>2, <1>3, <1>4, NotHomingType, DisarmedIInv

\* One step of the stepper stays within the travel and can stop there.
LEMMA StepStays ==
  ASSUME NEW d, NEW p, NEW t, NEW r,
         p \in Heights, t \in Heights,
         r \in (-MaxRamp)..MaxRamp, r = ramp, p + r \in Heights,
         d = IF r # 0 THEN Sign(r) ELSE Sign(t - p)
  PROVE  /\ d \in {-1, 0, 1} /\ p + d \in Heights
         /\ RampAfter(d, d * (t - p) - 1) \in (-MaxRamp)..MaxRamp
         /\ p + d + RampAfter(d, d * (t - p) - 1) \in Heights
<1>1. CASE d = 1
  BY <1>1, LiftAssumption DEF Sign, RampAfter, Size, Smaller, Larger, Heights
<1>2. CASE d = -1
  BY <1>2, LiftAssumption DEF Sign, RampAfter, Size, Smaller, Larger, Heights
<1>3. CASE d = 0
  BY <1>3, LiftAssumption DEF Sign, RampAfter, Size, Smaller, Larger, Heights
<1>4. QED
  BY <1>1, <1>2, <1>3, LiftAssumption DEF Sign, Heights

-----------------------------------------------------------------------------
(* The inductive invariant.                                                *)

LEMMA InitIInv == Init => IInv
<1> SUFFICES ASSUME Init PROVE IInv
  OBVIOUS
<1>0. /\ command_age \in 0..(WatchdogTimeout + 1)
      /\ homing_age \in 0..(HomingTimeout + 1)
      /\ stage_age \in 0..(ReleaseTimeout + 1)
      /\ position \in Heights /\ target \in Heights
      /\ ramp \in (-MaxRamp)..MaxRamp /\ travel \in 0..(ReleaseTravel + 1)
  BY LiftAssumption DEF Init, Heights
<1>1. TypeOK
  BY <1>0 DEF Init, TypeOK, Phases, FaultCodes, Stages
<1>2. CanStop /\ GeometryFaultUnhomes
  BY LiftAssumption DEF Init, CanStop, GeometryFaultUnhomes, Heights
<1>3. QED
  BY <1>1, <1>2
  DEF Init, IInv, ArmedIsSafe, NoOldTarget, EdgeSeen, Switched, Watched,
      PulseEndsPass, PulsesNeedLease, EndstopsHold, homing

LEMMA ResetIInv == Reset => IInv'
<1> SUFFICES ASSUME Reset PROVE IInv'
  OBVIOUS
<1>1. NotHoming /\ StopAt(0) /\ 0 \in Heights
  BY LiftAssumption DEF Reset, Heights
<1>0. command_age' \in 0..(WatchdogTimeout + 1)
  BY LiftAssumption DEF Reset
<1>2. TypeOK'
  BY <1>0, <1>1, StopAtType, NotHomingType DEF Reset, TypeOK, Phases, FaultCodes
<1>3. GeometryFaultUnhomes' /\ armed' = FALSE /\ pulse' = 0
  BY DEF Reset, GeometryFaultUnhomes
<1>4. QED
  BY <1>1, <1>2, <1>3, StopAtType, NotHomingType, DisarmedIInv

LEMMA OlderType ==
  ASSUME NEW limit \in Nat, NEW age \in 0..(limit + 1), NEW d \in 1..MaxLoopGap
  PROVE  Older(age, d, limit) \in 0..(limit + 1)
  BY LiftAssumption DEF Older, Smaller

LEMMA TickIInv == IInv /\ Tick => IInv'
<1> SUFFICES ASSUME IInv, Tick PROVE IInv'
  OBVIOUS
<1>1. /\ command_age' \in 0..(WatchdogTimeout + 1)
      /\ homing_age' \in 0..(HomingTimeout + 1)
      /\ stage_age' \in 0..(ReleaseTimeout + 1)
  <2>1. PICK d \in 1..MaxLoopGap :
          /\ command_age' \in {Older(command_age, d, WatchdogTimeout), 0}
          /\ homing_age' \in {Older(homing_age, d, HomingTimeout), 0}
          /\ stage_age' \in {Older(stage_age, d, ReleaseTimeout), 0}
    BY DEF Tick
  <2>2. /\ Older(command_age, d, WatchdogTimeout) \in 0..(WatchdogTimeout + 1)
        /\ Older(homing_age, d, HomingTimeout) \in 0..(HomingTimeout + 1)
        /\ Older(stage_age, d, ReleaseTimeout) \in 0..(ReleaseTimeout + 1)
    BY OlderType, LiftAssumption DEF IInv, TypeOK
  <2>3. QED
    BY <2>1, <2>2, LiftAssumption
<1>2. /\ pc' = "read" /\ pulse' = 0
      /\ UNCHANGED <<modes, session, stepper>>
      /\ lower' \in BOOLEAN /\ upper' \in BOOLEAN
      /\ lower_seen_open' \in BOOLEAN
  BY DEF Tick
<1>3. TypeOK'
  BY <1>1, <1>2 DEF IInv, TypeOK, Phases, modes, session, stepper
<1>4. ArmedIsSafe' /\ GeometryFaultUnhomes' /\ NoOldTarget' /\ CanStop'
  BY <1>2 DEF IInv, ArmedIsSafe, GeometryFaultUnhomes, NoOldTarget, CanStop,
              modes, session, stepper, homing, sessionActive
<1>5. EdgeSeen'
  BY DEF Tick, IInv, EdgeSeen, modes, homing
<1>6. Switched' /\ Watched' /\ PulseEndsPass' /\ PulsesNeedLease' /\ EndstopsHold'
  BY <1>2 DEF Switched, Watched, PulseEndsPass, PulsesNeedLease, EndstopsHold
<1>7. QED
  BY <1>3, <1>4, <1>5, <1>6 DEF IInv

\* A step that leaves the lift alone in the reading phase.
LEMMA QuietStep ==
  ASSUME IInv, pc = "read", pc' \in {"read", "switches"},
         UNCHANGED <<limits, modes, homingTimes, stepper, pulse,
                     sessionId, retiredSessionId>>,
         lastSequence' \in Sequences \cup {Unseen},
         command_age' \in {0, command_age}
  PROVE  IInv'
<1>1. TypeOK'
  BY LiftAssumption
  DEF IInv, TypeOK, Phases, limits, modes, homingTimes, stepper
<1>2. /\ ArmedIsSafe' /\ GeometryFaultUnhomes' /\ NoOldTarget' /\ CanStop'
      /\ EdgeSeen'
  BY DEF IInv, ArmedIsSafe, GeometryFaultUnhomes, NoOldTarget, CanStop, EdgeSeen,
         modes, homingTimes, stepper, homing, sessionActive, limits
<1>3. pulse' = 0
  BY DEF IInv, PulseEndsPass
<1>4. Switched' /\ Watched' /\ PulseEndsPass' /\ PulsesNeedLease' /\ EndstopsHold'
  BY <1>3 DEF Switched, Watched, PulseEndsPass, PulsesNeedLease, EndstopsHold
<1>5. QED
  BY <1>1, <1>2, <1>4 DEF IInv

LEMMA HelloIInv ==
  ASSUME IInv, NEW s \in Sessions \cup {NoSession}, HandleHello(s)
  PROVE  IInv'
<1>1. /\ Halt /\ pc = "read" /\ UNCHANGED <<pc, limits, pulse>>
      /\ homed' = homed /\ fault' = fault
  BY DEF HandleHello
<1>2. /\ sessionId' \in Sessions \cup {NoSession}
      /\ retiredSessionId' \in Sessions \cup {NoSession}
      /\ lastSequence' \in Sequences \cup {Unseen}
      /\ command_age' \in {0, command_age}
  BY DEF HandleHello, RefreshWatchdog, session, IInv, TypeOK, sessionActive
<1>3. QED
  BY <1>1, <1>2, HaltIInv

\* An accepted HOME.
LEMMA HomeIInv ==
  ASSUME IInv, pc = "read", UNCHANGED <<pc, limits, pulse, fault>>,
         fault = "NONE", StartHoming, RefreshWatchdog, sessionActive,
         UNCHANGED <<sessionId, retiredSessionId>>,
         lastSequence' \in Sequences \cup {Unseen}
  PROVE  IInv'
<1>1. StopAt(0) /\ 0 \in Heights
  BY LiftAssumption DEF StartHoming, Heights
<1>2. /\ command_age' \in 0..(WatchdogTimeout + 1)
      /\ homing_age' \in 0..(HomingTimeout + 1)
      /\ stage_age' \in 0..(ReleaseTimeout + 1)
  BY LiftAssumption DEF StartHoming, RefreshWatchdog
<1>3. homingStage' \in Stages \ {"NONE"} /\ lower_seen_open' \in BOOLEAN
  BY DEF StartHoming, Stages
<1>4. TypeOK'
  BY <1>1, <1>2, <1>3, StopAtType DEF IInv, TypeOK, StartHoming, limits
<1>5. /\ ArmedIsSafe' /\ GeometryFaultUnhomes' /\ NoOldTarget'
  BY DEF StartHoming, ArmedIsSafe, GeometryFaultUnhomes, NoOldTarget, sessionActive
<1>6. EdgeSeen'
  <2>1. ~(lower /\ upper) \/ homingStage' = "RELEASE_LOWER"
    BY DEF StartHoming
  <2>2. QED
    BY <2>1 DEF StartHoming, EdgeSeen, limits
<1>7. pulse' = 0 /\ pc' = "read"
  BY DEF IInv, PulseEndsPass
<1>8. Switched' /\ Watched' /\ PulseEndsPass' /\ PulsesNeedLease' /\ EndstopsHold'
  BY <1>7 DEF Switched, Watched, PulseEndsPass, PulsesNeedLease, EndstopsHold
<1>9. QED
  BY <1>1, <1>4, <1>5, <1>6, <1>8, StopAtType DEF IInv

\* An accepted ARM.
LEMMA ArmIInv ==
  ASSUME IInv, pc = "read", fault = "NONE", homed, sessionActive,
         UNCHANGED <<pc, limits, pulse, fault, homed, position, ramp, travel>>,
         armed' = TRUE, NotHoming, target' = position,
         target_session' = target_session, RefreshWatchdog,
         UNCHANGED <<sessionId, retiredSessionId>>,
         lastSequence' \in Sequences \cup {Unseen}
  PROVE  IInv'
<1>1. command_age' \in 0..(WatchdogTimeout + 1)
  BY LiftAssumption DEF RefreshWatchdog
<1>2. TypeOK'
  BY <1>1, NotHomingType DEF IInv, TypeOK, limits
<1>3. /\ ArmedIsSafe' /\ GeometryFaultUnhomes' /\ NoOldTarget' /\ CanStop'
      /\ EdgeSeen'
  BY DEF IInv, NotHoming, ArmedIsSafe, GeometryFaultUnhomes, NoOldTarget, CanStop,
         EdgeSeen, sessionActive, homing
<1>4. pulse' = 0 /\ pc' = "read"
  BY DEF IInv, PulseEndsPass
<1>5. Switched' /\ Watched' /\ PulseEndsPass' /\ PulsesNeedLease' /\ EndstopsHold'
  BY <1>4 DEF Switched, Watched, PulseEndsPass, PulsesNeedLease, EndstopsHold
<1>6. QED
  BY <1>2, <1>3, <1>5 DEF IInv

\* An accepted SET.
LEMMA SetIInv ==
  ASSUME IInv, pc = "read", NEW p \in Heights, target' = p,
         UNCHANGED <<pc, limits, pulse, modes, homingTimes, position, ramp, travel>>,
         target_session' = sessionId, RefreshWatchdog,
         UNCHANGED <<sessionId, retiredSessionId>>,
         lastSequence' \in Sequences \cup {Unseen}
  PROVE  IInv'
<1>1. command_age' \in 0..(WatchdogTimeout + 1)
  BY LiftAssumption DEF RefreshWatchdog
<1>2. TypeOK'
  BY <1>1 DEF IInv, TypeOK, limits, modes, homingTimes
<1>3. /\ ArmedIsSafe' /\ GeometryFaultUnhomes' /\ NoOldTarget' /\ CanStop'
      /\ EdgeSeen'
  BY DEF IInv, modes, homingTimes, ArmedIsSafe, GeometryFaultUnhomes, NoOldTarget,
         CanStop, EdgeSeen, sessionActive, homing, limits
<1>4. pulse' = 0 /\ pc' = "read"
  BY DEF IInv, PulseEndsPass
<1>5. Switched' /\ Watched' /\ PulseEndsPass' /\ PulsesNeedLease' /\ EndstopsHold'
  BY <1>4 DEF Switched, Watched, PulseEndsPass, PulsesNeedLease, EndstopsHold
<1>6. QED
  BY <1>2, <1>3, <1>5 DEF IInv

LEMMA LineIInv ==
  ASSUME IInv, NEW f \in Lines, HandleLine(f)
  PROVE  IInv'
<1>1. f.seq \in Sequences
  BY DEF Lines, Line
<1>2. pc = "read" /\ UNCHANGED <<pc, limits, pulse>>
  BY DEF HandleLine
<1>3. ASSUME NEW reason, Refuse(reason),
             lastSequence' \in Sequences \cup {Unseen},
             UNCHANGED <<sessionId, retiredSessionId>>
      PROVE  IInv'
  BY <1>2, <1>3, QuietStep DEF Refuse
<1>4. CASE RefuseEnvelope(f)
  BY <1>3, <1>4 DEF RefuseEnvelope, session, IInv, TypeOK
<1>5. CASE /\ ValidEnvelope(f) /\ lastSequence' = f.seq
           /\ UNCHANGED <<sessionId, retiredSessionId>>
           /\ \/ HandleHb(f) \/ HandleStatus(f) \/ HandleStop(f)
              \/ HandleClear(f) \/ HandleHome(f) \/ HandleArm(f) \/ HandleSet(f)
  <2>0. /\ sessionActive /\ sessionId \in Sessions
        /\ sessionId' \in Sessions \cup {NoSession}
        /\ retiredSessionId' \in Sessions \cup {NoSession}
        /\ lastSequence' \in Sequences \cup {Unseen}
    BY <1>1, <1>5 DEF ValidEnvelope, sessionActive, IInv, TypeOK
  <2>1. CASE HandleHb(f) \/ HandleStatus(f)
    BY <1>2, <1>5, <2>0, <2>1, QuietStep DEF HandleHb, HandleStatus, RefreshWatchdog
  <2>2. CASE HandleStop(f) \/ HandleClear(f)
    BY <1>2, <1>5, <2>0, <2>2, HaltIInv DEF HandleStop, HandleClear, RefreshWatchdog
  <2>3. CASE HandleHome(f)
    BY <1>2, <1>3, <1>5, <2>0, <2>3, HomeIInv DEF HandleHome
  <2>4. CASE HandleArm(f)
    BY <1>2, <1>3, <1>5, <2>0, <2>4, ArmIInv DEF HandleArm
  <2>5. CASE HandleSet(f)
    <3>1. CASE SetReason(f.position) # "NONE" /\ Refuse(SetReason(f.position))
      BY <1>3, <1>5, <2>0, <3>1
    <3>2. CASE SetReason(f.position) = "NONE"
      <4>1. armed /\ homed /\ f.position \in Heights
        BY <3>2 DEF SetReason
      <4>2. QED
        BY <1>2, <1>5, <2>0, <2>5, <3>2, <4>1, SetIInv DEF HandleSet
    <3>3. QED
      BY <2>5, <3>1, <3>2 DEF HandleSet
  <2>6. QED
    BY <1>5, <2>1, <2>2, <2>3, <2>4, <2>5
<1>6. QED
  BY <1>4, <1>5 DEF HandleLine

\* The switches leave a lift alone that is neither armed nor homing, or whose
\* switches allow it to go on.
LEMMA StayIInv ==
  ASSUME IInv, Stay, pc \in {"switches", "watchdog"}, pc' \in {"watchdog", "motion"},
         UNCHANGED <<limits, session, command_age, pulse>>,
         Switched', Watched'
  PROVE  IInv'
<1>1. TypeOK'
  BY DEF IInv, TypeOK, Phases, Stay, limits, modes, session, homingTimes, stepper
<1>2. /\ ArmedIsSafe' /\ GeometryFaultUnhomes' /\ NoOldTarget' /\ CanStop'
      /\ EdgeSeen'
  BY DEF IInv, Stay, ArmedIsSafe, GeometryFaultUnhomes, NoOldTarget, CanStop,
         EdgeSeen, modes, session, homingTimes, stepper, homing, sessionActive,
         limits
<1>3. pulse' = 0
  BY DEF IInv, PulseEndsPass
<1>4. PulseEndsPass' /\ PulsesNeedLease' /\ EndstopsHold'
  BY <1>3 DEF PulseEndsPass, PulsesNeedLease, EndstopsHold
<1>5. QED
  BY <1>1, <1>2, <1>4 DEF IInv

\* The switch handling, once neither both switches nor a fault decide.
LEMMA SeekLowerIInv ==
  ASSUME IInv, pc = "switches", pc' = "watchdog", SeekLower,
         \/ homingStage = "RELEASE_LOWER" /\ ~lower /\ ~upper
         \/ homingStage = "RELEASE_UPPER" /\ ~upper,
         EdgeSeen', UNCHANGED <<limits, session, command_age, pulse>>
  PROVE  IInv'
<1>1. StopAt(position) /\ position \in Heights
  BY DEF SeekLower, IInv, TypeOK
<1>2. stage_age' \in 0..(ReleaseTimeout + 1)
  BY LiftAssumption DEF SeekLower
<1>3. TypeOK'
  BY <1>1, <1>2, StopAtType
  DEF IInv, TypeOK, SeekLower, Phases, Stages, limits, session
<1>4. ArmedIsSafe' /\ GeometryFaultUnhomes' /\ NoOldTarget'
  BY DEF IInv, SeekLower, ArmedIsSafe, GeometryFaultUnhomes, NoOldTarget,
         session, homing, sessionActive
<1>5. ~armed' /\ homingStage' = "SEEK_LOWER" /\ ~upper' /\ stage_age' = 0
  BY DEF IInv, SeekLower, ArmedIsSafe, homing, limits
<1>6. Switched'
  BY <1>5 DEF Switched
<1>7. pulse' = 0
  BY DEF IInv, PulseEndsPass
<1>8. Watched' /\ PulseEndsPass' /\ PulsesNeedLease' /\ EndstopsHold'
  BY <1>7 DEF Watched, PulseEndsPass, PulsesNeedLease, EndstopsHold
<1>9. QED
  BY <1>1, <1>3, <1>4, <1>6, <1>8, StopAtType DEF IInv

LEMMA CompleteHomingIInv ==
  ASSUME IInv, pc' = "watchdog", CompleteHoming, fault = "NONE", pulse' = 0,
         UNCHANGED <<limits, session, command_age, pulse>>
  PROVE  IInv'
<1>1. NotHoming /\ StopAt(0) /\ 0 \in Heights /\ armed' = FALSE
  BY LiftAssumption DEF CompleteHoming, Heights
<1>2. TypeOK'
  BY <1>1, StopAtType, NotHomingType
  DEF IInv, TypeOK, CompleteHoming, Phases, limits, session
<1>3. GeometryFaultUnhomes'
  BY DEF CompleteHoming, GeometryFaultUnhomes
<1>4. QED
  BY <1>1, <1>2, <1>3, StopAtType, NotHomingType, DisarmedIInv

\* An end hit in the direction of the target is the new reference of that end.
LEMMA ReReferenceIInv ==
  ASSUME IInv, pc = "switches", pc' = "watchdog", armed, ~(lower /\ upper),
         NEW end \in {0, Top}, ReReference(end), lower \/ upper,
         lower => end = 0, upper => end = Top,
         UNCHANGED <<limits, session, command_age, pulse>>
  PROVE  IInv'
<1>1. StopAt(end) /\ end \in Heights
  BY LiftAssumption DEF ReReference, Heights
<1>2. TypeOK'
  BY <1>1, StopAtType
  DEF IInv, TypeOK, ReReference, modes, homingTimes, Phases, limits, session
<1>3. /\ ArmedIsSafe' /\ GeometryFaultUnhomes' /\ NoOldTarget' /\ EdgeSeen'
      /\ homingStage' = "NONE"
  BY <1>1
  DEF IInv, ReReference, StopAt, modes, homingTimes, ArmedIsSafe,
      GeometryFaultUnhomes, NoOldTarget, EdgeSeen, session, homing, sessionActive,
      limits
<1>4. Switched'
  <2>1. /\ position' = end /\ target' = end
        /\ lower' = lower /\ upper' = upper
    BY <1>1 DEF StopAt, limits
  <2>2. ~EndstopMismatch' /\ ~HitsLower' /\ ~HitsUpper'
    BY <2>1, LiftAssumption DEF EndstopMismatch, HitsLower, HitsUpper
  <2>3. QED
    BY <1>3, <2>1, <2>2 DEF Switched
<1>5. pulse' = 0
  BY DEF IInv, PulseEndsPass
<1>6. Watched' /\ PulseEndsPass' /\ PulsesNeedLease' /\ EndstopsHold'
  BY <1>5 DEF Watched, PulseEndsPass, PulsesNeedLease, EndstopsHold
<1>7. QED
  BY <1>1, <1>2, <1>3, <1>4, <1>6, StopAtType DEF IInv

LEMMA SwitchesIInv == IInv /\ HandleLimitSwitches => IInv'
<1> SUFFICES ASSUME IInv, HandleLimitSwitches PROVE IInv'
  OBVIOUS
<1>1. /\ pc = "switches" /\ pc' = "watchdog" /\ pulse' = 0
      /\ UNCHANGED <<limits, session, command_age, pulse>>
  BY DEF HandleLimitSwitches, IInv, PulseEndsPass
<1>2. ASSUME NEW code \in FaultCodes \ {"NONE"}, LatchFault(code) PROVE IInv'
  BY <1>1, <1>2, LatchFaultIInv DEF IInv, TypeOK, limits, session, Phases
<1>3. {"BOTH_LIMITS_ACTIVE", "HOMING_RELEASE_FAILED", "ENDSTOP_POSITION_MISMATCH"}
        \subseteq FaultCodes \ {"NONE"}
  BY DEF FaultCodes
<1>4. ASSUME Stay, Switched' PROVE IInv'
  <2>1. Watched'
    BY <1>1 DEF Watched
  <2>2. QED
    BY <1>1, <1>4, <2>1, StayIInv
<1>5. CASE lower /\ upper /\ LatchFault("BOTH_LIMITS_ACTIVE")
  BY <1>2, <1>3, <1>5
<1>6. CASE ~(lower /\ upper) /\ homing /\ HomingSwitches
  <2>1. fault = "NONE" /\ ~armed
    BY <1>6 DEF IInv, ArmedIsSafe
  <2>2. CASE Fail("HOMING_RELEASE_FAILED")
    BY <1>2, <1>3, <2>2 DEF Fail
  <2>3. CASE homingStage = "RELEASE_LOWER" /\ ~upper /\ ~lower /\ SeekLower
    <3>1. EdgeSeen'
      BY <1>1, <1>6, <2>3 DEF IInv, EdgeSeen, SeekLower
    <3>2. QED
      BY <1>1, <2>3, <3>1, SeekLowerIInv
  <2>4. CASE homingStage = "RELEASE_UPPER" /\ ~upper /\ SeekLower
    <3>1. EdgeSeen'
      BY <2>4 DEF IInv, EdgeSeen, SeekLower
    <3>2. QED
      BY <1>1, <2>4, <3>1, SeekLowerIInv
  <2>5. CASE homingStage = "SEEK_LOWER" /\ CompleteHoming
    BY <1>1, <2>1, <2>5, CompleteHomingIInv
  <2>6. CASE /\ Stay
             /\ \/ homingStage = "RELEASE_LOWER" /\ ~upper
                \/ homingStage = "RELEASE_UPPER" /\ upper
                \/ homingStage = "SEEK_LOWER" /\ ~upper /\ ~lower
    <3>1. Switched'
      BY <1>1, <1>6, <2>1, <2>6 DEF Switched, Stay, modes, limits
    <3>2. QED
      BY <1>4, <2>6, <3>1
  <2>7. QED
    BY <1>6, <2>2, <2>3, <2>4, <2>5, <2>6 DEF HomingSwitches
<1>7. CASE ~(lower /\ upper) /\ ~homing /\ armed /\ ArmedSwitches
  <2>1. CASE LatchFault("ENDSTOP_POSITION_MISMATCH")
    BY <1>2, <1>3, <2>1
  <2>2. CASE HitsLower /\ ReReference(0)
    BY <1>1, <1>7, <2>2, ReReferenceIInv DEF HitsLower
  <2>3. CASE HitsUpper /\ ReReference(Top)
    BY <1>1, <1>7, <2>3, ReReferenceIInv DEF HitsUpper
  <2>4. CASE ~EndstopMismatch /\ ~HitsLower /\ ~HitsUpper /\ Stay
    <3>1. Switched'
      BY <1>1, <1>7, <2>4
      DEF Switched, Stay, modes, limits, stepper, homing, EndstopMismatch,
          HitsLower, HitsUpper
    <3>2. QED
      BY <1>4, <2>4, <3>1
  <2>5. QED
    BY <1>7, <2>1, <2>2, <2>3, <2>4 DEF ArmedSwitches
<1>8. CASE ~(lower /\ upper) /\ ~homing /\ ~armed /\ Stay
  <2>1. Switched'
    BY <1>1, <1>8 DEF Switched, Stay, modes, homing
  <2>2. QED
    BY <1>4, <1>8, <2>1
<1>9. QED
  BY <1>5, <1>6, <1>7, <1>8 DEF HandleLimitSwitches

LEMMA WatchdogIInv == IInv /\ CheckWatchdog => IInv'
<1> SUFFICES ASSUME IInv, CheckWatchdog PROVE IInv'
  OBVIOUS
<1>1. /\ pc = "watchdog" /\ pc' = "motion" /\ pulse' = 0
      /\ UNCHANGED <<limits, command_age, pulse>>
  BY DEF CheckWatchdog, IInv, PulseEndsPass
<1>2. CASE /\ WatchdogExpired /\ Fail("COMM_TIMEOUT")
           /\ retiredSessionId' = sessionId /\ sessionId' = NoSession
           /\ lastSequence' = Unseen
  <2>1. "COMM_TIMEOUT" \in FaultCodes \ {"NONE"}
    BY DEF FaultCodes
  <2>2. QED
    BY <1>1, <1>2, <2>1, LatchFaultIInv DEF Fail, IInv, TypeOK, Phases, limits
<1>3. CASE ~WatchdogExpired /\ Stay /\ UNCHANGED session
  <2>1. Switched'
    BY <1>1, <1>3
    DEF IInv, Switched, Stay, modes, limits, stepper, homingTimes, homing,
        EndstopMismatch, HitsLower, HitsUpper
  <2>2. Watched'
    <3>1. ASSUME armed \/ homing PROVE command_age <= WatchdogTimeout
      BY <1>3, <3>1, LiftAssumption DEF IInv, TypeOK, ArmedIsSafe, WatchdogExpired
    <3>2. QED
      BY <1>1, <1>3, <3>1 DEF Watched, Stay, modes, homing
  <2>3. QED
    BY <1>1, <1>3, <2>1, <2>2, StayIInv
<1>4. QED
  BY <1>2, <1>3 DEF CheckWatchdog

\* A pulse is at most one step.
LEMMA PulseSize ==
  ASSUME NEW n \in {-1, 0, 1}
  PROVE  Size(n) \in {0, 1}
<1>1. CASE n = -1
  BY <1>1 DEF Size
<1>2. CASE n \in {0, 1}
  BY <1>2 DEF Size
<1>3. QED
  BY <1>1, <1>2

\* One step of a homing: a release counts its way, a seek goes down.
LEMMA HomingStepIInv ==
  ASSUME IInv, pc = "motion", pc' = "tick", homing,
         Releasing => travel <= ReleaseTravel,
         HomingStep(IF homingStage = "RELEASE_LOWER" THEN 1 ELSE -1),
         UNCHANGED <<limits, session, command_age>>
  PROVE  IInv'
<1>1. pulse' \in {-1, 0, 1}
  BY DEF HomingStep
<1>2. travel' \in 0..(ReleaseTravel + 1)
  <2>1. Size(pulse') \in {0, 1}
    BY <1>1, PulseSize
  <2>2. CASE Releasing
    <3>1. travel' = travel + Size(pulse')
      BY <2>2 DEF HomingStep
    <3>2. QED
      BY <2>1, <2>2, <3>1, LiftAssumption DEF IInv, TypeOK
  <2>3. CASE ~Releasing
    BY <2>3 DEF HomingStep, IInv, TypeOK
  <2>4. QED
    BY <2>2, <2>3
<1>3. /\ UNCHANGED <<modes, homingTimes, position, target, ramp, target_session>>
      /\ sessionActive /\ ~armed
  BY DEF HomingStep, IInv, ArmedIsSafe
<1>4. TypeOK'
  BY <1>1, <1>2, <1>3
  DEF IInv, TypeOK, Phases, modes, homingTimes, limits, session
<1>5. /\ ArmedIsSafe' /\ GeometryFaultUnhomes' /\ NoOldTarget' /\ CanStop'
      /\ EdgeSeen'
  BY <1>3
  DEF IInv, ArmedIsSafe, GeometryFaultUnhomes, NoOldTarget, CanStop, EdgeSeen,
      modes, session, homingTimes, homing, sessionActive, limits
<1>6. Switched' /\ Watched' /\ PulseEndsPass'
  BY DEF Switched, Watched, PulseEndsPass
<1>7. PulsesNeedLease'
  BY <1>3 DEF IInv, Watched, PulsesNeedLease, session, sessionActive, modes, homing
<1>8. EndstopsHold'
  <2>1. pulse' = 1 => ~upper
    BY <1>1 DEF HomingStep, IInv, Switched
  <2>2. pulse' = -1 /\ lower => stage_age = 0
    <3>1. ASSUME pulse' = -1 PROVE homingStage \in {"RELEASE_UPPER", "SEEK_LOWER"}
      BY <3>1 DEF HomingStep, IInv, TypeOK, Stages, homing
    <3>2. QED
      BY <3>1 DEF IInv, Switched
  <2>3. QED
    BY <1>3, <2>1, <2>2 DEF EndstopsHold, limits, homingTimes, modes, homing
<1>9. QED
  BY <1>4, <1>5, <1>6, <1>7, <1>8 DEF IInv

\* One step of the armed stepper.
LEMMA ArmedStepIInv ==
  ASSUME IInv, pc = "motion", pc' = "tick", ~homing, armed, ArmedStep,
         UNCHANGED <<limits, session, command_age>>
  PROVE  IInv'
<1> DEFINE d == IF ramp # 0 THEN Sign(ramp) ELSE Sign(target - position)
<1>1. /\ UNCHANGED <<modes, homingTimes, target, travel, target_session>>
      /\ \/ pulse' = 0 /\ UNCHANGED <<position, ramp>>
         \/ /\ pulse' = d /\ position' = position + d
            /\ ramp' = RampAfter(d, d * (target - position) - 1)
  BY DEF ArmedStep
<1>2. /\ d \in {-1, 0, 1} /\ position + d \in Heights
      /\ RampAfter(d, d * (target - position) - 1) \in (-MaxRamp)..MaxRamp
      /\ position + d + RampAfter(d, d * (target - position) - 1) \in Heights
  BY StepStays DEF IInv, TypeOK, CanStop
<1> HIDE DEF d
<1>3. /\ pulse' \in {-1, 0, 1} /\ position' \in Heights
      /\ ramp' \in (-MaxRamp)..MaxRamp /\ CanStop'
  BY <1>1, <1>2 DEF IInv, TypeOK, CanStop, modes
<1>4. TypeOK'
  BY <1>1, <1>3 DEF IInv, TypeOK, Phases, modes, homingTimes, limits, session
<1>5. ArmedIsSafe' /\ GeometryFaultUnhomes' /\ NoOldTarget' /\ EdgeSeen'
  <2>1. ArmedIsSafe' /\ GeometryFaultUnhomes' /\ EdgeSeen'
    BY <1>1
    DEF IInv, ArmedIsSafe, GeometryFaultUnhomes, EdgeSeen, modes, session,
        homingTimes, homing, sessionActive, limits
  <2>2. target = position /\ ramp = 0 => position' = position /\ ramp' = 0
    <3> SUFFICES ASSUME target = position, ramp = 0
                 PROVE  position' = position /\ ramp' = 0
      OBVIOUS
    <3>1. d = 0
      BY LiftAssumption DEF d, Sign, IInv, TypeOK, Heights
    <3>2. QED
      BY <1>1, <3>1, LiftAssumption
      DEF RampAfter, Size, Larger, Smaller, IInv, TypeOK, Heights
  <2>3. NoOldTarget'
    BY <1>1, <2>2 DEF IInv, NoOldTarget, session
  <2>4. QED
    BY <2>1, <2>3
<1>6. Switched' /\ Watched' /\ PulseEndsPass'
  BY DEF Switched, Watched, PulseEndsPass
<1>7. PulsesNeedLease'
  BY <1>1
  DEF IInv, ArmedIsSafe, Watched, PulsesNeedLease, session, sessionActive, modes,
      homing
<1>8. EndstopsHold'
  <2>1. position \in Int /\ target \in Int /\ ramp \in Int
    BY LiftAssumption DEF IInv, TypeOK, Heights
  <2>2. ~EndstopMismatch /\ ~HitsLower /\ ~HitsUpper
    BY DEF IInv, Switched
  <2>3. armed' = TRUE /\ lower' = lower /\ upper' = upper /\ target' = target
    BY <1>1 DEF IInv, TypeOK, modes, limits
  <2>4. CASE pulse' = 0
    BY <2>4 DEF EndstopsHold
  <2>5. CASE pulse' = -1 /\ lower
    <3>1. position' = position - 1
      BY <1>1, <2>1, <2>5
    <3>2. target >= position /\ position <= EndTolerance
      BY <2>1, <2>2, <2>5, LiftAssumption DEF EndstopMismatch, HitsLower
    <3>3. QED
      BY <2>1, <2>3, <2>5, <3>1, <3>2, LiftAssumption DEF EndstopsHold
  <2>6. CASE pulse' = 1 /\ upper
    <3>1. position' = position + 1
      BY <1>1, <2>1, <2>6
    <3>2. target <= position /\ position >= Top - EndTolerance
      BY <2>1, <2>2, <2>6, LiftAssumption DEF EndstopMismatch, HitsUpper
    <3>3. QED
      BY <2>1, <2>3, <2>6, <3>1, <3>2, LiftAssumption DEF EndstopsHold
  <2>7. QED
    BY <1>3, <2>3, <2>4, <2>5, <2>6 DEF EndstopsHold
<1>9. QED
  BY <1>3, <1>4, <1>5, <1>6, <1>7, <1>8 DEF IInv

LEMMA MotionIInv == IInv /\ RunMotion => IInv'
<1> SUFFICES ASSUME IInv, RunMotion PROVE IInv'
  OBVIOUS
<1>1. /\ pc = "motion" /\ pc' = "tick"
      /\ UNCHANGED <<limits, session, command_age>>
  BY DEF RunMotion
<1>2. CASE fault = "NONE" /\ homing /\ HomingMotion
  <2>1. ASSUME NEW code \in {"HOMING_RELEASE_FAILED", "HOMING_TIMEOUT"},
               Fail(code), pulse' = 0
        PROVE  IInv'
    <3>1. code \in FaultCodes \ {"NONE"}
      BY DEF FaultCodes
    <3>2. QED
      BY <1>1, <2>1, <3>1, LatchFaultIInv
      DEF Fail, IInv, TypeOK, Phases, limits, session
  <2>2. CASE /\ Releasing /\ ~ReleaseFails
             /\ HomingStep(IF homingStage = "RELEASE_LOWER" THEN 1 ELSE -1)
    <3>1. travel <= ReleaseTravel
      BY <2>2, LiftAssumption DEF ReleaseFails, IInv, TypeOK
    <3>2. QED
      BY <1>1, <1>2, <2>2, <3>1, HomingStepIInv
  <2>3. CASE ~Releasing /\ HomingStep(-1)
    <3>1. homingStage # "RELEASE_LOWER"
      BY <2>3 DEF Releasing
    <3>2. QED
      BY <1>1, <1>2, <2>3, <3>1, HomingStepIInv
  <2>4. QED
    BY <1>2, <2>1, <2>2, <2>3 DEF HomingMotion
<1>3. CASE fault = "NONE" /\ ~homing /\ armed /\ ArmedStep
  BY <1>1, <1>3, ArmedStepIInv
<1>4. CASE Stay /\ pulse' = 0
  <2>1. TypeOK'
    BY <1>1, <1>4
    DEF IInv, TypeOK, Phases, Stay, limits, modes, session, homingTimes, stepper
  <2>2. /\ ArmedIsSafe' /\ GeometryFaultUnhomes' /\ NoOldTarget' /\ CanStop'
        /\ EdgeSeen'
    BY <1>1, <1>4
    DEF IInv, Stay, ArmedIsSafe, GeometryFaultUnhomes, NoOldTarget, CanStop,
        EdgeSeen, modes, session, homingTimes, stepper, homing, sessionActive,
        limits
  <2>3. Switched' /\ Watched' /\ PulseEndsPass' /\ PulsesNeedLease' /\ EndstopsHold'
    BY <1>1, <1>4
    DEF Switched, Watched, PulseEndsPass, PulsesNeedLease, EndstopsHold
  <2>4. QED
    BY <2>1, <2>2, <2>3 DEF IInv
<1>5. QED
  BY <1>2, <1>3, <1>4 DEF RunMotion

LEMMA StutterIInv == IInv /\ UNCHANGED vars => IInv'
<1> SUFFICES ASSUME IInv, UNCHANGED vars PROVE IInv'
  OBVIOUS
<1> USE DEF vars, limits, modes, session, homingTimes, stepper
<1>1. TypeOK'
  BY DEF IInv, TypeOK
<1>2. /\ ArmedIsSafe' /\ GeometryFaultUnhomes' /\ NoOldTarget' /\ CanStop'
      /\ EdgeSeen'
  BY DEF IInv, ArmedIsSafe, GeometryFaultUnhomes, NoOldTarget, CanStop, EdgeSeen,
         homing, sessionActive
<1>3. Switched'
  BY DEF IInv, Switched, homing, EndstopMismatch, HitsLower, HitsUpper
<1>4. Watched' /\ PulseEndsPass' /\ PulsesNeedLease' /\ EndstopsHold'
  BY DEF IInv, Watched, PulseEndsPass, PulsesNeedLease, EndstopsHold, homing,
         sessionActive
<1>5. QED
  BY <1>1, <1>2, <1>3, <1>4 DEF IInv

-----------------------------------------------------------------------------
(* The theorems.                                                           *)

\* The invariant is inductive.
THEOREM Invariance == Spec => []IInv
<1>1. IInv /\ [Next]_vars => IInv'
  <2> SUFFICES ASSUME IInv, [Next]_vars PROVE IInv'
    OBVIOUS
  <2>1. CASE Tick
    BY <2>1, TickIInv
  <2>2. CASE ReadDone \/ Malformed
    BY <2>2, QuietStep DEF ReadDone, Malformed, Refuse, session, IInv, TypeOK
  <2>3. CASE HandleLimitSwitches
    BY <2>3, SwitchesIInv
  <2>4. CASE CheckWatchdog
    BY <2>4, WatchdogIInv
  <2>5. CASE RunMotion
    BY <2>5, MotionIInv
  <2>6. CASE \E s \in Sessions \cup {NoSession} : HandleHello(s)
    BY <2>6, HelloIInv
  <2>7. CASE \E f \in Lines : HandleLine(f)
    BY <2>7, LineIInv
  <2>8. CASE Reset
    BY <2>8, ResetIInv
  <2>9. CASE UNCHANGED vars
    BY <2>9, StutterIInv
  <2>10. QED
    BY <2>1, <2>2, <2>3, <2>4, <2>5, <2>6, <2>7, <2>8, <2>9 DEF Next, Loop, Receive
<1>2. QED
  BY InitIInv, <1>1, PTL DEF Spec

\* Every variable keeps its type.
THEOREM TypeCorrect == Spec => []TypeOK
<1>1. IInv => TypeOK
  BY DEF IInv
<1>2. QED
  BY Invariance, <1>1, PTL

\* An armed or homing lift has a session and no fault, and an armed one has its
\* reference.
THEOREM ArmedSafe == Spec => []ArmedIsSafe
<1>1. IInv => ArmedIsSafe
  BY DEF IInv
<1>2. QED
  BY Invariance, <1>1, PTL

\* A geometry or endstop fault invalidates the reference.
THEOREM GeometryUnhomes == Spec => []GeometryFaultUnhomes
<1>1. IInv => GeometryFaultUnhomes
  BY DEF IInv
<1>2. QED
  BY Invariance, <1>1, PTL

\* A step pulse needs a session that was heard within the watchdog's time.
THEOREM PulsesLease == Spec => []PulsesNeedLease
<1>1. IInv => PulsesNeedLease
  BY DEF IInv
<1>2. QED
  BY Invariance, <1>1, PTL

\* A lift that has a way to go, or speed, is in the session whose SET sent it since
\* its last stop: a stop takes target and speed away together, and no ARM brings a
\* target back.
THEOREM OldTargetIsGone == Spec => []NoOldTarget
<1>1. IInv => NoOldTarget
  BY DEF IInv
<1>2. QED
  BY Invariance, <1>1, PTL

\* With its reference, the lift can always stop within the travel.
THEOREM StopsInTravel == Spec => []StopsWithinTravel
<1>1. IInv => StopsWithinTravel
  BY DEF IInv, CanStop, StopsWithinTravel
<1>2. QED
  BY Invariance, <1>1, PTL

\* No pulse goes into an active switch, but in the two cases EndstopsHold names.
THEOREM EndstopPulses == Spec => []EndstopsHold
<1>1. IInv => EndstopsHold
  BY DEF IInv
<1>2. QED
  BY Invariance, <1>1, PTL

\* A reference only comes from a fresh edge of the lower switch.
THEOREM FreshEdge == Spec => FreshEdgeHomes
<1>1. IInv /\ [Next]_vars =>
        [~homed /\ homed' => homing /\ lower_seen_open /\ lower /\ ~upper]_vars
  <2> SUFFICES ASSUME IInv, Next, ~homed, homed'
               PROVE  homing /\ lower_seen_open /\ lower /\ ~upper
    BY DEF vars
  <2>1. ASSUME NEW code, LatchFault(code) PROVE FALSE
    BY <2>1 DEF LatchFault
  <2>2. ~Stay /\ ~SeekLower /\ ~ReReference(0) /\ ~ReReference(Top)
    BY DEF Stay, SeekLower, ReReference, modes
  <2>3. CASE HandleLimitSwitches
    <3>1. ~(lower /\ upper) /\ homing /\ HomingSwitches
      BY <2>1, <2>2, <2>3 DEF HandleLimitSwitches, ArmedSwitches
    <3>2. homingStage = "SEEK_LOWER" /\ ~upper /\ lower
      BY <2>1, <2>2, <3>1 DEF HomingSwitches, Fail
    <3>3. QED
      BY <3>1, <3>2 DEF IInv, EdgeSeen
  <2>4. CASE \E f \in Lines : HandleLine(f)
    BY <2>4
    DEF HandleLine, RefuseEnvelope, Refuse, HandleHb, HandleStatus, HandleStop,
        HandleClear, HandleHome, StartHoming, HandleArm, HandleSet, modes
  <2>5. CASE RunMotion
    BY <2>1, <2>2, <2>5
    DEF RunMotion, HomingMotion, Fail, HomingStep, ArmedStep, modes
  <2>6. CASE CheckWatchdog
    BY <2>1, <2>2, <2>6 DEF CheckWatchdog, Fail
  <2>7. CASE \/ Tick \/ ReadDone \/ Malformed \/ Reset
             \/ \E s \in Sessions \cup {NoSession} : HandleHello(s)
    BY <2>7 DEF Tick, ReadDone, Malformed, Refuse, Reset, HandleHello, modes
  <2>8. QED
    BY <2>3, <2>4, <2>5, <2>6, <2>7 DEF Next, Loop, Receive
<1>2. QED
  BY Invariance, <1>1, PTL DEF Spec, FreshEdgeHomes

\* Every line acted on is ahead of the one before it in the session.
THEOREM NoLineTwice == Spec => NoReplay
<1> DEFINE Kept == /\ lastSequence' = lastSequence
                   /\ tx'.kind = "ACK" => tx'.what = "HELLO"
           Advanced == lastSequence' # Unseen /\ Ahead(lastSequence', lastSequence)
<1>1. ASSUME IInv, Next, sessionActive, sessionId' = sessionId,
             lastSequence # Unseen
      PROVE  Kept \/ Advanced
  <2>1. ASSUME NEW code, Fail(code) PROVE tx'.kind = "EVENT"
    BY <2>1 DEF Fail, Event
  <2>2. ASSUME NEW reason, Refuse(reason) PROVE tx'.kind = "ERR"
    BY <2>2 DEF Refuse, Err
  <2>3. CASE Tick \/ ReadDone \/ Malformed
    BY <2>2, <2>3 DEF Tick, ReadDone, Malformed, Silent, session
  <2>4. CASE HandleLimitSwitches
    BY <2>1, <2>4
    DEF HandleLimitSwitches, HomingSwitches, ArmedSwitches, Stay, SeekLower,
        CompleteHoming, ReReference, Silent, Event, session
  <2>5. CASE CheckWatchdog
    <3>1. UNCHANGED session
      BY <1>1, <2>5 DEF CheckWatchdog, sessionActive
    <3>2. tx'.kind # "ACK"
      BY <2>1, <2>5 DEF CheckWatchdog, Stay, Silent
    <3>3. QED
      BY <3>1, <3>2 DEF session
  <2>6. CASE RunMotion
    BY <2>1, <2>6
    DEF RunMotion, HomingMotion, HomingStep, ArmedStep, Stay, Silent, session
  <2>7. ASSUME NEW s \in Sessions \cup {NoSession}, HandleHello(s) PROVE Kept
    BY <1>1, <2>7 DEF HandleHello, SameSession, Ack, Err, session
  <2>8. ASSUME NEW f \in Lines, HandleLine(f) PROVE Kept \/ Advanced
    <3>1. CASE RefuseEnvelope(f)
      BY <2>2, <3>1 DEF RefuseEnvelope, session
    <3>2. CASE ValidEnvelope(f) /\ lastSequence' = f.seq
      <4>1. f.seq # Unseen
        BY SessionAssumption DEF Lines, Line
      <4>2. QED
        BY <1>1, <3>2, <4>1 DEF ValidEnvelope, SequenceIsNew
    <3>3. QED
      BY <2>8, <3>1, <3>2 DEF HandleLine
  <2>9. CASE Reset
    BY <1>1, <2>9 DEF Reset, sessionActive
  <2>10. QED
    BY <1>1, <2>3, <2>4, <2>5, <2>6, <2>7, <2>8, <2>9 DEF Next, Loop, Receive
<1>2. IInv /\ [Next]_vars =>
        [sessionActive /\ sessionId' = sessionId /\ lastSequence # Unseen
           => Kept \/ Advanced]_vars
  BY <1>1
<1>3. QED
  BY Invariance, <1>2, PTL DEF Spec, NoReplay
-----------------------------------------------------------------------------
(* The refinement of LiftContract.  PortLift is rebuilt from the changes of *)
(* the variables it shows.                                                  *)

ShownFault == IF fault \in {"NONE", "COMM_TIMEOUT"} THEN fault ELSE "GEOMETRY"
ShownMode == IF armed THEN "armed" ELSE IF homing THEN "homing" ELSE "idle"
Shown(s, q, f, h, m) ==
  [session |-> s, retired |-> q, fault |-> f, homed |-> h, mode |-> m]

LEMMA ShownNow ==
  /\ PortLift = Shown(sessionId, retiredSessionId, ShownFault, homed, ShownMode)
  /\ PortLift'
       = Shown(sessionId', retiredSessionId', ShownFault', homed', ShownMode')
  BY DEF PortLift, Shown, ShownFault, ShownMode

LEMMA ShownHalted ==
  ASSUME UNCHANGED <<sessionId, retiredSessionId, ShownFault, homed>>,
         ShownMode' = "idle"
  PROVE  PortLift' = Port!Halted(PortLift)
<1> DEFINE f == ShownFault
<1> DEFINE m == ShownMode
<1>1. PortLift = Shown(sessionId, retiredSessionId, f, homed, m)
  BY ShownNow
<1>2. PortLift' = Shown(sessionId, retiredSessionId, f, homed, "idle")
  BY ShownNow
<1> HIDE DEF f, m
<1>3. QED
  BY <1>1, <1>2 DEF Shown, Port!Halted

LEMMA ShownBegins ==
  ASSUME NEW l, l.command = "HELLO", ~Port!Current(PortLift, l.session),
         sessionId' = l.session,
         retiredSessionId' = IF sessionId # NoSession THEN sessionId
                             ELSE retiredSessionId,
         UNCHANGED <<ShownFault, homed>>, ShownMode' = "idle"
  PROVE  PortLift' = Port!LiftAfter(PortLift, l)
<1> DEFINE f == ShownFault
<1> DEFINE m == ShownMode
<1>1. PortLift = Shown(sessionId, retiredSessionId, f, homed, m)
  BY ShownNow
<1>2. PortLift' = Shown(l.session, retiredSessionId', f, homed, "idle")
  BY ShownNow
<1> HIDE DEF f, m
<1>3. QED
  BY <1>1, <1>2 DEF Shown, Port!LiftAfter, Port!Halted

LEMMA ShownCleared ==
  ASSUME NEW l, l.command = "CLEAR",
         UNCHANGED <<sessionId, retiredSessionId, homed>>,
         ShownFault' = "NONE", ShownMode' = "idle"
  PROVE  PortLift' = Port!LiftAfter(PortLift, l)
<1> DEFINE f == ShownFault
<1> DEFINE m == ShownMode
<1>1. PortLift = Shown(sessionId, retiredSessionId, f, homed, m)
  BY ShownNow
<1>2. PortLift' = Shown(sessionId, retiredSessionId, "NONE", homed, "idle")
  BY ShownNow
<1> HIDE DEF f, m
<1>3. QED
  BY <1>1, <1>2 DEF Shown, Port!LiftAfter

LEMMA ShownHoming ==
  ASSUME NEW l, l.command = "HOME",
         UNCHANGED <<sessionId, retiredSessionId, ShownFault>>,
         homed' = FALSE, ShownMode' = "homing"
  PROVE  PortLift' = Port!LiftAfter(PortLift, l)
<1> DEFINE f == ShownFault
<1> DEFINE m == ShownMode
<1>1. PortLift = Shown(sessionId, retiredSessionId, f, homed, m)
  BY ShownNow
<1>2. PortLift' = Shown(sessionId, retiredSessionId, f, FALSE, "homing")
  BY ShownNow
<1> HIDE DEF f, m
<1>3. QED
  BY <1>1, <1>2 DEF Shown, Port!LiftAfter

LEMMA ShownArmed ==
  ASSUME NEW l, l.command = "ARM",
         UNCHANGED <<sessionId, retiredSessionId, ShownFault, homed>>,
         ShownMode' = "armed"
  PROVE  PortLift' = Port!LiftAfter(PortLift, l)
<1> DEFINE f == ShownFault
<1> DEFINE m == ShownMode
<1>1. PortLift = Shown(sessionId, retiredSessionId, f, homed, m)
  BY ShownNow
<1>2. PortLift' = Shown(sessionId, retiredSessionId, f, homed, "armed")
  BY ShownNow
<1> HIDE DEF f, m
<1>3. QED
  BY <1>1, <1>2 DEF Shown, Port!LiftAfter

LEMMA ShownLapsed ==
  ASSUME sessionId' = NoSession, retiredSessionId' = sessionId,
         ShownFault' = "COMM_TIMEOUT", homed' = homed, ShownMode' = "idle"
  PROVE  PortLift' = Port!LapsedLift(PortLift)
<1> DEFINE f == ShownFault
<1> DEFINE m == ShownMode
<1>1. PortLift = Shown(sessionId, retiredSessionId, f, homed, m)
  BY ShownNow
<1>2. PortLift' = Shown(NoSession, sessionId, "COMM_TIMEOUT", homed, "idle")
  BY ShownNow
<1> HIDE DEF f, m
<1> DEFINE b == PortLift
<1>3. b.session = sessionId
  BY <1>1 DEF Shown
<1> HIDE DEF b
<1>4. [b EXCEPT !.mode = "idle"]
        = Shown(sessionId, retiredSessionId, f, homed, "idle")
  BY <1>1 DEF Shown, b
<1>5. [Shown(sessionId, retiredSessionId, f, homed, "idle")
         EXCEPT !.fault = "COMM_TIMEOUT"]
        = Shown(sessionId, retiredSessionId, "COMM_TIMEOUT", homed, "idle")
  BY DEF Shown
<1>6. [Shown(sessionId, retiredSessionId, "COMM_TIMEOUT", homed, "idle")
         EXCEPT !.session = NoSession]
        = Shown(NoSession, retiredSessionId, "COMM_TIMEOUT", homed, "idle")
  BY DEF Shown
<1>7. [Shown(NoSession, retiredSessionId, "COMM_TIMEOUT", homed, "idle")
         EXCEPT !.retired = sessionId]
        = Shown(NoSession, sessionId, "COMM_TIMEOUT", homed, "idle")
  BY DEF Shown
<1>8. Port!LapsedLift(b) = Shown(NoSession, sessionId, "COMM_TIMEOUT", homed, "idle")
  BY <1>3, <1>4, <1>5, <1>6, <1>7 DEF Port!LapsedLift
<1>9. QED
  BY <1>2, <1>8, Zenon DEF b

LEMMA ShownReferenced ==
  ASSUME UNCHANGED <<sessionId, retiredSessionId, ShownFault>>,
         homed' = TRUE, ShownMode' = "idle"
  PROVE  PortLift' = Port!Referenced(PortLift)
<1> DEFINE b == PortLift
           f == ShownFault
           m == ShownMode
<1>1. b = Shown(sessionId, retiredSessionId, f, homed, m)
  BY ShownNow
<1>2. PortLift' = Shown(sessionId, retiredSessionId, f, TRUE, "idle")
  BY ShownNow
<1> HIDE DEF b, f, m
<1>3. ASSUME NEW v
      PROVE  [[b EXCEPT !.mode = "idle"] EXCEPT !.homed = v]
               = Shown(sessionId, retiredSessionId, f, v, "idle")
  <2>1. [b EXCEPT !.mode = "idle"]
          = Shown(sessionId, retiredSessionId, f, homed, "idle")
    BY <1>1 DEF Shown
  <2>2. [Shown(sessionId, retiredSessionId, f, homed, "idle") EXCEPT !.homed = v]
          = Shown(sessionId, retiredSessionId, f, v, "idle")
    BY DEF Shown
  <2>3. QED
    BY <2>1, <2>2
<1>4. Port!Referenced(b) = Shown(sessionId, retiredSessionId, f, TRUE, "idle")
  BY <1>3, Zenon DEF Port!Referenced
<1>5. QED
  BY <1>2, <1>4, Zenon DEF b

LEMMA ShownFailed ==
  ASSUME UNCHANGED <<sessionId, retiredSessionId>>,
         ShownFault' = "GEOMETRY", homed' = FALSE, ShownMode' = "idle"
  PROVE  PortLift' = Port!Failed(PortLift)
<1> DEFINE b == PortLift
           f == ShownFault
           m == ShownMode
<1>1. b = Shown(sessionId, retiredSessionId, f, homed, m)
  BY ShownNow
<1>2. PortLift' = Shown(sessionId, retiredSessionId, "GEOMETRY", FALSE, "idle")
  BY ShownNow
<1> HIDE DEF b, f, m
<1>3. ASSUME NEW v
      PROVE  [[[b EXCEPT !.mode = "idle"] EXCEPT !.homed = v]
                EXCEPT !.fault = "GEOMETRY"]
               = Shown(sessionId, retiredSessionId, "GEOMETRY", v, "idle")
  <2>1. [b EXCEPT !.mode = "idle"]
          = Shown(sessionId, retiredSessionId, f, homed, "idle")
    BY <1>1 DEF Shown
  <2>2. [Shown(sessionId, retiredSessionId, f, homed, "idle") EXCEPT !.homed = v]
          = Shown(sessionId, retiredSessionId, f, v, "idle")
    BY DEF Shown
  <2>3. [Shown(sessionId, retiredSessionId, f, v, "idle") EXCEPT !.fault = "GEOMETRY"]
          = Shown(sessionId, retiredSessionId, "GEOMETRY", v, "idle")
    BY DEF Shown
  <2>4. QED
    BY <2>1, <2>2, <2>3
<1>4. Port!Failed(b)
        = Shown(sessionId, retiredSessionId, "GEOMETRY", FALSE, "idle")
  BY <1>3, Zenon DEF Port!Failed
<1>5. QED
  BY <1>2, <1>4, Zenon DEF b

\* What the fields say.
LEMMA ShownFields ==
  /\ PortLift.session = sessionId /\ PortLift.retired = retiredSessionId
  /\ PortLift.fault = ShownFault /\ PortLift.mode = ShownMode
  /\ PortLift.homed <=> homed
  BY DEF PortLift, ShownFault, ShownMode

LEMMA ShownValues ==
  /\ ShownFault = "NONE" <=> fault = "NONE"
  /\ fault = "COMM_TIMEOUT" => ShownFault = "COMM_TIMEOUT"
  /\ fault \notin {"NONE", "COMM_TIMEOUT"} => ShownFault = "GEOMETRY"
  /\ ShownMode = "armed" <=> armed
  /\ ~armed => (ShownMode = "homing" <=> homing) /\ (ShownMode = "idle" <=> ~homing)
  BY DEF ShownFault, ShownMode

LEMMA ShownSame ==
  ASSUME UNCHANGED <<sessionId, retiredSessionId, modes>>
  PROVE  PortLift' = PortLift
  BY DEF PortLift, modes, homing

\* A line, without its sequence number and its height.
Asked(f) == [command |-> f.command, session |-> f.session]

LEMMA AskedLine ==
  \A f \in Lines :
    /\ Asked(f) \in Port!Lines
    /\ Asked(f).command = f.command /\ Asked(f).session = f.session
    /\ f.command \in Envelopes \cup {"SET"} /\ f.session \in Sessions
  BY DEF Lines, Line, Envelopes, Asked, Port!Lines

LEMMA AnswerNext ==
  /\ \A c : tx' = Ack(c) => PortAnswer' = [kind |-> "ACK", command |-> c]
  /\ \A r : tx' = Err(r) => PortAnswer' = [kind |-> "ERR"]
  /\ tx' = Silent => PortAnswer' = [kind |-> "SILENT"]
  /\ tx' = Boot => PortAnswer' = [kind |-> "BOOT"]
  /\ tx' \in {Event("HOME_STARTED"), Event("HOME_COMPLETE")}
       => PortAnswer' = [kind |-> "SILENT"]
  /\ \A c \in FaultCodes : tx' = Event(c) => PortAnswer' = [kind |-> "FAULT"]
  BY DEF PortAnswer, Ack, Err, Silent, Boot, Event, FaultCodes

\* A refused line that leaves the lift as it is.
LEMMA PortRefuse ==
  ASSUME NEW r, Refuse(r), UNCHANGED <<sessionId, retiredSessionId>>
  PROVE  PortLift' = PortLift /\ PortAnswer' = [kind |-> "ERR"]
  BY ShownSame, AnswerNext DEF Refuse

LEMMA PortHalt ==
  ASSUME Halt, UNCHANGED <<sessionId, retiredSessionId, fault, homed>>
  PROVE  PortLift' = Port!Halted(PortLift)
<1>1. ShownMode' = "idle"
  BY DEF Halt, NotHoming, ShownMode, homing
<1>2. ShownFault' = ShownFault
  BY DEF ShownFault
<1>3. QED
  BY <1>1, <1>2, ShownHalted

LEMMA PortHello ==
  ASSUME IInv, NEW s \in Sessions \cup {NoSession}, HandleHello(s)
  PROVE  LET l == [command |-> "HELLO", session |-> s]
         IN  Port!Obeys(l) \/ Port!Refuses(l)
<1> DEFINE l == [command |-> "HELLO", session |-> s]
<1>1. l.command = "HELLO" /\ l.session = s
  OBVIOUS
<1>2. Halt /\ UNCHANGED <<fault, homed>>
  BY DEF HandleHello
<1>3. Port!Current(PortLift, s) <=> SameSession(s)
  BY ShownFields DEF Port!Current, SameSession, sessionActive
<1> HIDE DEF l
<1>4. CASE SameSession(s)
  <2>1. tx' = Ack("HELLO") /\ UNCHANGED <<sessionId, retiredSessionId>>
    BY <1>4 DEF HandleHello, session
  <2>2. PortLift' = Port!Halted(PortLift)
    BY <1>2, <2>1, PortHalt
  <2>3. PortLift' = Port!LiftAfter(PortLift, l) /\ Port!LiftAccepts(PortLift, l)
    BY <1>1, <1>3, <1>4, <2>2 DEF Port!LiftAfter, Port!LiftAccepts
  <2>4. QED
    BY <1>1, <2>1, <2>3, AnswerNext DEF Port!Obeys, Port!Acknowledges, l
<1>5. CASE ~SameSession(s) /\ s \in {NoSession, retiredSessionId}
  <2>1. tx' = Err("SESSION_ID_REUSE") /\ UNCHANGED <<sessionId, retiredSessionId>>
    BY <1>5 DEF HandleHello, session
  <2>2. PortLift' = Port!Halted(PortLift)
    BY <1>2, <2>1, PortHalt
  <2>3. PortLift' = Port!LiftRefused(PortLift, l)
    BY <1>1, <2>2 DEF Port!LiftRefused
  <2>4. Port!MayRefuse(PortLift, l)
    BY <1>1, <1>3, <1>5, ShownFields DEF Port!MayRefuse, Port!LiftAccepts
  <2>5. QED
    BY <2>1, <2>3, <2>4, AnswerNext DEF Port!Refuses, Port!Says, l
<1>6. CASE ~SameSession(s) /\ s \notin {NoSession, retiredSessionId}
  <2>1. /\ tx' = Ack("HELLO") /\ sessionId' = s
        /\ retiredSessionId' = IF sessionId # NoSession THEN sessionId
                               ELSE retiredSessionId
    BY <1>6 DEF HandleHello, sessionActive
  <2>2. ShownMode' = "idle" /\ ShownFault' = ShownFault
    BY <1>2 DEF Halt, NotHoming, ShownMode, ShownFault, homing
  <2>3. ~Port!Current(PortLift, l.session)
    BY <1>1, <1>3, <1>6
  <2>4. PortLift' = Port!LiftAfter(PortLift, l)
    BY <1>1, <1>2, <2>1, <2>2, <2>3, ShownBegins
  <2>5. Port!LiftAccepts(PortLift, l)
    BY <1>1, <1>6, ShownFields DEF Port!LiftAccepts
  <2>6. QED
    BY <1>1, <2>1, <2>4, <2>5, AnswerNext DEF Port!Obeys, Port!Acknowledges, l
<1>7. QED
  BY <1>4, <1>5, <1>6 DEF l

\* A line is obeyed, refused for a reason that the lift has shown, or too late.
PortReads(f) ==
  \/ Port!Obeys(Asked(f))
  \/ Port!Refuses(Asked(f))
  \/ ~SequenceIsNew(f.seq) /\ Port!Ignores

LEMMA PortEnvelope ==
  ASSUME NEW f \in Lines, RefuseEnvelope(f)
  PROVE  PortReads(f)
<1> DEFINE l == Asked(f)
<1>1. /\ l.session = f.session /\ l.command # "HELLO" /\ f.session \in Sessions
  BY AskedLine DEF Envelopes
<1>2. PortLift' = PortLift /\ PortAnswer' = [kind |-> "ERR"]
  BY PortRefuse DEF RefuseEnvelope, session
<1> HIDE DEF l
<1>3. CASE ~(sessionActive /\ f.session = sessionId)
  <2>1. ~Port!Current(PortLift, l.session)
    BY <1>1, <1>3, SessionAssumption, ShownFields DEF Port!Current, sessionActive
  <2>2. Port!MayRefuse(PortLift, l) /\ Port!LiftRefused(PortLift, l) = PortLift
    BY <1>1, <2>1 DEF Port!MayRefuse, Port!LiftAccepts, Port!LiftRefused
  <2>3. QED
    BY <1>2, <2>2 DEF PortReads, Port!Refuses, Port!Says, l
<1>4. CASE sessionActive /\ f.session = sessionId
  BY <1>2, <1>4 DEF PortReads, RefuseEnvelope, ValidEnvelope, Port!Ignores, Port!Says
<1>5. QED
  BY <1>3, <1>4

LEMMA PortAccepted ==
  ASSUME IInv, NEW f \in Lines, HandleLine(f), ValidEnvelope(f)
  PROVE  PortReads(f)
<1> DEFINE l == Asked(f)
<1>1. /\ l.command = f.command /\ l.session = f.session /\ l \in Port!Lines
      /\ f.command \in Envelopes \cup {"SET"}
  BY AskedLine
<1> HIDE DEF l
<1>2. Port!Current(PortLift, l.session)
  BY <1>1, ShownFields DEF Port!Current, ValidEnvelope, sessionActive
<1>3. /\ UNCHANGED <<sessionId, retiredSessionId>>
      /\ HandleHb(f) \/ HandleStatus(f) \/ HandleStop(f) \/ HandleClear(f)
           \/ HandleHome(f) \/ HandleArm(f) \/ HandleSet(f)
  BY DEF HandleLine, RefuseEnvelope
<1>4. ASSUME PortLift' = Port!LiftAfter(PortLift, l), tx' = Ack(f.command),
             Port!LiftAccepts(PortLift, l)
      PROVE  PortReads(f)
  <2>1. PortAnswer' = [kind |-> "ACK", command |-> l.command]
    BY <1>1, <1>4, AnswerNext
  <2>2. Port!Obeys(l)
    BY <1>4, <2>1 DEF Port!Obeys, Port!Acknowledges
  <2>3. QED
    BY <2>2 DEF PortReads, l
<1>5. ASSUME NEW r, Refuse(r), f.command # "CLEAR", f.command # "HELLO",
             Port!MayRefuse(PortLift, l)
      PROVE  PortReads(f)
  <2>1. PortLift' = PortLift /\ PortAnswer' = [kind |-> "ERR"]
    BY <1>3, <1>5, PortRefuse
  <2>2. Port!LiftRefused(PortLift, l) = PortLift
    BY <1>1, <1>5 DEF Port!LiftRefused
  <2>3. Port!Refuses(l)
    BY <1>5, <2>1, <2>2 DEF Port!Refuses, Port!Says
  <2>4. QED
    BY <2>3 DEF PortReads, l
<1>6. CASE HandleHb(f) \/ HandleStatus(f)
  <2>1. /\ f.command \in {"HB", "STATUS"} /\ tx' = Ack(f.command)
        /\ UNCHANGED modes
    BY <1>6 DEF HandleHb, HandleStatus
  <2>2. PortLift' = PortLift
    BY <1>3, <2>1, ShownSame
  <2>3. PortLift' = Port!LiftAfter(PortLift, l) /\ Port!LiftAccepts(PortLift, l)
    BY <1>1, <1>2, <2>1, <2>2 DEF Port!LiftAfter, Port!LiftAccepts
  <2>4. QED
    BY <1>4, <2>1, <2>3
<1>7. CASE HandleStop(f)
  <2>1. f.command = "STOP" /\ tx' = Ack(f.command)
    BY <1>7 DEF HandleStop
  <2>2. PortLift' = Port!Halted(PortLift)
    BY <1>3, <1>7, PortHalt DEF HandleStop
  <2>3. PortLift' = Port!LiftAfter(PortLift, l) /\ Port!LiftAccepts(PortLift, l)
    BY <1>1, <1>2, <2>1, <2>2 DEF Port!LiftAfter, Port!LiftAccepts
  <2>4. QED
    BY <1>4, <2>1, <2>3
<1>8. CASE HandleClear(f)
  <2>1. f.command = "CLEAR" /\ Halt /\ homed' = homed
    BY <1>8 DEF HandleClear
  <2>2. CASE lower /\ upper
    <3>1. tx' = Err("LIMITS_STILL_INVALID") /\ fault' = fault
      BY <1>8, <2>2 DEF HandleClear
    <3>2. PortLift' = Port!Halted(PortLift)
      BY <1>3, <2>1, <3>1, PortHalt
    <3>3. PortLift' = Port!LiftRefused(PortLift, l) /\ Port!MayRefuse(PortLift, l)
      BY <1>1, <1>2, <2>1, <3>2 DEF Port!LiftRefused, Port!MayRefuse
    <3>4. QED
      BY <3>1, <3>3, AnswerNext DEF PortReads, Port!Refuses, Port!Says, l
  <2>3. CASE ~(lower /\ upper)
    <3>1. tx' = Ack("CLEAR") /\ fault' = "NONE"
      BY <1>8, <2>3 DEF HandleClear
    <3>2. ShownFault' = "NONE" /\ ShownMode' = "idle"
      BY <2>1, <3>1 DEF Halt, NotHoming, ShownMode, ShownFault, homing
    <3>3. PortLift' = Port!LiftAfter(PortLift, l)
      BY <1>1, <1>3, <2>1, <3>2, ShownCleared
    <3>4. Port!LiftAccepts(PortLift, l)
      BY <1>1, <1>2, <2>1 DEF Port!LiftAccepts
    <3>5. QED
      BY <1>4, <2>1, <3>1, <3>3, <3>4
  <2>4. QED
    BY <2>2, <2>3
<1>9. CASE HandleHome(f)
  <2>1. f.command = "HOME"
    BY <1>9 DEF HandleHome
  <2>2. CASE fault # "NONE"
    <3>1. Refuse(fault)
      BY <1>9, <2>2 DEF HandleHome
    <3>2. Port!MayRefuse(PortLift, l)
      BY <1>1, <2>1, <2>2, ShownFields, ShownValues DEF Port!MayRefuse, Port!LiftAccepts
    <3>3. QED
      BY <1>5, <2>1, <3>1, <3>2
  <2>3. CASE fault = "NONE"
    <3>1. StartHoming /\ fault' = fault /\ tx' = Ack("HOME")
      BY <1>9, <2>3 DEF HandleHome, Refuse
    <3>2. homed' = FALSE /\ ShownFault' = ShownFault /\ ShownMode' = "homing"
      BY <3>1 DEF StartHoming, ShownFault, ShownMode, homing
    <3>3. PortLift' = Port!LiftAfter(PortLift, l)
      BY <1>1, <1>3, <2>1, <3>2, ShownHoming
    <3>4. Port!LiftAccepts(PortLift, l)
      BY <1>1, <1>2, <2>1, <2>3, ShownFields, ShownValues DEF Port!LiftAccepts
    <3>5. QED
      BY <1>4, <2>1, <3>1, <3>3, <3>4
  <2>4. QED
    BY <2>2, <2>3
<1>10. CASE HandleArm(f)
  <2>1. f.command = "ARM"
    BY <1>10 DEF HandleArm
  <2>2. CASE fault # "NONE" \/ ~homed
    <3>1. \E r : Refuse(r)
      BY <1>10, <2>2 DEF HandleArm
    <3>2. Port!MayRefuse(PortLift, l)
      BY <1>1, <2>1, <2>2, ShownFields, ShownValues DEF Port!MayRefuse, Port!LiftAccepts
    <3>3. QED
      BY <1>5, <2>1, <3>1, <3>2
  <2>3. CASE fault = "NONE" /\ homed
    <3>1. armed' = TRUE /\ UNCHANGED <<fault, homed>> /\ tx' = Ack("ARM")
      BY <1>10, <2>3 DEF HandleArm
    <3>2. ShownFault' = ShownFault /\ ShownMode' = "armed"
      BY <3>1 DEF ShownFault, ShownMode
    <3>3. PortLift' = Port!LiftAfter(PortLift, l)
      BY <1>1, <1>3, <2>1, <3>1, <3>2, ShownArmed
    <3>4. Port!LiftAccepts(PortLift, l)
      BY <1>1, <1>2, <2>1, <2>3, ShownFields, ShownValues DEF Port!LiftAccepts
    <3>5. QED
      BY <1>4, <2>1, <3>1, <3>3, <3>4
  <2>4. QED
    BY <2>2, <2>3
<1>11. CASE HandleSet(f)
  <2>1. f.command = "SET"
    BY <1>11 DEF HandleSet
  <2>2. CASE SetReason(f.position) # "NONE"
    <3>1. Refuse(SetReason(f.position))
      BY <1>11, <2>2 DEF HandleSet
    <3>2. Port!MayRefuse(PortLift, l)
      BY <1>1, <2>1 DEF Port!MayRefuse
    <3>3. QED
      BY <1>5, <2>1, <3>1, <3>2
  <2>3. CASE SetReason(f.position) = "NONE"
    <3>1. UNCHANGED modes /\ tx' = Ack("SET")
      BY <1>11, <2>3 DEF HandleSet
    <3>2. fault = "NONE" /\ armed
      BY <2>3 DEF SetReason
    <3>3. PortLift' = PortLift
      BY <1>3, <3>1, ShownSame
    <3>4. PortLift' = Port!LiftAfter(PortLift, l) /\ Port!LiftAccepts(PortLift, l)
      BY <1>1, <1>2, <2>1, <3>2, <3>3, ShownFields, ShownValues
      DEF Port!LiftAfter, Port!LiftAccepts
    <3>5. QED
      BY <1>4, <2>1, <3>1, <3>4
  <2>4. QED
    BY <2>2, <2>3
<1>12. QED
  BY <1>3, <1>6, <1>7, <1>8, <1>9, <1>10, <1>11

LEMMA PortLine ==
  ASSUME IInv, NEW f \in Lines, HandleLine(f)
  PROVE  PortReads(f)
  BY PortEnvelope, PortAccepted DEF HandleLine, RefuseEnvelope

\* A step without a line that shows no change.
LEMMA PortRests ==
  ASSUME UNCHANGED <<sessionId, retiredSessionId, modes>>,
         tx' \in {Silent, Event("HOME_STARTED"), Event("HOME_COMPLETE")}
  PROVE  Port!Next
  BY ShownSame, AnswerNext DEF Port!Next, Port!Rests, Port!Says

\* A fault of the geometry: a failed homing tells it, the others do not.
LEMMA PortFails ==
  ASSUME IInv, NEW code \in FaultCodes \ {"NONE", "COMM_TIMEOUT"}, LatchFault(code),
         fault = "NONE" \/ code = "BOTH_LIMITS_ACTIVE",
         tx' = Silent \/ (homing /\ tx' = Event(code)),
         UNCHANGED <<sessionId, retiredSessionId>>
  PROVE  Port!Next
<1>1. /\ fault' = code /\ homed' = FALSE /\ armed' = FALSE /\ homingStage' = "NONE"
      /\ homing => fault = "NONE" /\ ~armed
  BY DEF LatchFault, KeepsReference, NotHoming, IInv, TypeOK, ArmedIsSafe
<1>2. ShownFault' = "GEOMETRY" /\ ShownMode' = "idle"
  BY <1>1 DEF ShownFault, ShownMode, homing
<1>3. PortLift' = Port!Failed(PortLift)
  BY <1>1, <1>2, ShownFailed
<1>4. CASE PortLift.fault # "GEOMETRY"
  <2>1. \/ PortAnswer' = [kind |-> "SILENT"]
        \/ PortLift.mode = "homing" /\ PortAnswer' = [kind |-> "FAULT"]
    BY <1>1, AnswerNext, ShownFields, ShownValues
  <2>2. QED
    BY <1>3, <1>4, <2>1 DEF Port!Next, Port!Fails, Port!Says
<1>5. CASE PortLift.fault = "GEOMETRY"
  <2>1. fault \notin {"NONE", "COMM_TIMEOUT"}
    BY <1>5, ShownFields, ShownValues DEF ShownFault
  <2>2. ~homed /\ ~armed /\ ~homing
    BY <2>1 DEF IInv, ArmedIsSafe, GeometryFaultUnhomes
  <2>3. ShownFault' = ShownFault /\ ShownMode' = ShownMode /\ homed' = homed
    BY <1>1, <1>2, <2>1, <2>2 DEF ShownFault, ShownMode, IInv, TypeOK
  <2>4. PortLift' = PortLift
    BY <2>3, ShownNow
  <2>5. tx' = Silent
    BY <2>2
  <2>6. QED
    BY <2>4, <2>5, AnswerNext DEF Port!Next, Port!Rests, Port!Says
<1>6. QED
  BY <1>4, <1>5

LEMMA PortHoming ==
  ASSUME IInv, homing, HomingSwitches, ~(lower /\ upper),
         UNCHANGED <<sessionId, retiredSessionId>>
  PROVE  Port!Next
<1>1. ~armed /\ fault = "NONE"
  BY DEF IInv, ArmedIsSafe
<1>2. CASE Fail("HOMING_RELEASE_FAILED")
  BY <1>1, <1>2, PortFails DEF Fail, FaultCodes
<1>3. CASE CompleteHoming
  <2>1. /\ homed' = TRUE /\ armed' = FALSE /\ homingStage' = "NONE" /\ fault' = fault
        /\ tx' = Event("HOME_COMPLETE")
    BY <1>3 DEF CompleteHoming, NotHoming
  <2>2. ShownFault' = ShownFault /\ ShownMode' = "idle"
    BY <2>1 DEF ShownFault, ShownMode, homing
  <2>3. PortLift' = Port!Referenced(PortLift) /\ PortLift.mode = "homing"
    BY <1>1, <2>1, <2>2, ShownReferenced, ShownFields, ShownValues
  <2>4. QED
    BY <2>1, <2>3, AnswerNext DEF Port!Next, Port!Homes, Port!Says
<1>4. CASE SeekLower
  <2>1. /\ UNCHANGED <<fault, homed, armed>> /\ homing' /\ homing
        /\ tx' = Event("HOME_STARTED")
    BY <1>4 DEF SeekLower, homing
  <2>2. PortLift' = PortLift
    BY <2>1 DEF PortLift
  <2>3. QED
    BY <2>1, <2>2, AnswerNext DEF Port!Next, Port!Rests, Port!Says
<1>5. CASE Stay
  BY <1>5, PortRests DEF Stay
<1>6. QED
  BY <1>2, <1>3, <1>4, <1>5 DEF HomingSwitches

LEMMA PortSwitches == IInv /\ HandleLimitSwitches => Port!Next
<1> SUFFICES ASSUME IInv, HandleLimitSwitches PROVE Port!Next
  OBVIOUS
<1>1. UNCHANGED <<sessionId, retiredSessionId>>
  BY DEF HandleLimitSwitches, session
<1>2. CASE lower /\ upper
  <2>1. LatchFault("BOTH_LIMITS_ACTIVE") /\ tx' = Silent
    BY <1>2 DEF HandleLimitSwitches
  <2>2. QED
    BY <1>1, <2>1, PortFails DEF FaultCodes
<1>3. CASE ~(lower /\ upper) /\ homing
  BY <1>1, <1>3, PortHoming DEF HandleLimitSwitches
<1>4. CASE ~(lower /\ upper) /\ ~homing /\ armed
  <2>1. fault = "NONE" /\ ArmedSwitches
    BY <1>4 DEF HandleLimitSwitches, IInv, ArmedIsSafe
  <2>2. CASE LatchFault("ENDSTOP_POSITION_MISMATCH") /\ tx' = Silent
    BY <1>1, <2>1, <2>2, PortFails DEF FaultCodes
  <2>3. CASE UNCHANGED modes /\ tx' = Silent
    BY <1>1, <2>3, PortRests
  <2>4. QED
    BY <2>1, <2>2, <2>3 DEF ArmedSwitches, ReReference, Stay
<1>5. CASE ~(lower /\ upper) /\ ~homing /\ ~armed
  BY <1>1, <1>5, PortRests DEF HandleLimitSwitches, Stay
<1>6. QED
  BY <1>2, <1>3, <1>4, <1>5

LEMMA PortWatchdog == IInv /\ CheckWatchdog => Port!Next
<1> SUFFICES ASSUME IInv, CheckWatchdog PROVE Port!Next
  OBVIOUS
<1>1. CASE WatchdogExpired
  <2>1. /\ Fail("COMM_TIMEOUT") /\ fault = "NONE"
        /\ retiredSessionId' = sessionId /\ sessionId' = NoSession
    BY <1>1 DEF CheckWatchdog, WatchdogExpired, IInv, ArmedIsSafe
  <2>2. /\ fault' = "COMM_TIMEOUT" /\ homed' = homed /\ armed' = FALSE
        /\ homingStage' = "NONE" /\ tx' = Event("COMM_TIMEOUT")
    BY <1>1, <2>1
    DEF Fail, LatchFault, KeepsReference, NotHoming, WatchdogExpired, IInv, TypeOK,
        ArmedIsSafe
  <2>3. ShownFault' = "COMM_TIMEOUT" /\ ShownMode' = "idle"
    BY <2>2 DEF ShownFault, ShownMode, homing
  <2>4. PortLift' = Port!LapsedLift(PortLift)
    BY <2>1, <2>2, <2>3, ShownLapsed
  <2>5. PortLift.mode # "idle"
    BY <1>1, ShownFields DEF WatchdogExpired, ShownMode
  <2>6. PortAnswer' = [kind |-> "FAULT"]
    BY <2>2, AnswerNext DEF FaultCodes
  <2>7. QED
    BY <2>4, <2>5, <2>6 DEF Port!Next, Port!Lapses, Port!Says
<1>2. CASE ~WatchdogExpired
  BY <1>2, PortRests DEF CheckWatchdog, Stay, session
<1>3. QED
  BY <1>1, <1>2

LEMMA PortMotion == IInv /\ RunMotion => Port!Next
<1> SUFFICES ASSUME IInv, RunMotion PROVE Port!Next
  OBVIOUS
<1>1. UNCHANGED <<sessionId, retiredSessionId>>
  BY DEF RunMotion, session
<1>2. CASE UNCHANGED modes /\ tx' = Silent
  BY <1>1, <1>2, PortRests
<1>3. CASE fault = "NONE" /\ homing /\ HomingMotion
  <2>1. CASE Fail("HOMING_RELEASE_FAILED") \/ Fail("HOMING_TIMEOUT")
    BY <1>1, <1>3, <2>1, PortFails DEF Fail, FaultCodes
  <2>2. QED
    BY <1>2, <1>3, <2>1 DEF HomingMotion, HomingStep
<1>4. QED
  BY <1>2, <1>3 DEF RunMotion, ArmedStep, Stay

LEMMA PortStarts ==
  /\ Init => Port!Init
  /\ Reset => Port!Next
<1>1. ASSUME Init PROVE Port!Init
  <2>1. PortLift \in Port!LiftBoots
    BY <1>1 DEF Init, PortLift, Port!LiftBoots, homing
  <2>2. QED
    BY <1>1, <2>1 DEF Init, Port!Init, Port!Says, PortAnswer, Boot
<1>2. ASSUME Reset PROVE Port!Next
  <2>1. PortLift' \in Port!LiftBoots
    BY <1>2 DEF Reset, NotHoming, PortLift, Port!LiftBoots, homing
  <2>2. QED
    BY <1>2, <2>1, AnswerNext DEF Reset, Port!Next, Port!Resets, Port!Says
<1>3. QED
  BY <1>1, <1>2

LEMMA PortStep == IInv /\ [Next]_vars => [Port!Next]_(Port!contractVars)
<1> SUFFICES ASSUME IInv, [Next]_vars PROVE [Port!Next]_(Port!contractVars)
  OBVIOUS
<1>1. ASSUME NEW s \in Sessions \cup {NoSession}, HandleHello(s) PROVE Port!Next
  <2>1. [command |-> "HELLO", session |-> s] \in Port!Lines
    BY DEF Port!Lines
  <2>2. QED
    BY <1>1, <2>1, PortHello DEF Port!Next
<1>2. ASSUME NEW f \in Lines, HandleLine(f) PROVE Port!Next
  BY <1>2, PortLine, AskedLine DEF PortReads, Port!Next
<1>3. CASE Malformed
  <2>1. PortLift' = PortLift /\ PortAnswer' = [kind |-> "ERR"]
    BY <1>3, PortRefuse DEF Malformed, session
  <2>2. QED
    BY <2>1 DEF Port!Next, Port!Ignores, Port!Says
<1>4. CASE Tick \/ ReadDone
  BY <1>4, PortRests DEF Tick, ReadDone, session
<1>5. CASE UNCHANGED vars
  <2>1. PortLift' = PortLift /\ PortAnswer' = PortAnswer
    BY <1>5 DEF vars, session, modes, PortLift, PortAnswer, homing
  <2>2. QED
    BY <2>1 DEF Port!contractVars
<1>6. QED
  BY <1>1, <1>2, <1>3, <1>4, <1>5, PortSwitches, PortWatchdog, PortMotion, PortStarts
  DEF Next, Loop, Receive

\* The firmware implements LiftContract: whatever a pass, a line or a reset does,
\* the host sees a step that the contract allows, with the answer that belongs to
\* it.  It rests on the invariant: a fault or a lapse finds the lift armed or homing
\* only with a session and without a fault, and a second fault of the geometry
\* finds nothing left to take away.
THEOREM PortImplemented == Spec => ImplementsPort
<1>1. Init => Port!Init
  BY PortStarts
<1>2. QED
  BY <1>1, PortStep, Invariance, PTL DEF Spec, ImplementsPort, Port!Spec

\* Line by line (handleHello(), handleAuthenticatedCommand()): an acknowledged line
\* was acceptable in the state the lift had shown and has its whole effect; an
\* answer ERR means that the line was refused for that state, with no effect but
\* the stop of HELLO and CLEAR, or that its number was not new.
LineByLine ==
  [][/\ \A f \in Lines : HandleLine(f) => PortReads(f)
     /\ \A s \in Sessions \cup {NoSession} :
          HandleHello(s) =>
            LET l == [command |-> "HELLO", session |-> s]
            IN  Port!Obeys(l) \/ Port!Refuses(l)]_vars

THEOREM EveryLine == Spec => LineByLine
<1>1. ASSUME IInv
      PROVE  /\ \A f \in Lines : HandleLine(f) => PortReads(f)
             /\ \A s \in Sessions \cup {NoSession} :
                  HandleHello(s) =>
                    LET l == [command |-> "HELLO", session |-> s]
                    IN  Port!Obeys(l) \/ Port!Refuses(l)
  BY <1>1, PortLine, PortHello
<1>2. QED
  BY <1>1, Invariance, PTL DEF LineByLine

=============================================================================
