----------------------------- MODULE RobotLinks -----------------------------
(***************************************************************************)
(* The plug-in with both of its links: SerialHost, and behind each port    *)
(* a drive and a lift that keep DriveContract and LiftContract, as the two *)
(* firmwares do: every change of base and lift is one that DrivePort and   *)
(* LiftPort allow.  Lines are damaged, ports break and devices reset, as   *)
(* often as MaxFailures allows, and so does an answer come too late.  A    *)
(* wait for what cannot come any more always ends.                         *)
(***************************************************************************)
EXTENDS SerialHost, DrivePort

INSTANCE LiftPort

CONSTANTS
  Failures,      \* the failures considered, of the kinds below
  FailStages,    \* and the stages of the plug-in in which they happen
  MaxFailures    \* bound: how many of them happen, software E-stops not counted

ASSUME FailureAssumption ==
  /\ Failures \subseteq {"reset", "damage_out", "damage_in", "break", "late", "estop"}
  /\ FailStages \subseteq Stages /\ MaxFailures \in Nat

VARIABLES
  base,       \* the drive, as in DrivePort, with what its telemetry counts
  lift,       \* the lift, as in LiftPort
  failures

vars == <<host, base, lift, failures>>

\* BaseOff, with the damaged lines and the restarts counted.
BaseBoot == [enabled |-> FALSE, fault |-> {}, moving |-> FALSE,
             fresh |-> FALSE, errors |-> 0, restarts |-> 0]

\* Lines from the devices.
Reply(kind, l) ==
  [kind |-> kind, awaited |-> l.awaited, session |-> l.session]
State(session, state) ==
  [kind |-> "STATE", awaited |-> FALSE, session |-> session, state |-> state]
Plain(kind) == [kind |-> kind, awaited |-> FALSE, session |-> NoSession]

\* A line reaches the plug-in if its port is open.
Emit(d, l) ==
  inbox' = IF port[d] = "open" THEN [inbox EXCEPT ![d] = Append(@, l)] ELSE inbox

\* The device reads its next line.
Reads(d) == d \in Links /\ outbox[d] # <<>> /\ Len(inbox[d]) < MaxLines
Consume(d) == outbox' = [outbox EXCEPT ![d] = Tail(@)]

\* An ACK that nobody waits for, in the right session, is left out.
Respond(d, ok, l) ==
  IF ok /\ ~l.awaited /\ (d = "lift" => l.session = lift_session)
  THEN UNCHANGED inbox
  ELSE Emit(d, Reply(IF ~ok THEN "NO"
                     ELSE IF l.command = "HELLO" THEN "HELLO" ELSE "OK", l))

-----------------------------------------------------------------------------
(* The base drive.                                                         *)

BaseReads ==
  /\ Reads("base")
  /\ LET l == Head(outbox["base"])
         ok == BaseAccepts(base, l.command) IN
     /\ base' = IF ok THEN BaseAfter(base, l.command) ELSE base
     /\ Respond("base", ok, l)
     /\ stop_lost' = [stop_lost EXCEPT
          !["base"] = @ /\ ~(l.command = "DISABLE" /\ Len(outbox["base"]) = 1)]
  /\ Consume("base")
  /\ UNCHANGED <<control, port, seen, lift, failures>>

\* The last CMD gets old; the watchdog stops an enabled drive, and cuts it.
BaseAges ==
  /\ base.fresh
  /\ base' = Aged(base)
  /\ UNCHANGED <<host, lift, failures>>

BaseLapses ==
  /\ base.enabled /\ ~base.fresh
  /\ \E still_enabled \in BOOLEAN : base' = Lapsed(base, still_enabled)
  /\ UNCHANGED <<host, lift, failures>>

\* After a wrap of millis() an old CMD looks new.
BaseWraps ==
  /\ ~base.enabled /\ ~base.fresh
  /\ base' = Wrapped(base)
  /\ UNCHANGED <<host, lift, failures>>

\* Telemetry; one STATE is on its way at a time.
NoStateIn(d) == \A i \in DOMAIN inbox[d] : inbox[d][i].kind # "STATE"
Reports(d) ==
  /\ d \in Links /\ port[d] = "open"
  /\ Len(inbox[d]) < MaxLines /\ NoStateIn(d)

BaseReports ==
  /\ Reports("base")
  /\ Emit("base", State(NoSession, [enabled |-> base.enabled, fault |-> base.fault,
                                    errors |-> base.errors,
                                    restarts |-> base.restarts]))
  /\ UNCHANGED <<control, port, outbox, seen, stop_lost, base, lift, failures>>

\* An operator latches the software E-stop with another tool while the port is
\* closed: the port is claimed exclusively, and its line comes behind the others.
EstopByHand ==
  /\ "estop" \in Failures /\ stage = "closed" /\ outbox["base"] = <<>>
  /\ "SOFTWARE_ESTOP" \notin base.fault
  /\ base' = BaseAfter(base, "ESTOP")
  /\ UNCHANGED <<host, lift, failures>>

-----------------------------------------------------------------------------
(* The lift.                                                               *)

LiftReads ==
  /\ Reads("lift")
  /\ LET l == Head(outbox["lift"]) IN
     \E ok \in BOOLEAN :
       /\ IF ok THEN LiftAccepts(lift, l) ELSE MayRefuse(lift, l)
       /\ lift' = IF ok THEN LiftAfter(lift, l) ELSE LiftRefused(lift, l)
       /\ Respond("lift", ok, l)
       /\ stop_lost' = [stop_lost EXCEPT
            !["lift"] = @ /\ ~(/\ ok /\ l.command \in {"STOP", "HELLO"}
                               /\ Len(outbox["lift"]) = 1)]
  /\ Consume("lift")
  /\ UNCHANGED <<control, port, seen, base, failures>>

\* The watchdog: COMM_TIMEOUT, and the session is retired.
LiftLapses ==
  /\ lift.mode # "idle"
  /\ lift' = LapsedLift(lift)
  /\ Emit("lift", Plain("BAD"))
  /\ UNCHANGED <<control, port, outbox, seen, stop_lost, base, failures>>

LiftHomed ==
  /\ lift.mode = "homing"
  /\ lift' = Referenced(lift)
  /\ UNCHANGED <<host, base, failures>>

\* A homing fails, or an endstop is active where it cannot be; only the homing
\* tells the plug-in by an EVENT.
LiftFails ==
  /\ lift.fault # "GEOMETRY"
  /\ lift' = Failed(lift)
  /\ \/ lift.mode = "homing" /\ Emit("lift", Plain("BAD"))
     \/ UNCHANGED inbox
  /\ UNCHANGED <<control, port, outbox, seen, stop_lost, base, failures>>

LiftReports ==
  /\ Reports("lift")
  /\ Emit("lift", State(lift.session, [fault |-> lift.fault, homed |-> lift.homed,
                                       armed |-> lift.mode = "armed"]))
  /\ UNCHANGED <<control, port, outbox, seen, stop_lost, base, lift, failures>>

-----------------------------------------------------------------------------
(* Failures.                                                               *)

Failure(kind) ==
  /\ kind \in Failures /\ stage \in FailStages /\ failures < MaxFailures
  /\ failures' = failures + 1

\* A device resets; what it had not read is lost, and it greets.
Resets(d) ==
  /\ Failure("reset")
  /\ d \in Links
  /\ base' = IF d = "base" THEN [BaseBoot EXCEPT !.restarts = base.restarts + 1]
             ELSE base
  /\ IF d = "lift" THEN lift' \in LiftBoots ELSE UNCHANGED lift
  /\ outbox' = [outbox EXCEPT ![d] = <<>>]
  /\ stop_lost' = [stop_lost EXCEPT ![d] = FALSE]
  /\ Emit(d, Plain("BOOT"))
  /\ UNCHANGED <<control, port, seen>>

\* A line to a device is damaged: the base counts it, the lift answers ERR.
DamageOut(d) ==
  /\ Failure("damage_out")
  /\ d \in Links /\ outbox[d] # <<>>
  /\ Consume(d)
  /\ base' = IF d = "base" THEN [base EXCEPT !.errors = @ + 1] ELSE base
  /\ IF d = "lift" THEN Emit(d, Plain("NO")) ELSE UNCHANGED inbox
  /\ stop_lost' = [stop_lost EXCEPT
       ![d] = @ \/ Head(outbox[d]).command \in {"DISABLE", "STOP"}]
  /\ UNCHANGED <<control, port, seen, lift>>

\* A line to the plug-in is damaged.
DamageIn(d) ==
  /\ Failure("damage_in")
  /\ d \in Links /\ inbox[d] # <<>>
  /\ inbox' = [inbox EXCEPT ![d] = <<Plain("BAD")>> \o Tail(@)]
  /\ UNCHANGED <<control, port, outbox, seen, stop_lost, base, lift>>

\* A port breaks until it is opened again.
Breaks(d) ==
  /\ Failure("break")
  /\ d \in Links /\ port[d] = "open"
  /\ port' = [port EXCEPT ![d] = "broken"]
  /\ UNCHANGED <<control, outbox, inbox, seen, stop_lost, base, lift>>

\* What is waited for cannot come any more: the request or its answer is lost,
\* or the device is in another state than the STATE that is waited for.
AwaitedOn(d) ==
  \/ \E i \in DOMAIN outbox[d] : outbox[d][i].awaited
  \/ \E i \in DOMAIN inbox[d] : inbox[d][i].awaited
CannotCome ==
  \/ stage \in DOMAIN Request /\ ~AwaitedOn(Request[stage].to)
  \/ stage = "lift_seen" /\ lift.session # lift_session
  \/ stage = "cleared" /\ base.fault # {}
  \/ stage = "enabled" /\ (base.fault # {} \/ ~base.enabled)
  \/ stage = "lift_cleared" /\ lift.fault # "NONE"
  \/ stage = "homing" /\ lift.mode # "homing" /\ ~lift.homed
  \/ stage = "armed" /\ lift.mode # "armed"

\* So the wait runs into its limit.
Expires == CannotCome /\ answer = "none" /\ AllRead /\ ~Done /\ TimeOut

\* The device, or the line, is too slow for a wait of the plug-in.
Late == Failure("late") /\ TimeOut /\ UNCHANGED <<base, lift>>

-----------------------------------------------------------------------------
Init ==
  /\ HostInit
  /\ base = BaseBoot /\ lift \in LiftBoots /\ failures = 0

\* The sessions the lift knows, or will read of.
InUse ==
  {lift.session, lift.retired}
    \cup UNION {{outbox[d][i].session : i \in DOMAIN outbox[d]} : d \in Links \ {"base"}}

\* Opening the ports starts a new session, with a number that is not in use (32 bits
\* of the clock and of a random device).
Open ==
  /\ \E s \in Sessions \ InUse : Configure(s)
  /\ UNCHANGED <<base, lift, failures>>

Pump == \E d \in Links : Take(d) \/ PortFails(d)
Call == Activate \/ Deactivate \/ Cleanup
Check == Proceed \/ CannotProceed \/ ReadDone \/ Expires
Host == (Pump \/ Call \/ Check \/ Write) /\ UNCHANGED <<base, lift, failures>>

BaseStep ==
  BaseReads \/ BaseAges \/ BaseLapses \/ BaseWraps \/ BaseReports \/ EstopByHand
LiftStep == LiftReads \/ LiftLapses \/ LiftHomed \/ LiftFails \/ LiftReports
Fault ==
  \E d \in Links : Resets(d) \/ DamageOut(d) \/ DamageIn(d) \/ Breaks(d)

Next == Open \/ Host \/ BaseStep \/ LiftStep \/ Fault \/ Late

Spec == Init /\ [][Next]_vars

\* The plug-in pumps while it waits or reads and finishes the calls it is in; the
\* devices run loop(), in which telemetry does not keep them from reading.  A
\* lapsed lease is only certain where nobody renews it.
Idle == ~active /\ stage \notin Activation
Fairness ==
  /\ WF_vars(Pump /\ UNCHANGED <<base, lift, failures>>)
  /\ WF_vars(Write /\ UNCHANGED <<base, lift, failures>>)
  /\ SF_vars(Check /\ UNCHANGED <<base, lift, failures>>)
  /\ SF_vars(BaseReads) /\ WF_vars(BaseReports)
  /\ WF_vars(Idle /\ (BaseAges \/ BaseLapses))
  /\ SF_vars(LiftReads) /\ WF_vars(LiftReports) /\ WF_vars(Idle /\ LiftLapses)

\* The lines come more slowly than they are read: 20 and 25 STATEs a second.
LinesComeSlowly == []<>AllRead

FairSpec == Spec /\ Fairness /\ LinesComeSlowly

-----------------------------------------------------------------------------
(* Properties.                                                             *)

\* Every part has its type, active_ belongs to the stages of a running plug-in,
\* and the ports are closed between cleanup() and configure().
TypeOK ==
  /\ stage \in Stages /\ active \in BOOLEAN /\ fatal \in BOOLEAN
  /\ attempts \in 0..StartAttempts + 1 /\ answer \in {"none", "ok", "no"}
  /\ hello_acked \in BOOLEAN /\ lift_session \in Sessions \cup {NoSession}
  /\ active => stage \in {"reading", "writing"}
  /\ \A d \in Links :
       /\ port[d] \in {"closed", "open", "broken"} /\ stop_lost[d] \in BOOLEAN
       /\ port[d] = "closed" <=> stage = "closed"
       /\ stage = "closed" => inbox[d] = <<>>
  /\ base.enabled \in BOOLEAN /\ base.moving \in BOOLEAN /\ base.fresh \in BOOLEAN
  /\ base.fault \subseteq {"COMMAND_TIMEOUT", "SOFTWARE_ESTOP"}
  /\ base.errors \in 0..MaxFailures /\ base.restarts \in 0..MaxFailures
  /\ {lift.session, lift.retired} \subseteq Sessions \cup {NoSession}
  /\ lift.homed \in BOOLEAN
  /\ lift.fault \in {"NONE", "COMM_TIMEOUT", "GEOMETRY"}
  /\ lift.mode \in {"idle", "homing", "armed"}
  /\ failures \in 0..MaxFailures

\* A stop is on its way to the device.
StopComing(d) ==
  \E i \in DOMAIN outbox[d] : outbox[d][i].command \in {"DISABLE", "STOP"}

\* Whenever the plug-in is not active, the drive is neither commanded to move nor
\* left enabled beyond an activation, or a DISABLE is on its way: no error path,
\* late line, restart or retry leaves a drive running that nobody stops.  Only a
\* DISABLE that the link itself lost is excused, until the next one.
DriveHeld ==
  \/ active \/ stop_lost["base"] \/ StopComing("base")
  \/ ~base.moving /\ (base.enabled => stage \in Activation)

\* The same of the lift, which moves or is armed on behalf of an activation.
LiftHeld ==
  "lift" \in Links =>
    \/ active \/ stage \in Activation
    \/ stop_lost["lift"] \/ StopComing("lift") \/ lift.mode = "idle"

\* The base remains disabled while the lift homes, whatever was still on its way
\* from an activation before (comment in activate()).
HomingWithBaseDisabled == lift.mode = "homing" => ~base.enabled

\* A software E-stop only goes away when the base restarts: no activation clears
\* it, however old the telemetry the plug-in decides by (real_hardware.md).
EstopNeedsOperator ==
  [][ "SOFTWARE_ESTOP" \in base.fault =>
        "SOFTWARE_ESTOP" \in base.fault' \/ base'.restarts > base.restarts ]_vars

\* When the lift loses its arming, by a lapsed lease or a fault, or the base latches
\* a fault, the plug-in becomes inactive and both devices are stopped.
FaultStopsBoth ==
  ("lift" \in Links /\ active /\ (lift.mode # "armed" \/ base.fault # {}))
    ~> (~active /\ ~base.moving /\ lift.mode # "armed")

\* Claimed by the comment in configure() and by the lift's PROTOCOL.md: with both
\* firmwares answering, the start succeeds, whichever session the lift is in.
HealthyStartSucceeds ==
  [][(stage \in Startup /\ lift.mode = "idle") => stage' # "closed"]_vars
=============================================================================
