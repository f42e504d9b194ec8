----------------------------- MODULE LiftBridge -----------------------------
(***************************************************************************)
(* The ROS node esp32_imu_bridge between /lift/home,                       *)
(* /lift_controller/commands and the ESP32, of which it needs what         *)
(* LiftDevice promises.  The node is single-threaded: every callback is    *)
(* one step.                                                               *)
(*                                                                         *)
(* Abstractions.  The serial port is a queue of lines each way; pending    *)
(* holds those the ESP32 has not read and those it has not obeyed.  A line *)
(* can be damaged, which makes its reader drop it, and the port can break. *)
(* The node's monotonic times are kept as what is asked of them: more than *)
(* 0.4 s since the last lift command (quiet), more than 61 s since HOME    *)
(* (home_expired).  The snapshot between the cores is a few milliseconds   *)
(* old, less than a frame is on its way, and is left out.  So are the IMU  *)
(* records and what is only published.                                     *)
(***************************************************************************)
EXTENDS LiftDevice

CONSTANTS
  MaxLines,  \* bound: commands on the way before one more is written
  MaxFrames  \* bound: frames on the way before one more is published

ASSUME LiftBridgeAssumption == MaxLines \in Nat \ {0} /\ MaxFrames \in Nat \ {0}

VARIABLES
  port,               \* serial_port: "open" or "closed"
  tx,                 \* LIFT frames the node has not read
  home_active,        \* lift_home_active
  home_seen_running,  \* lift_home_seen_running
  home_expired,
  lift_homed,
  quiet_required,     \* lift_command_quiet_required
  quiet,
  old_stream          \* history: the lift commands now coming without a pause
                      \* began before the node knew of the reference

home == <<home_active, home_seen_running, home_expired>>
node == <<home, lift_homed, quiet_required, quiet, old_stream>>
vars == <<deviceVars, port, tx, node>>

BridgeInit ==
  /\ Init
  /\ port = "closed" /\ tx = <<>>
  /\ home_active = FALSE /\ home_seen_running = FALSE /\ home_expired = FALSE
  /\ lift_homed = FALSE /\ quiet_required = TRUE /\ quiet = TRUE
  /\ old_stream = FALSE

NodeRuns == UNCHANGED state
DeviceRuns == UNCHANGED <<port, node>>

\* send_serial_line(), the port being open.
SendSerialLine(kind) ==
  /\ port = "open" /\ Len(pending) < MaxLines
  /\ pending' = Append(pending, kind)

-----------------------------------------------------------------------------
(* The node.                                                               *)

\* try_connect(): what was received before is thrown away.
TryConnect ==
  /\ port = "closed" /\ port' = "open"
  /\ tx' = <<>>
  /\ NodeRuns /\ UNCHANGED <<pending, node>>

CloseSerial ==
  /\ port' = "closed" /\ tx' = <<>>
  /\ home_active' = FALSE /\ home_seen_running' = FALSE /\ home_expired' = FALSE
  /\ lift_homed' = FALSE /\ quiet_required' = TRUE
  /\ UNCHANGED <<quiet, old_stream>>

\* A read or a write fails; of what was written the end may be lost.
PortFails ==
  /\ port = "open"
  /\ CloseSerial
  /\ \E n \in 0..Len(pending) : pending' = SubSeq(pending, 1, n)
  /\ NodeRuns

\* send_lift_heartbeat(), every 0.1 s.
SendLiftHeartbeat ==
  /\ \/ home_active /\ SendSerialLine("HB")
     \/ ~home_active /\ UNCHANGED pending
  /\ quiet_required' = (quiet_required /\ ~(lift_homed /\ quiet))
  /\ NodeRuns /\ UNCHANGED <<port, tx, home, lift_homed, quiet, old_stream>>

LiftHome ==
  /\ SendSerialLine("HOME")
  /\ home_active' = TRUE /\ home_seen_running' = FALSE /\ home_expired' = FALSE
  /\ NodeRuns
  /\ UNCHANGED <<port, tx, lift_homed, quiet_required, quiet, old_stream>>

\* lift_command_callback(), in range or not: a refused command ends the quiet too.
LiftCommand(in_range) ==
  /\ quiet' = FALSE
  /\ old_stream' = (old_stream \/ ~lift_homed)
  /\ IF in_range /\ lift_homed /\ ~quiet_required
     THEN SendSerialLine("SET") ELSE UNCHANGED pending
  /\ NodeRuns /\ UNCHANGED <<port, tx, home, lift_homed, quiet_required>>

\* (Mutant: only what was seen ends a HOME.)
HomeOverWhenSeen(f) ==
  \/ Homed(f) /\ f.lower
  \/ home_seen_running' /\ f.mode # "HOMING"

\* A HOME is over on the switch, when it was seen to run and does not any more,
\* and when it has failed or takes too long.
HomeOver(f) ==
  \/ Homed(f) /\ f.lower
  \/ home_seen_running' /\ f.mode # "HOMING"
  \/ home_expired \/ f.mode = "FAULT"

\* (Mutants: a reference once seen is believed for ever; or it is no reason to
\* wait for a pause.)
ReadFrameOnceHomed(f) ==
  /\ lift_homed' = (lift_homed \/ Homed(f))
  /\ quiet_required' = (quiet_required \/ (Homed(f) /\ ~lift_homed))
  /\ home_seen_running' = (home_seen_running \/ f.mode = "HOMING")
  /\ home_active' = (home_active /\ ~HomeOver(f))
  /\ old_stream' = (old_stream \/ (Homed(f) /\ ~lift_homed /\ ~quiet))
  /\ UNCHANGED <<home_expired, quiet>>
ReadFrameAtOnce(f) ==
  /\ lift_homed' = Homed(f)
  /\ home_seen_running' = (home_seen_running \/ f.mode = "HOMING")
  /\ home_active' = (home_active /\ ~HomeOver(f))
  /\ old_stream' = (old_stream \/ (Homed(f) /\ ~lift_homed /\ ~quiet))
  /\ UNCHANGED <<home_expired, quiet, quiet_required>>

\* publish_lift_frame()
ReadFrame(f) ==
  /\ lift_homed' = Homed(f)
  /\ quiet_required' = (quiet_required \/ (Homed(f) /\ ~lift_homed))
  /\ home_seen_running' = (home_seen_running \/ f.mode = "HOMING")
  /\ home_active' = (home_active /\ ~HomeOver(f))
  /\ old_stream' = (old_stream \/ (Homed(f) /\ ~lift_homed /\ ~quiet))
  /\ UNCHANGED <<home_expired, quiet>>

\* handle_line() of a LIFT line, which parse_lift_frame() may refuse.
ReceiveFrame ==
  /\ port = "open" /\ tx # <<>> /\ tx' = Tail(tx)
  /\ \/ ~Head(tx).fits /\ UNCHANGED node
     \/ Head(tx).fits /\ ReadFrame(Head(tx))
  /\ NodeRuns /\ UNCHANGED <<pending, port>>

-----------------------------------------------------------------------------
(* The ESP32, the link and the time.                                       *)

\* publishLiftTelemetry() after updateLiftSnapshot().
PublishLiftTelemetry ==
  /\ port = "open" /\ Len(tx) < MaxFrames
  /\ tx' = Append(tx, state)
  /\ DeviceRuns /\ UNCHANGED deviceVars

LiftObeys == Obey /\ DeviceRuns /\ UNCHANGED tx
LiftRuns == Run /\ DeviceRuns /\ UNCHANGED tx
DeviceResets == Reset /\ DeviceRuns /\ UNCHANGED tx

\* A serial monitor, while the node does not hold the port.
Console(kind) ==
  /\ port = "closed" /\ Len(pending) < MaxLines
  /\ pending' = Append(pending, kind)
  /\ NodeRuns /\ UNCHANGED <<port, tx, node>>

\* Damaged on the wire, or lost in a full queue of the ESP32.
LineLost ==
  /\ \/ pending # <<>> /\ pending' = Tail(pending) /\ UNCHANGED tx
     \/ tx # <<>> /\ tx' = Tail(tx) /\ UNCHANGED pending
  /\ NodeRuns /\ UNCHANGED <<port, node>>

GoQuiet ==
  /\ quiet' = TRUE /\ old_stream' = FALSE
  /\ NodeRuns /\ UNCHANGED <<pending, port, tx, home, lift_homed, quiet_required>>

HomeTakesTooLong ==
  /\ home_active /\ home_expired' = TRUE
  /\ NodeRuns
  /\ UNCHANGED <<pending, port, tx, home_active, home_seen_running, lift_homed,
                 quiet_required, quiet, old_stream>>

Device == PublishLiftTelemetry \/ LiftObeys \/ LiftRuns
Node == TryConnect \/ SendLiftHeartbeat \/ ReceiveFrame
Users == LiftHome \/ \E in_range \in BOOLEAN : LiftCommand(in_range)
Faults ==
  \/ PortFails \/ DeviceResets \/ LineLost
  \/ \E kind \in Kinds : Console(kind)
Time == GoQuiet \/ HomeTakesTooLong

BridgeNext == Device \/ Node \/ Users \/ Faults \/ Time

BridgeSpec == BridgeInit /\ [][BridgeNext]_vars

\* The ESP32 reads, obeys and reports; the timers of the node fire, that of the
\* heartbeat four times in a pause of the commands; its clock goes
\* on.  Nothing is asked of the users, the link and the homing.
BridgeFairSpec ==
  /\ BridgeSpec
  /\ WF_vars(LiftObeys) /\ WF_vars(PublishLiftTelemetry)
  /\ WF_vars(TryConnect) /\ SF_vars(SendLiftHeartbeat) /\ WF_vars(ReceiveFrame)
  /\ WF_vars(HomeTakesTooLong /\ ~home_expired)

-----------------------------------------------------------------------------
(* Correctness.                                                            *)

\* Every variable has its type.
BridgeTypeOK ==
  /\ pending \in Seq(Kinds) /\ Len(pending) <= MaxLines
  /\ state \in States
  /\ port \in {"open", "closed"} /\ tx \in Seq(States) /\ Len(tx) <= MaxFrames
  /\ home_active \in BOOLEAN /\ home_seen_running \in BOOLEAN
  /\ home_expired \in BOOLEAN /\ lift_homed \in BOOLEAN
  /\ quiet_required \in BOOLEAN /\ quiet \in BOOLEAN /\ old_stream \in BOOLEAN

\* Nothing known of the lift outlives its connection: a closed port means no
\* reference, no HOME to keep alive, and a pause before the next target.
ClosedKnowsNothing ==
  port = "closed" => ~lift_homed /\ ~home_active /\ quiet_required

\* A target is not forwarded from a stream of commands that began before the node
\* knew of the reference, however frames, timers, lost connections and the
\* commands interleave ("Ignoring stale lift target until publisher goes quiet",
\* esp32_bridge.py:189).
SetSent == pending' = Append(pending, "SET") /\ port = "open"
StaleTargetsHeld == [][old_stream => ~SetSent]_vars

\* From some time on nobody asks for HOME, nothing fails, and the frames of the
\* lift can be read.
Working == Device \/ Node \/ Time \/ \E in_range \in BOOLEAN : LiftCommand(in_range)
Calm == <>[][Working]_vars
Readable == <>[](state.fits /\ \A i \in DOMAIN tx : tx[i].fits)

\* A HOME is always over in the end, so the heartbeats end and do not keep a
\* later homing alive: after a success, a fault, a homing nobody saw and a HOME
\* that was lost on the way.
HomeIsForgotten == Calm /\ Readable => <>[]~home_active

\* The node learns whether the lift has its reference.
NodeLearns ==
  Calm /\ Readable =>
    /\ <>[]Homed(state) => <>[]lift_homed
    /\ <>[]~Homed(state) => <>[]~lift_homed

=============================================================================
