# TLA+ models of tai_robot_one

`tai_robot_one` is a mobile robot: four driven wheels, a lift, a laser scanner and Nav2 on
a ROS 2 computer, with the motors behind ESP32 boards on serial ports.  This directory holds
TLA+ models of its motion-control software, the TLC configurations that check them, and
proofs about them that TLAPS checks.  Source paths below are relative to `src/`.

    tlc -config drive_lease.cfg MCDriveFirmware     # model-check one instance
    tlapm DriveFirmwareProofs.tla                   # check the proofs of one module

`PROJECT.json` is the machine-readable index: the components, the runs, for every property a
plausible bug that breaks it, the source lines of every definition, the hazards of the code
and the properties aimed at them, the findings and the theorems.

## 1. Inventory

    phone / keyboard / CM029      AMCL, Nav2, forward-route search, spin node,
      teleop, stamper               SafeRotationRPP
             \ /cmd_vel, then cmd_vel_stamper, one publisher at a time
              v                       v
           ros2_control: mecanum controller, lift trajectory controller
                              | interfaces, one thread, read() -> update() -> write()
                  TaiRobotSerialSystem (plug-in, owns both ports)
                 | serial, $..*crc lines           | serial, LIFT1,.. lines
        amr_firmware (base drive)       cang_nang_ha (stand-alone lift)

        esp32_imu_bridge  <- serial ->  bno055_imu_monitor (IMU and lift, two cores)

| Component | State it keeps | Operations | What is hard |
|---|---|---|---|
| Base drive, `amr_firmware/src/main.cpp` | targets, ramps, outputs of four wheels; enable, soft-stop and fault latches; age and sequence of the last CMD | CMD, PING, DISABLE, ESTOP, CLEAR, ENABLE; command watchdog; ramp and PID every 20 ms; telemetry; reset | two time-outs race with late CMDs; `millis()` wraps; orders of latching commands; resets |
| Stand-alone lift, `cang_nang_ha/src/main.cpp` | session and retired session, sequence number; fault, homed, armed, homing stage; stepper position, target and speed | HELLO, HB, STATUS, STOP, CLEAR, HOME, ARM, SET; debounced endstops; watchdog; motion step; reset | a session protocol under replay; homing stages with limits; switches that lie; a stepper that cannot stop at once |
| Serial plug-in, `ros2_ws/src/tai_robot_serial_system.cpp` | life-cycle state, `active_`, last STATE of each device, request being waited for, two open ports | configure, activate, deactivate, cleanup, on_error; read, write; the pumps of both ports | many error paths that must all stop both devices; stale telemetry; retries; two devices that fail independently |
| Combined firmware, `bno055_imu_monitor/src/main.cpp` | a command queue between two cores, the lift state machine, the IMU fault latch | serial task, motion task, IMU recovery | cross-core interleaving, a full queue, a blocking IMU start |
| IMU/lift bridge, `esp32_imu_bridge/esp32_bridge.py` | homed, moving and fault flags, boot and sequence counters, target, heartbeat | topics to lines, lines to topics, reconnection | decisions by telemetry older than the command |
| Teleoperation, `ros2_ws/scripts/{cm029,phone,keyboard}_teleop*`, `cmd_vel_stamper` | armed flag, last input time, pending stop, publisher conflicts | arm, drive, stop, watchdog tick | threads; a stop that a drive request overtakes; two publishers of one topic |
| Pose persistence, `ros2_ws/scripts/amcl_pose_persistence` | pose in memory, file, time from which saving is allowed | save, flush at exit, restore once | crash between two saves; restore before AMCL listens |
| Forward-route search, `ros2_ws/src/path_footprint_clear_bt_node.cpp` and its headers | candidates, deadline, cached status; the memory of the escape (attempts, region, commitment, flags), shared by the conditions of the tree | tick, plan, validate, execute, halt; the conditions of the local escape and the tree that orders them | a search over many ticks pre-empted by a new goal; flags of an earlier attempt; retries that never end |
| Spin node, `compute_opposite_spin_bt_node.cpp` | the angle of the last recovery | tick | memory across recoveries |
| SafeRotationRPP, `safe_rotation_rpp.cpp` | committed rotation, turn budget and its anchor, plan | setPlan, computeVelocityCommands, reset | a commitment that outlives what it was checked against; a budget that a replan erases; a limit told late over a topic |

Shared state and communication.  The ESP32 firmwares of the drive and of the stand-alone lift
are single loops without interrupts that share data; everything concurrent about them is in
the serial link and in the wrap of their clocks.  The plug-in runs in the one thread of the
controller manager; `read()` and `write()` alternate and the life-cycle calls run between two
cycles.  The combined firmware has two cores and a queue, the teleop servers have threads.

What makes each component correct:

- drive: motion is on loan from the host; a disabled or E-stopped drive is still; a lapsed
  lease ends in a stop that only a deliberate restart ends;
- lift: it moves only referenced or homing, in a live session, within its travel, never on a
  replayed line or to a target that its own session has not set, and a homing always ends;
- plug-in: whatever fails, both devices are stopped or will be stopped; homing happens with
  the base disabled; it never clears a software E-stop; a healthy robot starts;
- combined firmware: the reference and the mode agree in any order of commands on two cores,
  motion does not outlive the commands even when the queue loses a STOP, and an IMU that has
  worked is not calibrated anew;
- bridge: no stale target is forwarded, a HOME is over in the end, the node learns the truth;
- teleoperation: a stop is not forgotten, nothing unlocks by itself, letting go stops the base,
  and two publishers stop each other;
- persistence: the restored pose is one that was saved whole, never older than the last flush;
- navigation: the route followed is for the goal that is current, no arrival is false, no fault
  leads into reverse motion, the robot turns no farther than its budget, and comes to rest.

Not in the inventory above, because they keep no state of the robot's own protocol: the PID
class, the PID tuner, the simulation, the sensor filters and displays, the robot test scripts
(all listed with their reason in `PROJECT.json`), and the two vendored drivers
`ros2_astra_camera` and `sllidar_ros2`.

## 2. Plan

The order of work, most important behaviour first.  All six steps are done, as far as section 8
says.

1. `DriveFirmware`, with the two specifications it implements, `DriveLease` and `DriveContract`
   (made of `DrivePort`), and `DriveFirmwareProofs`.
2. `LiftFirmware`, with `LiftContract` (made of `LiftPort`), which it implements, and
   `LiftFirmwareProofs`.
3. `SerialHost` (the plug-in alone), `RobotLinks`, which composes it with any drive and lift that
   keep `DrivePort` and `LiftPort`, and with the failures of lines, ports and devices, and
   `RobotLinksProofs`.
4. `LiftDevice`, what the lift of the combined ESP32 promises; `CombinedLift`, which implements
   it; `LiftBridge`, which is composed with it over a link that loses lines; and the proofs.
5. `CommandArbitration`, the topic `/cmd_vel` and the node behind it; `Teleop`, which extends it
   with the three programs of the operator; `TeleopProofs`.
6. `EscapeTree` and `RouteControl`, the two halves of the navigation tree, and their proofs.

What is left, in this order: the composition of `RouteControl` with `EscapeTree`; the tracking
half of SafeRotationRPP.

## 3. The modules and the code

### DriveFirmware (`esp32_firmware/Projects/amr_firmware/src/main.cpp`)

One pass of `loop()` is a sequence of steps, told apart by `pc`: `Tick` samples `millis()`,
`ProcessLine(f)` handles one received line (any number of them, `ReadDone` ends the reading),
`UpdateCommandWatchdog`, `UpdateMotorControl`, `SendTelemetry`.  `Reset` may happen anywhere.
`ProcessLine` has one disjunct per way a line is refused and one per command, in the order of
the code; the reply is in `tx`.

- A speed is an integer, `ZeroTolerance` is the code's 0.001 rad/s; the requested speed and
  the ramp have the same unit.
- `command_age` is `now_ms - last_command_ms` and wraps at `MillisModulus`, as the unsigned
  subtraction does; `silence` is history: the real time since the last CMD.
- `VelocityPid` may answer any duty cycle of its range: encoders are the environment.

`DriveLease` is what the drive promises: `mode` off, standby, driving or stopping, `moving`,
and `idle`, the time since a CMD.  `ImplementsLease` maps `DriveMode`, the ramped speeds and
`silence` to them.

`DriveContract` is what its host sees.  `DrivePort` has the operators: which command a drive
accepts (`BaseAccepts`), what it is after it (`BaseAfter`), and what time does to it (`Aged`,
`Lapsed`, `Wrapped`), all on four fields that a host can know.  `DriveContract` makes a
specification of them, with the count of damaged lines and the answer to every line.
`ImplementsPort` maps `PortBase`, `rx_error_count` and `PortAnswer`, the reply in `tx`, to it.

### LiftFirmware (`esp32_firmware/Projects/cang_nang_ha/src/main.cpp`)

The pass: `Tick` samples the clock and both switches (any levels at any pass: pressed, broken
wire, lost steps), `HandleHello`, `HandleLine`, `Malformed` read lines, then
`HandleLimitSwitches`, `CheckWatchdog`, `RunMotion`; `Reset` anywhere.

- Heights are steps; `ramp` is the signed number of steps the stepper needs to stop, which is
  what AccelStepper's speed amounts to; a homing runs at constant speed and keeps no height.
- Sequence numbers are compared modulo `SequenceModulus` by a half-range test, as in the code.
- `target_session` (the session whose SET gave the lift its target, none after a stop) and
  `lower_seen_open` are history.
- The STATE line is left out: it only reads the state.

`LiftContract` is what its host sees, made of the operators of `LiftPort` as for the drive: the
sessions, the fault (every fault but COMM_TIMEOUT is `GEOMETRY`, which only a homing repairs), the
reference and whether it is idle, homing or armed.  A line is obeyed (`LiftAfter`) or refused; a
refused HELLO, and a CLEAR that two active switches refuse, have halted the lift already
(`LiftRefused`).  `ImplementsPort` maps `PortLift` and `PortAnswer` to it.

### SerialHost and RobotLinks (`ros2_ws/src/tai_robot_serial_system.cpp`)

`SerialHost` is the plug-in.  `stage` says between which statements it is: `closed`, one stage
per wait of `configure()` (`disable`, `base_seen`, `hello`, `lift_seen`) and of `activate()`
(`zero` ... `armed`), `reading` and `writing`, and `error` between a returned ERROR and
`on_error()`.  A wait is a loop of pumps: `Take` reads one line, `PortFails` is a port error,
`Proceed`, `CannotProceed`, `ReadDone` look at what was read, `TimeOut` ends a wait.
`SafeStop` is `safeStopNoWait()`, and `Fail`, `GiveUp` and `Again` are the three ways an error
goes on.  `RobotLinks` adds the links, the failures and the two devices (`base`, `lift`).  It does
not write the devices down again: every change of `base` is an operator of `DrivePort` and every
change of `lift` one of `LiftPort`, at any time at which the contract allows it.  What is checked
and proved of it is so of the plug-in in front of any devices that keep the contracts, and the
two firmwares do (`PortImplemented` in both of their proof modules).

- A port is a queue of lines each way.  A port that is closed lets what was written to it out;
  opening it throws away what was received.
- `base_sequence_` and `lift_sequence_` are replaced by `awaited`: does this line, or the
  request it answers, belong to the wait that is going on?  Numbers of a configured run are
  distinct, so nothing else is ever asked of them.  Answers nobody waits for and the lines
  that only renew a lease during a wait are left out: leases may lapse at any time anyway.
- `lift_session` is the session `configure()` has drawn.  It draws one that neither the lift nor a
  line to it knows (`InUse`): the code excludes 0 and its own last one, and takes the rest from the
  clock, a random device and the process number.
- `BAD` stands for every line the parsers refuse for its form or its content.
- A pump that fails throws away any number of the lines behind the bad one: as many as the
  same `read()` of the port had brought.
- The checks after a pump happen with nothing left to read (`AllRead`).
- The contracts have no clock and no heights: the CMD gets old (`BaseAges`), the watchdog stops an
  enabled drive and may cut it at once (`BaseLapses`), an old CMD looks new after a wrap
  (`BaseWraps`), a lift's lease lapses, a homing or a height goes well or not, all at any time.
- A second tool can latch the E-stop only while the port is closed (the port is opened with
  `TIOCEXCL`), after the lines that were still in it (`EstopByHand`).
- `stop_lost` is history: a stop could not be written or was damaged on the wire, and no stop
  has been the last line the device read since.  It excuses exactly that.

### CombinedLift and LiftDevice (`esp32_firmware/Projects/bno055_imu_monitor/src/main.cpp`)

Two tasks.  `TaskLift` on core 1 takes the commands out of the queue (`ProcessLiftCommand`, one at
a time) and then makes one pass of `updateLift()` (`UpdateLift`).  The IMU task on core 0 is at
`serial`: it reads lines (`ReadLine`), samples or starts the IMU (`SampleImu`, `RetryImu`,
`Calibrated`).  They meet in the queue, so the steps of one command and one pass may interleave
with any number of steps of the other core; the calibration, which blocks core 0 for two seconds,
is a stage in which core 1 goes on alone.

- `lift` is the record of the globals of the lift task.  What `updateLift()` does to it is a chain
  of operators in the order of the code (`LeftUpper`, `AtLower`, `AtUpper`, `CommTimeout`,
  `HomingTimedOut`, `Stepped`), so that an early return is an operator that does not look further.
- Switches may have any level at any pass; heights are steps.  `ramp` counts the pulses the
  stepper needs to stop; `slowing` and `halted` are what else AccelStepper remembers: that its
  counter of steps says braking, and that its speed was set to 0 without that counter.
  `stopLift()` does just that (`moveTo()` and `setSpeed(0)`), so a lift stopped at speed keeps its
  ramp (`StopLift`) and a SET in the same direction resumes it; only `setCurrentPosition()` clears
  everything.  The operators `ComputeNewSpeed`, `MoveTo` and `SetCurrentPosition` are the
  library's.
- An age is kept only while a test may read it.
- `Enqueued` is `xQueueSend` without waiting: into a full queue nothing is put, not even a STOP.

`LiftDevice` is the contract: the commands `pending` and what a report says (`state`).
`ImplementsDevice` maps the queue and `Report(lift, lower)`, the line `publishLiftTelemetry()`
would send, to them.

### LiftBridge (`ros2_ws/src/esp32_imu_bridge/esp32_imu_bridge/esp32_bridge.py`)

It extends `LiftDevice`: the ESP32 behind the bridge is any device that keeps the contract.  One
action per callback and timer of the node: `LiftHome`, `LiftCommand`, `SendLiftHeartbeat`,
`TryConnect`, `ReceiveFrame` (`handle_line()` and `publish_lift_frame()`); and `PortFails`,
`LineLost`, `DeviceResets` and `Console` (somebody else at the port while the node does not have
it).  The comparisons of monotonic times are the flags `quiet` and `home_expired`, set by time.
`old_stream` is history: the stream of targets now coming began before the node knew of the
reference.

### CommandArbitration and Teleop (`ros2_ws/scripts/cmd_vel_stamper`, `phone_teleop_server`, `cm029_teleop`, `keyboard_teleop`, `web/phone_teleop/index.html`)

`CommandArbitration` has the publishers on `/cmd_vel`, those the stamper has discovered so far
(`seen`), the queue of its subscription, and whose speed the base follows.  `Teleop` extends it
with the node the operator uses.

- Phone: the page asks (`Press`, `Release`), each request is handled by a thread of its own in
  any order or is lost (`AcceptDrive`, `AcceptStop`, `RequestLost`), and the timer decides
  (`ControlTick`, under the lock) and then publishes (`TickPublishes`, outside it), so a request
  may come in between.  `ClosePhone` and `PhoneEnds` are the end of the process.
- Joystick: `JoyCallback` handles any sample, `JoyAges` is the silence, `PadDiscovers` what the
  graph shows of other publishers, `PadTick` the timer.  `lapsed` is history: since the last
  Start the pad fell silent, B was pressed, or a second publisher was seen.
- Keyboard: a release waits for the idle loop (`FinishKeyRelease`), auto-repeat presses again,
  focus comes and goes with keys down.

### EscapeTree (`path_footprint_clear_bt_node.cpp`, `escape_memory.hpp`, `behavior_trees/navigate_real_clearance_escape.xml`)

`pc` is the node the tree is at, `within` which of the subtrees that share nodes.  Each condition
of the tree is an action that takes a decision on the memory and the world as they are then
(`checkManeuver` takes callbacks in before each mode): `AllowRecovery`, `SelectForward`,
`BeginForward`, ..., `Reverse`, `Available`, `Replan`.  `OnFailure` gives the node where the tree
goes on when one fails.  The motions end in success, in a foreseen collision, or in a fault.  The
floor is a grid whose cell is larger than every distance the conditions take for the same place.
`spun` is history.

### RouteControl (`path_footprint_clear_bt_node.cpp`, `safe_rotation_rpp.cpp`, `rotation_sweep.hpp`)

The node `ForwardRouteSearch` with its phases, ticked by the tree: `Now` is the goal test at the
start of each tick, then `Count`, `Ask` and `Answer` of the planner (which may answer late, without
a route, or never), `Choose`, `Execute`.  Behind it `FollowStarts`, `Controls` and `FollowEnds` are
the controller and its server.  The turn limit goes by `mail`, the last message on its topic, which
the tree reads when it ticks.  The escape between two searches is one action, `Recover`.

## 4. Runs

Bounds are in the `.cfg` files; each module names its bound constants.

| Run | Shows | Instance |
|---|---|---|
| `drive_lease` | the stop is complete before the cut, recovery, soft stop, silence leads to rest, refinement of `DriveLease` and of `DriveContract` | 2 wheels, full speed, a speed that counts as zero, and zero; time-outs 2 and 9, passes up to 2 apart, clock of 13 |
| `lift_interlocks` | lease, targets, endstops, braking within the travel, homing edge, replay, a homing ends, refinement of `LiftContract` | 2 sessions, 4 sequence numbers, travel of 4 steps |
| `lift_endstops` | the code and its documents disagree (section 7) | the same with 1 session |
| `host_links` | both devices held, homing with the base disabled, E-stop kept | both links, 3 sessions, 2 start attempts, 1 failure of any kind at any stage |
| `host_stops` | a fault of either device stops both | both links, 2 sessions, a port that breaks while running |
| `host_start` | the code and its documents disagree | both links, 3 sessions, no failure |
| `combined_lift` | the reference agrees with the mode, yaw kept, silence stops, refinement of `LiftDevice` | queue of 1, travel of 2 steps and 3 below, ramp of 3, time-outs 1, 1 and 2, 2 invalid samples |
| `lift_bridge` | no stale target, HOME is forgotten, the node learns | 2 commands and 1 frame on the way |
| `teleop` | stops, locks and keys; letting go and conflicts stop the base | three tools, subscription of 2 |
| `route` | route and arrival belong to the goal, turn budget, checked turns, a search ends | 3 goals of which 2 count as one, 2 places, 1 proposal of each sort, 2 changes of goal |
| `escape` | no fault reverses, no turn twice, commitment, rest | corridor with a branch, 2 maps, 2 goals, 2 surprises, 32 attempts remembered |
| `escape_retry` | the code and its comment disagree | the same floor without any surprise |

Why the bounds are enough.

- Drive: the soft time-out, the hard one and the wrap of the clock are apart by more than a
  pass, so every order of them against a late CMD occurs.  A pass may be late by as much as the
  control period and the soft time-out last, so the control step and the watchdog are late too, and
  the full speed is just what can still be braked from (`BrakesInTime`).  A stall over both limits
  in one pass is not in the run: there a wheel is cut at speed, and the stop before the cut would
  not hold.  All other theorems about the drive hold for every `MaxLoopGap`, such a stall included.
  The full speed is the negative one, so that the ramp goes through both signs of its
  difference.  Two wheels are needed for properties about "all wheels" against "some wheel".
- Lift: the travel leaves a middle outside both tolerance zones, a full ramp is longer than
  the tolerance, and a target above the travel is offered.  Two sessions and a wrap of four
  numbers give replay within and across sessions.  A pass may be longer than the watchdog and
  than the release time-out, so a single late one runs them out, and the seek takes several.
- Links: `MaxLines` is how many lines may lie unread before a device writes or reads one more;
  the plug-in itself writes as many as a call does, so queues of four and more lines occur.
  Two attempts are needed for what one attempt leaves to the next.  One failure is injected by
  the environment, but lapsing leases, refused commands, failed homings, E-stops, restarted
  calls and expired waits are not counted: several of them meet in most behaviours.
  A session is in use while the lift holds it, has it retired, or has a line of it to read; with
  three there is one to draw in almost every state, with two a third run waits until the lift
  has lapsed, reset or forgotten the first.  The proofs are for any number of each.
- Combined lift: a queue of one is full behind any command that waits, so a HOME, a SET, a STOP
  and a heartbeat are each lost in turn; the longest gap between two passes is longer than the
  command time-out and as long as the homing one, so each can be late for its own test.  The ramp
  is longer than the travel, so a stop at speed and a SET in the same direction overshoot the end.
- Bridge: two commands let a HOME or a STOP lie behind a target.  The proof of
  `StaleTargetsHeld` holds for any length.
- Teleoperation: a subscription of two can be full and lose a stop.  The three tools share
  nothing but the topic, so one at a time, and any second publisher, is all there is.
- Route: two goals that `setPlan()` takes for one and a third that it does not; two changes are
  a new goal in the search of a new task.  One proposal of each sort reaches every switch
  between the sorts; `MaxSweep` of two thirds is spent by one turn and a retry.
- Escape: the floor has a straight exit, an exit by a turn, a dead end and a place to turn that
  the maps open and close; two surprises are for example a fault followed by a changed map.

`host_links` and `host_start` take the sessions as a symmetric set (`AnySession`): sessions are only
compared for equality, and neither run checks a liveness property.  The other runs use no symmetry.
Deadlock is checked, except in `route`, `escape` and `escape_retry`, where
a task ends and nothing else need happen.

## 5. Fairness

- Firmwares: `WF_vars(Loop)`.  The Arduino core calls `loop()` for ever and `readSerial()`
  returns, because the line brings fewer bytes than a pass can read.  Nothing is asked of the
  host, of the switches or of the encoders.
- Plug-in: the controller manager calls `read()` and `write()` for ever (`WF` of the pump and
  of `Write`), and a check that is possible again and again after a pump is made (`SF` of
  `Check`: between two checks the pump may have a line to read).  No life-cycle call is fair,
  and neither is any failure.
- Devices: they read what is in their buffer (`SF`, since reading pauses while their own output
  is full) and report (`WF`).  A lease that nobody renews gets old and lapses (`WF` of `BaseAges` or
  `BaseLapses`, and of `LiftLapses`, only while the plug-in is neither active nor in an activation;
  otherwise the plug-in may renew it for ever).
- Line: `LinesComeSlowly` says the plug-in empties its buffers again and again.  The devices
  send 20 and 25 STATE lines a second, and a cycle of the controller reads all that is there.
- An expired wait (`Expires`) is part of the checks: every wait of the code has a limit.
- Combined firmware: the lift task gets to `updateLift()` again and again (`SF` of `UpdateLift`),
  and its loop over the queue ends because a line takes longer to arrive than a turn
  of the loop (`LinesComeSlowly`).  Nothing is asked of core 0: it may hang in the IMU for ever.
- Bridge: the device reads, obeys and reports (`WF`), the timers fire (`WF` of connecting and
  reading, `SF` of the heartbeat, whose write needs room on the line), time passes.  The liveness
  properties assume that from some time on nobody asks for HOME, nothing fails (`Calm`), and the
  numbers of the frames can be read (`Readable`: a frame out of the range of `parse_lift()` is
  dropped, so from such frames alone the node learns nothing).
- Teleoperation: timers and callbacks of the nodes run, discovery ends, the base controller keeps
  its time-out.  Nothing is asked of the operator, the network or the other publisher.
- Navigation: the executor ticks the tree (`WF` of `Tick`), and for a search the clock goes on
  (`WF` of `Deadline`).  The planner need not answer and the controller need not do anything.

## 6. What is proved, and what is only checked

The eight `...Proofs` modules hold for every value of the constants that the named assumptions of
the modules they are about admit: any number of wheels, any speeds, any time-outs
with the soft one before the hard one and both well before the wrap of the clock
(`TimeAssumption`, `DataAssumption`), and any length of a pass, which may be longer than both
time-outs (only `CutFindsRest` has a condition on that, `BrakesInTime`); any sessions, sequence numbers and travel whose
tolerance zones do not meet (`LiftAssumption`, `SessionAssumption`); with and without the
lift, any number of start attempts, any length of the links and any number of failures of any
kind at any stage (`HostAssumption`, `FailureAssumption`); any queue, travel and time-outs, and
any ramp no longer than the depth the bridge takes below the bottom (`CombinedLiftAssumption`); links and subscriptions of any length (`LiftBridgeAssumption`,
`ArbitrationAssumption`); any floor, maps, goals and number of surprises (`FloorAssumption`); any
goals, places, scores, proposals and turn budget (`RouteAssumption`).  TLC evaluates the
assumptions on the instances it runs.

**Drive.**  The lease properties are not inductive: that no target outlives the lease depends
on what the latches mean.  `IInv` adds

- `FaultsStop`: a latched fault means there is no target;
- `LatchesAgree`: how the E-stop, the soft stop, the time-out fault and the enable flag may
  be combined;
- `EnabledHasCommand`: an enabled drive has had a CMD, so its age means something;
- `AgeIsSilence`: the wrapping age is the real silence as long as that is below a wrap; this
  carries the bounds from the code's clock to real time;
- `TimeoutNeedsZero`: while only a time-out is latched, the last CMD was all-zero, or it is
  older than the soft time-out.

There is one lemma per action (`TickIInv`, `ReceiveIInv`, ...), `Invariance` combines them, and the
named invariants follow.  `SoftStopSlows` and `TimeoutRecovers` are step properties that need
the invariant before and after the step.  `LeaseImplemented` proves the refinement: the
initial states and every action map to a step of `DriveLease` or a stutter.

`CutFindsRest` (the controlled stop is complete when the hard time-out cuts the outputs) is about
time, and `IInv` says nothing of it.  `NotUnnoticed` bounds the age of the last CMD of an enabled
drive by the two time-outs and the length of a pass, so that neither is noticed later than one
pass after it was due, and `millis()` never wraps around that CMD.  `StopInv` goes on from there:
`WithinTopSpeed` (no ramp is faster than the fastest request), `ControlInTime` (the control step
is late by at most a pass) and `Braking`, which says how much speed may be left at each age of the
lease, `StillToBrake`.  Each control step takes off as much as the time since the last one allows,
and `BrakesInTime`, which the code's numbers satisfy with room to spare (0.68 s between the
time-outs for 55 rpm at 320 rpm/s), makes the rest zero at the hard time-out.  It is the premise of
this theorem and of no other.

`PortImplemented` proves the refinement of `DriveContract`, one lemma per action: a line is one
`Obeys`, `Refuses` or `Counts` according to the reply it got, and a pass of the watchdog one `Lapses`.
`Tick` is the step that needs the invariant: the age can become old (`Ages`) or, of a disabled drive
only, new again by a wrap (`Wraps`).

**Lift.**  `IInv` adds `CanStop` (also of a lift without reference), `EdgeSeen` (a homing past
its first release has seen the switch open), `Switched` (what `HandleLimitSwitches` leaves true
for the rest of the pass), `Watched` (the same of the watchdog) and `PulseEndsPass`.  Without
`Switched` and `Watched` nothing is known in `RunMotion` about the switches and the lease: the
code relies on the order of the calls in `loop()`, and so does the proof.  `OldTargetIsGone` is that
an armed lift with a way to go, or with speed, is in the session of its last SET: the code protects
this twice, by stopping the stepper wherever a session, a homing or an arming ends, and by setting
the target to the position at ARM.  `FreshEdge` and `NoLineTwice` are step properties on top of it.

`PortImplemented` proves the refinement of `LiftContract`: a line with a valid envelope is obeyed with
its whole effect or refused with none but the halt, and whatever the switches, the watchdog and the
motion find is a `Lapses`, `Homes`, `Fails` or nothing a host could see.  It needs `ArmedIsSafe` (a
lift that moves has a session and no fault) for that.  `EveryLine` says the same line by line,
with the actions of the firmware named.

**Plug-in and links.**  These theorems are about `RobotLinks`, so they hold with any two devices
that keep the contracts, and the contracts are kept by the firmwares for every value of their
constants.  That the drive is held is a statement about lines that are still on
their way, so `IInv` has to say which lines those can be:

- `BaseHeld`: with a plug-in that is not active, and no stop lost by the link itself, every
  line to the base that starts it (a CMD beyond zero; an ENABLE that is no longer part of an
  activation) has a DISABLE behind it, and either a DISABLE is on its way or the drive is at
  rest.  Reading a line keeps this, since the guard of the line read is still in the queue;
  every error path ends in `SafeStop`, which restores it; and an activation only adds lines
  that are no danger while it lasts, so that `Enter` must leave `Activation` either active or
  by way of a stop.
- `EstopKnown`: a latched software E-stop was latched while the port was closed, so every STATE
  the plug-in has not read yet, and the one it has, tells of it, no CLEAR is on its way, and no
  activation is past its check.
- `ControlType`, `LinkType`, `DeviceType` and `ClosedIsUnseen` are the types, among them that
  every line has the form its reader expects, that a lift which moves has a session (`Driven`), and
  what `configure()` finds.

`SafeStopType` and `EnterKeeps` carry the plug-in's side: every call is made of the two.
`TypeCorrect`, `DriveIsHeld` and `EstopKept` follow from `Invariance`.  `LiftIsHeld` needs more than a
STOP behind every line that starts the lift, because the lift refuses a STOP of another session:
`LiftGuard` says that for every session the plug-in has left behind, every HOME and every ARM of it
on its way, and a lift that moves in it, has a STOP of the same session behind it, which reading a
line and a restart of the lift keep.  A session that `configure()` draws is in use nowhere, so
what is true of the ones left behind is vacuous of it.

`HomingIsSafe` is about both devices at once: the plug-in disables the base before it homes the
lift, but skips the homing of a lift it believes to be homed and enables the base then, so what
it believes has to be followed from the line it read to the request it makes.  `Waits` says that at
most one request is waited for, that it is the last line of its link, and that an answer can only be
its answer; a request given up leaves neither behind.  `LiftInv` has six parts on top of it.

- `Views`: what the plug-in has seen of the lift and what it is about to be told (`Seen`, `Told`)
  never shows an armed lift with a fault or without a reference.
- `InSession`: once the plug-in knows anything of the lift, every line to it is of the own
  session, and until the start is over only HELLO is.
- `Order`: a lift that told it has no reference, or a fault, still has none, or still has it,
  until the plug-in asks for HOME or CLEAR.  A new HOME therefore meets a lift that needs it.
- `Requested`: HOME and CLEAR are on their way only while they are waited for, and only to a
  lift that needs them; a lift homes only in the stages that wait for it.
- `Armed`: once the lift was armed, no HELLO is left that would take back a session it lost
  with its arming.
- `BaseStaysOff`: with a HOME on its way or a lift that homes, the base is not enabled and no ENABLE
  is on its way to it.

Nothing of these proofs uses how many lines `MaxLines` admits or that the devices are fair.

**Combined lift.**  `Sound(lift)` is a property of one record, and every operator that takes one
record to the next keeps it; these are the lemmas.  With `FaultLatches` (only an IMU that was
never found is calibrated) they give `IInv`, from which the types, `ModesAgree`,
`OvershootBounded` (with its reference the lift never sets out for a height outside its travel, and
overshoots it by one ramp at most) and `EndstopsHold` follow; `HomedAtBottom` and `YawKept` are step properties.  `Implements` is the
refinement: what arrives in the queue is a `Receive`, what is taken out an `Obey`, a pass of
`updateLift()` a `Run`.

**Bridge.**  `IInv` adds `OldStreamWaits`: a stream older than the reference is not quiet and is
still to be waited out.  It is `quiet_required`, set whenever the reference appears, that makes it
inductive.

**Teleoperation.**  `PadLocked`: a joystick that is armed although it lapsed is silent, so that
the first sample locks it, if the timer has not; `KeysNeedFocus`: a window without the focus holds
no key, so that what happens to the keys meanwhile does not matter.

**Escape.**  `Turning` says that the attempts remembered for the present goal begin with the
last `MaxAttempts` turns begun since it was set, and that the turn about to begin is not among them (a
turn that was forgotten may be repeated); `Faults` says where the
tree can be while an error code says fault: at the node that looks at it, or on the way out of the
recovery.  `TurnsAreNew` and `CommitHolds` are step properties on top of them.

**Route.**  `Following` ties the route to the phase and the goal of the search; `Arriving` ties a
reported arrival to the goal followed and says that a completed goal is left behind with its
task; `Within` ties the history of turning on a spot to the guard's own budget, across plans,
aborts and moves.  `CommittedTurnIsClear` is a step property: only a command of the controller
turns the robot, and the command looks at what is left of the rotation whatever the costmap
has come to show since the one before.

Proved, but in no run any more, because another property of the runs says more: the types of all
modules, `DisabledIsStill`, `MotionNeedsLease`, `SetpointNeedsLease` and `EstopCutsOutput` of the
drive, `ArmedIsSafe` and `GeometryFaultUnhomes` of the lift, `OvershootBounded`, `EndstopsHold` and
`HomedAtBottom` of the combined lift, `ClosedKnowsNothing` of the bridge.

Only model-checked: the liveness properties (`SilenceStops` of the drive and of the combined lift,
`HomingEnds`, `FaultStopsBoth`, `HomeIsForgotten`, `NodeLearns`, `LettingGoStops`, `ConflictStops`,
`ComesToRest`, `SearchEnds`), because fairness and ENABLED are out of the prover's reach.  Every
other property of a passing run is stated by a theorem.  That the composition is one (a system of
two firmwares and the plug-in implements `RobotLinks`) is argued in section 3 and not proved: it
would need one module with the state of all three.

## 7. Findings

Each of the three has a run in which TLC finds the counterexample; `PROJECT.json` quotes the
lines.

- `host_start`: after an orderly `cleanup()` the plug-in cannot be configured again while the
  lift keeps running: its telemetry carries the previous session, every such line fails the
  pump, and HELLO is never sent.  It works when opening the port resets the ESP32.  With lines
  of other sessions ignored until HELLO is acknowledged (`hello_acked /\ l.session # lift_session` in
  `WrongSession`), the property holds on the same instance.
- `lift_endstops`: after a SET that turns the lift round, the stepper brakes with pulses into
  an active switch.  `EndstopsHold` states, and the proof shows, what does hold: only while it
  brakes, and only within the tolerance of that end.
- `escape_retry`: an exit that needs no turn counts as a successful recovery without any motion.
  When no complete route is found from there, the tree finds the same exit again, at a standstill,
  for ever.  `ComesToRest` shows that it is at least a standstill.

Seen while modelling, and left without a run: CLEAR right after ESTOP needs no all-zero CMD,
because ESTOP has zeroed the requested speeds itself; the CommandFresh bit of the drive comes on
again when `millis()` wraps; the combined lift, stopped at full speed and sent on in the same
direction, resumes the speed it had and may pass the end of its travel by some steps before it turns
round, and if it is stopped out there the bridge refuses its reports until the next SET or HOME.

## 8. Not modelled

- The number formats, checksums and line buffers of the protocols: a frame is well formed or
  has one of the defects the code tells apart.  A damaged frame that passes its checksum is
  outside the model.
- Control quality: the PID, the mecanum kinematics, AccelStepper's speed profile (a ramp is a
  whole number of steps, one more or one fewer with each pulse).
- The upper limit of the position the bridge takes from the combined lift (0.53 m, one centimetre
  above the travel): that centimetre is the whole ramp of the stepper, so `Report` tests only the
  lower limit of the position, and the target.
- The ROS interfaces of the plug-in (exported interfaces, joint state, PID telemetry) and
  `initialise()`, which only reads parameters; opening a port that fails.
- The sequence numbers of the plug-in's requests, and their reuse between two configured runs
  (listed as a hazard without a property).
- Bridge: the IMU records, which are converted and published one by one.
- Teleoperation: the lift targets of the three programs, the mouse buttons of the window, the
  status page.
- Navigation: how a route is planned, measured and checked against the maps (the geometry of
  path and footprint); the rules for a goal closer than 0.35 m; the release of the padding; the
  cache of 200 ms; the tracking of a path and the final
  alignment of SafeRotationRPP with its reverse correction.
- Pose persistence: one node without threads.  A crash while it saves is left to `os.replace()`;
  it restores once, two seconds after its start, whether or not AMCL listens, and saves nothing for
  the next five.  Whether AMCL has converged by then is decided by AMCL.
- The spin node is not in the behaviour tree of the robot.  The PID tuner is a bench tool, never
  flashed beside the plug-in; most of it is a web page and a frequency response.
- The simulation, the sensor filters and displays and the robot test scripts keep no protocol
  state.
- The vendored drivers `ros2_astra_camera` and `sllidar_ros2`, with the headers they bring
  (`json.hpp`, `OpenNI.h`, `magic_enum.hpp`), are somebody else's programs.  They and the embedded
  web pages are most of the lines of this tree, so the share of lines the models stand for stays
  low even though the robot's own control software is covered.
