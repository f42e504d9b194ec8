------------------------------- MODULE Teleop -------------------------------
(***************************************************************************)
(* The three programs an operator drives the robot with, in front of       *)
(* CommandArbitration: the web server for a phone (phone_teleop_server),   *)
(* the joystick node (cm029_teleop) and the keyboard window                *)
(* (keyboard_teleop).  In a behaviour the operator uses one of them; any   *)
(* other publisher on /cmd_vel is the "other" of CommandArbitration.       *)
(*                                                                         *)
(* Abstractions.  A speed is zero or not.  A time is kept as what is asked *)
(* of it: more than 0.30 s since the last request of the phone (old) or    *)
(* the last sample of the joystick.  HTTP requests are handled in any      *)
(* order, each by a thread of its own, or are lost.  One drive key stands  *)
(* for the four; the mouse buttons of the window and the lift targets are  *)
(* left out.                                                               *)
(***************************************************************************)
EXTENDS CommandArbitration

VARIABLES
  tool,      \* what the operator uses: "phone", "pad" or "keyboard"
  phone,     \* phone_teleop_server and the page it serves, a record
  pad,       \* cm029_teleop, a record
  keyboard   \* keyboard_teleop, a record

vars == <<topicVars, tool, phone, pad, keyboard>>

Runs(t) == tool = t /\ "own" \in publishers

-----------------------------------------------------------------------------
(* The phone.  held, requests: the page and the network; active, stop,     *)
(* old: _drive_active, _stop_pending and the age of _last_command_time;    *)
(* decided: what _control_tick() goes on to publish; spins: rclpy.spin()   *)
(* has not returned.  owed is history: a stop was accepted and none was    *)
(* published since.                                                        *)

PhoneAtStart ==
  [held |-> FALSE, requests |-> {}, active |-> FALSE, stop |-> FALSE, old |-> TRUE,
   decided |-> "none", spins |-> TRUE, owed |-> FALSE]

\* startHeartbeat() and its timer, every 0.1 s while a direction is held.
Press ==
  /\ phone' = [phone EXCEPT !.held = TRUE, !.requests = @ \cup {"drive"}]
  /\ UNCHANGED topicVars

\* releaseAllDirections(): the last direction, the stop button, a hidden page.
Release ==
  /\ phone' = [phone EXCEPT !.held = FALSE, !.requests = @ \cup {"stop"}]
  /\ UNCHANGED topicVars

RequestLost ==
  /\ \E r \in phone.requests : phone' = [phone EXCEPT !.requests = @ \ {r}]
  /\ UNCHANGED topicVars

\* accept_drive_command(), on the thread of the request.
AcceptDrive ==
  /\ Runs("phone") /\ "drive" \in phone.requests
  /\ phone' = [phone EXCEPT !.requests = @ \ {"drive"}, !.active = TRUE,
                            !.stop = FALSE, !.old = FALSE]
  /\ UNCHANGED topicVars

AcceptStop ==
  /\ Runs("phone") /\ "stop" \in phone.requests
  /\ phone' = [phone EXCEPT !.requests = @ \ {"stop"}, !.active = FALSE,
                            !.stop = TRUE, !.owed = TRUE]
  /\ UNCHANGED topicVars

CommandAges ==
  /\ phone.active /\ ~phone.old /\ phone' = [phone EXCEPT !.old = TRUE]
  /\ UNCHANGED topicVars

\* (Mutant: the watchdog forgets to ask for a stop.)
DecisionSilent(p) ==
  [p EXCEPT !.active = @ /\ ~p.old, !.stop = FALSE,
            !.decided = IF p.stop THEN "stop"
                        ELSE IF p.active /\ ~p.old THEN "drive" ELSE "none"]

\* (Mutant: the watchdog is not asked.)
DecisionUnwatched(p) ==
  [p EXCEPT !.stop = FALSE,
            !.decided = IF p.stop THEN "stop" ELSE IF p.active THEN "drive" ELSE "none"]

\* What _control_tick() decides under the lock.
Decision(p) ==
  LET late == p.active /\ p.old
  IN [p EXCEPT !.active = @ /\ ~late, !.stop = FALSE,
               !.decided = IF p.stop \/ late THEN "stop"
                           ELSE IF p.active THEN "drive" ELSE "none"]

ControlTick ==
  /\ Runs("phone") /\ phone.spins /\ phone.decided = "none"
  /\ phone' = Decision(phone)
  /\ UNCHANGED topicVars

\* It publishes after the lock is released.
TickPublishes ==
  /\ Runs("phone") /\ phone.decided # "none"
  /\ Publish("own", phone.decided = "drive")
  /\ phone' = [phone EXCEPT !.decided = "none",
                            !.owed = @ /\ phone.decided # "stop"]
  /\ UNCHANGED <<publishers, seen, base>>

\* close(), which publishes while the HTTP threads still run.
ClosePhone ==
  /\ Runs("phone") /\ phone.spins /\ phone.decided = "none"
  /\ Publish("own", FALSE)
  /\ phone' = [phone EXCEPT !.active = FALSE, !.stop = TRUE, !.spins = FALSE,
                            !.owed = FALSE]
  /\ UNCHANGED <<publishers, seen, base>>

\* The process ends, after close() or without it; it starts again later.
PhoneEnds ==
  /\ tool = "phone" /\ Leaves("own")
  /\ phone' = [PhoneAtStart EXCEPT !.held = phone.held, !.requests = phone.requests]
  /\ UNCHANGED <<seen, topic, base>>

WithPhone == tool = "phone" /\ UNCHANGED <<tool, pad, keyboard>>

Phone ==
  /\ WithPhone
  /\ \/ Press
     \/ Release
     \/ RequestLost
     \/ AcceptDrive
     \/ AcceptStop
     \/ CommandAges
     \/ ControlTick
     \/ TickPublishes
     \/ ClosePhone
     \/ PhoneEnds
     \/ Joins("own") /\ UNCHANGED phone

-----------------------------------------------------------------------------
(* The joystick.  joy: whether the last sample is recent; start, stick: of *)
(* that sample; foreign: other publishers it has discovered; lapsed is     *)
(* history: since Start was last pressed the joystick was silent for too   *)
(* long, its B was pressed or another publisher was seen.                  *)

PadAtStart ==
  [joy |-> "never", start |-> FALSE, stick |-> FALSE, start_released |-> FALSE,
   armed |-> FALSE, foreign |-> FALSE, lapsed |-> TRUE]

\* (Mutant: a sample after a silence is taken as any other.)
AfterSampleTrusting(p, start, b, stick) ==
  LET released == p.start_released \/ ~start
      edge == start /\ ~p.start /\ released /\ ~p.foreign
      new == [p EXCEPT !.joy = "recent", !.start = start, !.stick = stick,
                       !.start_released = released]
  IN CASE b -> [new EXCEPT !.armed = FALSE, !.lapsed = TRUE]
       [] ~b /\ edge -> [new EXCEPT !.armed = TRUE, !.lapsed = FALSE]
       [] OTHER -> new

\* joy_callback(), apart from what it publishes.
AfterSample(p, start, b, stick) ==
  LET released == p.start_released \/ ~start
      edge == start /\ ~p.start /\ released /\ ~p.foreign
      new == [p EXCEPT !.joy = "recent", !.start = start, !.stick = stick,
                       !.start_released = released]
  IN CASE p.joy # "recent" -> [new EXCEPT !.start_released = ~start, !.armed = FALSE]
       [] p.joy = "recent" /\ b -> [new EXCEPT !.armed = FALSE, !.lapsed = TRUE]
       [] p.joy = "recent" /\ ~b /\ edge -> [new EXCEPT !.armed = TRUE, !.lapsed = FALSE]
       [] OTHER -> new

JoyCallback(start, b, stick) ==
  /\ Runs("pad")
  /\ pad' = AfterSample(pad, start, b, stick)
  /\ IF pad.joy # "recent" \/ b THEN Publish("own", FALSE) ELSE UNCHANGED topic
  /\ UNCHANGED <<publishers, seen, base>>

JoyAges ==
  /\ pad.joy = "recent" /\ pad' = [pad EXCEPT !.joy = "silent", !.lapsed = TRUE]
  /\ UNCHANGED topicVars

PadDiscovers ==
  /\ Runs("pad") /\ pad.foreign # ("other" \in publishers)
  /\ pad' = [pad EXCEPT !.foreign = ~@]
  /\ UNCHANGED topicVars

PadMayDrive(p) == p.joy = "recent" /\ p.armed /\ ~p.foreign

\* control_tick(): whatever keeps it from driving locks it.
PadTick ==
  /\ Runs("pad")
  /\ pad' = IF PadMayDrive(pad) THEN pad
            ELSE [pad EXCEPT !.armed = FALSE, !.lapsed = TRUE]
  /\ Publish("own", PadMayDrive(pad) /\ pad.stick)
  /\ UNCHANGED <<publishers, seen, base>>

\* destroy_node() publishes a last zero, a crash does not.
PadEnds ==
  /\ tool = "pad" /\ Leaves("own")
  /\ Publish("own", FALSE) \/ UNCHANGED topic
  /\ pad' = PadAtStart
  /\ UNCHANGED <<seen, base>>

WithPad == tool = "pad" /\ UNCHANGED <<tool, phone, keyboard>>

Pad ==
  /\ WithPad
  /\ \/ \E start \in BOOLEAN, b \in BOOLEAN, stick \in BOOLEAN : JoyCallback(start, b, stick)
     \/ JoyAges
     \/ PadDiscovers
     \/ PadTick
     \/ PadEnds
     \/ Joins("own") /\ UNCHANGED pad

-----------------------------------------------------------------------------
(* The keyboard.  down: the key itself; focus: the window has it; pressed: *)
(* the key is in pressed_keys; releasing: it is in pending_releases.       *)

KeyboardAtStart == [down |-> FALSE, focus |-> FALSE, pressed |-> FALSE, releasing |-> FALSE]

Reacts(k) == keyboard' = k /\ Publish("own", k.pressed) /\ UNCHANGED <<publishers, seen, base>>

\* on_key_press(): a key that goes down, or repeats.
KeyPress ==
  /\ Runs("keyboard") /\ keyboard.focus
  /\ Reacts([keyboard EXCEPT !.down = TRUE, !.pressed = TRUE, !.releasing = FALSE])

\* on_key_release() waits for the event loop to be idle: a key that repeats is
\* released and pressed again.
KeyRelease ==
  /\ Runs("keyboard") /\ keyboard.focus /\ keyboard.down
  /\ \E down \in BOOLEAN : keyboard' = [keyboard EXCEPT !.down = down, !.releasing = TRUE]
  /\ UNCHANGED topicVars

FinishKeyRelease ==
  /\ Runs("keyboard") /\ keyboard.releasing
  /\ Reacts([keyboard EXCEPT !.pressed = FALSE, !.releasing = FALSE])

\* (Mutant: the keys are kept when the window loses them.)
FocusOutKeeping ==
  /\ Runs("keyboard") /\ keyboard.focus
  /\ Reacts([keyboard EXCEPT !.focus = FALSE, !.releasing = FALSE])

\* on_focus_out()
FocusOut ==
  /\ Runs("keyboard") /\ keyboard.focus
  /\ Reacts([keyboard EXCEPT !.focus = FALSE, !.pressed = FALSE, !.releasing = FALSE])

\* What happens to the key and the window elsewhere is not heard of.
Unheard ==
  /\ Runs("keyboard") /\ ~keyboard.focus
  /\ \E down \in BOOLEAN, focus \in BOOLEAN :
       keyboard' = [keyboard EXCEPT !.down = down, !.focus = focus]
  /\ UNCHANGED topicVars

KeyboardTick == Runs("keyboard") /\ Reacts(keyboard)

\* space and the stop button: release_drive_keys().
StopButton ==
  /\ Runs("keyboard") /\ keyboard.focus
  /\ Reacts([keyboard EXCEPT !.pressed = FALSE])

\* close() and main() publish a last zero, a crash does not.
KeyboardEnds ==
  /\ tool = "keyboard" /\ Leaves("own")
  /\ Publish("own", FALSE) \/ UNCHANGED topic
  /\ keyboard' = KeyboardAtStart
  /\ UNCHANGED <<seen, base>>

WithKeyboard == tool = "keyboard" /\ UNCHANGED <<tool, phone, pad>>

Keyboard ==
  /\ WithKeyboard
  /\ \/ KeyPress
     \/ KeyRelease
     \/ FinishKeyRelease
     \/ FocusOut
     \/ Unheard
     \/ KeyboardTick
     \/ StopButton
     \/ KeyboardEnds
     \/ Joins("own") /\ UNCHANGED keyboard

-----------------------------------------------------------------------------
Init ==
  /\ ArbitrationInit
  /\ tool \in {"phone", "pad", "keyboard"}
  /\ phone = PhoneAtStart /\ pad = PadAtStart /\ keyboard = KeyboardAtStart

Elsewhere == UNCHANGED <<tool, phone, pad, keyboard>>

Arbitration ==
  /\ Elsewhere
  /\ \/ OtherPublishes
     \/ OtherComesAndGoes
     \/ StamperDiscovers
     \/ CommandCallback
     \/ BaseTimesOut

Next == Phone \/ Pad \/ Keyboard \/ Arbitration

Spec == Init /\ [][Next]_vars

\* The timers and callbacks of the nodes run, the nodes are discovered and the base
\* controller keeps its timeout.  Only of a base that stops for good is the latter
\* asked anything, so it does not matter that a timeout is fair here even when
\* commands come.
FairSpec ==
  /\ Spec
  /\ WF_vars(StamperDiscovers /\ Elsewhere) /\ WF_vars(CommandCallback /\ Elsewhere)
  /\ WF_vars(BaseTimesOut /\ Elsewhere)
  /\ WF_vars(CommandAges /\ WithPhone) /\ SF_vars(ControlTick /\ WithPhone)
  /\ WF_vars(TickPublishes /\ WithPhone)
  /\ WF_vars(PadDiscovers /\ WithPad) /\ WF_vars(PadTick /\ WithPad)
  /\ WF_vars(FinishKeyRelease /\ WithKeyboard)

-----------------------------------------------------------------------------
(* Correctness.                                                            *)

\* Every variable has its type.
TypeOK ==
  /\ ArbitrationType /\ tool \in {"phone", "pad", "keyboard"}
  /\ phone \in [held : BOOLEAN, requests : SUBSET {"drive", "stop"}, active : BOOLEAN,
                stop : BOOLEAN, old : BOOLEAN, decided : {"none", "drive", "stop"},
                spins : BOOLEAN, owed : BOOLEAN]
  /\ pad \in [joy : {"never", "recent", "silent"}, start : BOOLEAN, stick : BOOLEAN,
              start_released : BOOLEAN, armed : BOOLEAN, foreign : BOOLEAN,
              lapsed : BOOLEAN]
  /\ keyboard \in [down : BOOLEAN, focus : BOOLEAN, pressed : BOOLEAN, releasing : BOOLEAN]

\* A stop the phone server has accepted is never forgotten: it is pending, decided,
\* or a later drive request stands in its place, which ends in a stop of its own.
StopNotForgotten ==
  phone.owed => phone.stop \/ phone.active \/ phone.decided = "stop"

\* The joystick drives only on a Start pressed after the last silence, B or second
\* publisher ("reconnecting does not unlock by itself", README.md:397), whichever
\* of the callback and the timer sees them first.
PadNeedsStart == pad.lapsed => ~PadMayDrive(pad)

\* No key is stuck: one the window takes for pressed is down, or about to be let
\* go, also when it was let go in another window or while it repeated.
NoStuckKey == keyboard.pressed => keyboard.down \/ keyboard.releasing

\* When the operator lets go for good, the base does not follow him for ever: with
\* requests and samples lost, reordered or late, and nodes that die in between.
LettingGoStops ==
  /\ <>[](tool = "phone" /\ ~phone.held) => <>[](base # "own")
  /\ <>[](tool = "pad" /\ pad.joy # "recent") => <>[](base # "own" /\ ~pad.armed)
  /\ <>[](tool = "keyboard" /\ ~keyboard.down) => <>[](base # "own")

\* Two publishers that stay stop the base, and neither moves it again.
ConflictStops == <>[](publishers = Nodes) => <>[](base = "none")
=============================================================================
