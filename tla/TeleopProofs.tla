---------------------------- MODULE TeleopProofs ----------------------------
(* What holds of Teleop for every depth of the subscription: each variable *)
(* has its type, the phone server forgets no stop, the joystick does not   *)
(* unlock by itself, and no key is stuck.                                  *)
EXTENDS Teleop, TLAPS

\* A subscription is a sequence of at most Depth commands.
Subscription(q) == q \in Seq(Commands) /\ Len(q) <= Depth

\* A command that arrives leaves room for itself.
LEMMA ArrivedType ==
  ASSUME NEW q, Subscription(q), NEW c \in Commands
  PROVE Subscription(Arrived(q, c))
<1>1. CASE Len(q) = Depth
  <2>1. /\ q # <<>> /\ Tail(q) \in Seq(Commands) /\ Len(Tail(q)) = Len(q) - 1
    BY <1>1, ArbitrationAssumption DEF Subscription
  <2>2. /\ Append(Tail(q), c) \in Seq(Commands)
        /\ Len(Append(Tail(q), c)) = Len(Tail(q)) + 1
    BY <2>1
  <2>3. QED BY <1>1, <2>1, <2>2, ArbitrationAssumption DEF Subscription, Arrived
<1>2. CASE Len(q) # Depth
  <2>1. /\ Append(q, c) \in Seq(Commands) /\ Len(Append(q, c)) = Len(q) + 1
    BY DEF Subscription
  <2>2. QED BY <1>2, <2>1, ArbitrationAssumption DEF Subscription, Arrived
<1>3. QED BY <1>1, <1>2

LEMMA PublishType ==
  ASSUME Subscription(topic), NEW from \in Nodes, NEW moving \in BOOLEAN,
         Publish(from, moving)
  PROVE Subscription(topic')
<1>1. [from |-> from, moving |-> moving] \in Commands
  BY DEF Commands
<1>2. QED BY <1>1, ArrivedType DEF Publish

LEMMA ArbitrationStep ==
  ASSUME ArbitrationType,
         \/ OtherPublishes \/ OtherComesAndGoes \/ StamperDiscovers \/ CommandCallback
         \/ BaseTimesOut \/ UNCHANGED topicVars \/ Joins("own")
  PROVE ArbitrationType'
<1> USE DEF ArbitrationType, Nodes
<1>0. Subscription(topic) BY DEF Subscription
<1>1. CASE OtherPublishes
  <2>1. PICK moving \in BOOLEAN : Publish("other", moving) BY <1>1 DEF OtherPublishes
  <2>2. Subscription(topic') BY <1>0, <2>1, PublishType
  <2>3. QED BY <1>1, <2>2 DEF OtherPublishes, Subscription
<1>2. CASE OtherComesAndGoes BY <1>2 DEF OtherComesAndGoes, Joins, Leaves
<1>3. CASE StamperDiscovers BY <1>3 DEF StamperDiscovers
<1>4. CASE CommandCallback
  <2>1. /\ Head(topic) \in Commands /\ Tail(topic) \in Seq(Commands)
        /\ Len(Tail(topic)) = Len(topic) - 1 /\ Len(topic) \in Nat
    BY <1>4 DEF CommandCallback
  <2>2. Len(Tail(topic)) <= Depth BY <2>1, ArbitrationAssumption
  <2>3. Head(topic).from \in Nodes BY <2>1 DEF Commands
  <2>4. QED BY <1>4, <2>1, <2>2, <2>3 DEF CommandCallback
<1>5. CASE BaseTimesOut BY <1>5 DEF BaseTimesOut
<1>6. CASE UNCHANGED topicVars BY <1>6 DEF topicVars
<1>7. CASE Joins("own") BY <1>7 DEF Joins
<1>8. QED BY <1>1, <1>2, <1>3, <1>4, <1>5, <1>6, <1>7

\* A step of a node of the operator that publishes, or ends, keeps the types.
LEMMA OwnPublishes ==
  ASSUME ArbitrationType, NEW moving \in BOOLEAN,
         Publish("own", moving) \/ UNCHANGED topic,
         publishers' \subseteq publishers, UNCHANGED <<seen, base>>
  PROVE ArbitrationType'
<1>0. Subscription(topic) BY DEF Subscription, ArbitrationType
<1>1. Subscription(topic')
  BY <1>0, PublishType DEF Nodes
<1>2. QED BY <1>1 DEF ArbitrationType, Subscription, Nodes

-----------------------------------------------------------------------------
(* The invariant.  A joystick that is armed although it lapsed is silent,  *)
(* so that its next sample locks it; a window without the focus holds no   *)
(* key, so that what happens to the keys meanwhile does not matter.        *)

PhoneType ==
  phone \in [held : BOOLEAN, requests : SUBSET {"drive", "stop"}, active : BOOLEAN,
             stop : BOOLEAN, old : BOOLEAN, decided : {"none", "drive", "stop"},
             spins : BOOLEAN, owed : BOOLEAN]

PadType ==
  pad \in [joy : {"never", "recent", "silent"}, start : BOOLEAN, stick : BOOLEAN,
           start_released : BOOLEAN, armed : BOOLEAN, foreign : BOOLEAN, lapsed : BOOLEAN]

KeyboardType ==
  keyboard \in [down : BOOLEAN, focus : BOOLEAN, pressed : BOOLEAN, releasing : BOOLEAN]

PadLocked == pad.lapsed /\ pad.armed => pad.joy # "recent"

KeysNeedFocus == keyboard.pressed => keyboard.focus

IInv ==
  /\ TypeOK /\ StopNotForgotten /\ PadLocked /\ NoStuckKey /\ KeysNeedFocus

LEMMA PhoneStep ==
  ASSUME ArbitrationType, PhoneType, StopNotForgotten, Phone
  PROVE ArbitrationType' /\ PhoneType' /\ StopNotForgotten'
<1> USE DEF PhoneType, StopNotForgotten
<1>1. CASE Press \/ Release \/ RequestLost \/ AcceptDrive \/ AcceptStop \/ CommandAges
  <2>1. UNCHANGED topicVars
    BY <1>1 DEF Press, Release, RequestLost, AcceptDrive, AcceptStop, CommandAges
  <2>2. ArbitrationType' BY <2>1, ArbitrationStep
  <2>3. CASE Press BY <2>2, <2>3 DEF Press
  <2>4. CASE Release BY <2>2, <2>4 DEF Release
  <2>5. CASE RequestLost BY <2>2, <2>5 DEF RequestLost
  <2>6. CASE AcceptDrive BY <2>2, <2>6 DEF AcceptDrive
  <2>7. CASE AcceptStop BY <2>2, <2>7 DEF AcceptStop
  <2>8. CASE CommandAges BY <2>2, <2>8 DEF CommandAges
  <2>9. QED BY <1>1, <2>3, <2>4, <2>5, <2>6, <2>7, <2>8
<1>2. CASE ControlTick
  <2>1. ArbitrationType' BY <1>2, ArbitrationStep DEF ControlTick
  <2>2. QED BY <1>2, <2>1 DEF ControlTick, Decision
<1>3. CASE TickPublishes
  <2>1. ArbitrationType' BY <1>3, OwnPublishes DEF TickPublishes
  <2>2. QED BY <1>3, <2>1 DEF TickPublishes
<1>4. CASE ClosePhone
  <2>1. ArbitrationType' BY <1>4, OwnPublishes DEF ClosePhone
  <2>2. QED BY <1>4, <2>1 DEF ClosePhone
<1>5. CASE PhoneEnds
  <2>1. ArbitrationType' BY <1>5, OwnPublishes DEF PhoneEnds, Leaves
  <2>2. QED BY <1>5, <2>1 DEF PhoneEnds, PhoneAtStart
<1>6. CASE Joins("own") /\ UNCHANGED phone
  BY <1>6, ArbitrationStep
<1>7. QED BY <1>1, <1>2, <1>3, <1>4, <1>5, <1>6 DEF Phone

LEMMA SampleSafe ==
  ASSUME PadType, PadLocked, NEW start \in BOOLEAN, NEW b \in BOOLEAN,
         NEW stick \in BOOLEAN, pad' = AfterSample(pad, start, b, stick)
  PROVE PadType' /\ PadLocked'
<1> USE DEF PadType, PadLocked
<1>1. CASE pad.joy # "recent" BY <1>1 DEF AfterSample
<1>2. CASE pad.joy = "recent" /\ b BY <1>2 DEF AfterSample
<1>3. CASE pad.joy = "recent" /\ ~b BY <1>3 DEF AfterSample
<1>4. QED BY <1>1, <1>2, <1>3

LEMMA PadStep ==
  ASSUME ArbitrationType, PadType, PadLocked, Pad
  PROVE ArbitrationType' /\ PadType' /\ PadLocked'
<1>1. CASE \E start \in BOOLEAN, b \in BOOLEAN, stick \in BOOLEAN : JoyCallback(start, b, stick)
  <2>1. PICK start \in BOOLEAN, b \in BOOLEAN, stick \in BOOLEAN : JoyCallback(start, b, stick)
    BY <1>1
  <2>2. ArbitrationType' BY <2>1, OwnPublishes DEF JoyCallback
  <2>3. QED BY <2>1, <2>2, SampleSafe DEF JoyCallback
<1>2. CASE JoyAges
  <2>1. ArbitrationType' BY <1>2, ArbitrationStep DEF JoyAges
  <2>2. QED BY <1>2, <2>1 DEF JoyAges, PadType, PadLocked
<1>3. CASE PadDiscovers
  <2>1. ArbitrationType' BY <1>3, ArbitrationStep DEF PadDiscovers
  <2>2. QED BY <1>3, <2>1 DEF PadDiscovers, PadType, PadLocked
<1>4. CASE PadTick
  <2>1. (PadMayDrive(pad) /\ pad.stick) \in BOOLEAN BY DEF PadType, PadMayDrive
  <2>2. ArbitrationType' BY <1>4, <2>1, OwnPublishes DEF PadTick
  <2>3. QED BY <1>4, <2>2 DEF PadTick, PadType, PadLocked
<1>5. CASE PadEnds
  <2>1. ArbitrationType' BY <1>5, OwnPublishes DEF PadEnds, Leaves
  <2>2. QED BY <1>5, <2>1 DEF PadEnds, PadAtStart, PadType, PadLocked
<1>6. CASE Joins("own") /\ UNCHANGED pad
  BY <1>6, ArbitrationStep DEF PadType, PadLocked
<1>7. QED BY <1>1, <1>2, <1>3, <1>4, <1>5, <1>6 DEF Pad

LEMMA KeyboardStep ==
  ASSUME ArbitrationType, KeyboardType, NoStuckKey, KeysNeedFocus, Keyboard
  PROVE ArbitrationType' /\ KeyboardType' /\ NoStuckKey' /\ KeysNeedFocus'
<1> USE DEF KeyboardType, NoStuckKey, KeysNeedFocus
<1>2. CASE KeyPress
  <2>1. PICK k : k = [keyboard EXCEPT !.down = TRUE, !.pressed = TRUE, !.releasing = FALSE] /\ Reacts(k)
    BY <1>2 DEF KeyPress
  <2>2. k.pressed \in BOOLEAN BY <2>1
  <2>3. ArbitrationType' BY <2>1, <2>2, OwnPublishes DEF Reacts
  <2>4. QED BY <1>2, <2>1, <2>3 DEF KeyPress, Reacts
<1>3. CASE KeyRelease
  <2>1. ArbitrationType' BY <1>3, ArbitrationStep DEF KeyRelease
  <2>2. QED BY <1>3, <2>1 DEF KeyRelease
<1>4. CASE FinishKeyRelease
  <2>1. PICK k : k = [keyboard EXCEPT !.pressed = FALSE, !.releasing = FALSE] /\ Reacts(k)
    BY <1>4 DEF FinishKeyRelease
  <2>2. k.pressed \in BOOLEAN BY <2>1
  <2>3. ArbitrationType' BY <2>1, <2>2, OwnPublishes DEF Reacts
  <2>4. QED BY <1>4, <2>1, <2>3 DEF FinishKeyRelease, Reacts
<1>5. CASE FocusOut
  <2>1. PICK k : k = [keyboard EXCEPT !.focus = FALSE, !.pressed = FALSE, !.releasing = FALSE] /\ Reacts(k)
    BY <1>5 DEF FocusOut
  <2>2. k.pressed \in BOOLEAN BY <2>1
  <2>3. ArbitrationType' BY <2>1, <2>2, OwnPublishes DEF Reacts
  <2>4. QED BY <1>5, <2>1, <2>3 DEF FocusOut, Reacts
<1>6. CASE Unheard
  <2>1. ArbitrationType' BY <1>6, ArbitrationStep DEF Unheard
  <2>2. QED BY <1>6, <2>1 DEF Unheard
<1>7. CASE KeyboardTick
  <2>1. ArbitrationType' BY <1>7, OwnPublishes DEF KeyboardTick, Reacts
  <2>2. QED BY <1>7, <2>1 DEF KeyboardTick, Reacts
<1>8. CASE StopButton
  <2>1. PICK k : k = [keyboard EXCEPT !.pressed = FALSE] /\ Reacts(k)
    BY <1>8 DEF StopButton
  <2>2. k.pressed \in BOOLEAN BY <2>1
  <2>3. ArbitrationType' BY <2>1, <2>2, OwnPublishes DEF Reacts
  <2>4. QED BY <1>8, <2>1, <2>3 DEF StopButton, Reacts
<1>9. CASE KeyboardEnds
  <2>1. ArbitrationType' BY <1>9, OwnPublishes DEF KeyboardEnds, Leaves
  <2>2. QED BY <1>9, <2>1 DEF KeyboardEnds, KeyboardAtStart
<1>10. CASE Joins("own") /\ UNCHANGED keyboard
  BY <1>10, ArbitrationStep
<1>11. QED BY <1>2, <1>3, <1>4, <1>5, <1>6, <1>7, <1>8, <1>9, <1>10 DEF Keyboard

LEMMA IInvInit == Init => IInv
<1> SUFFICES ASSUME Init PROVE IInv OBVIOUS
<1>1. ArbitrationType
  BY ArbitrationAssumption DEF Init, ArbitrationInit, ArbitrationType, Nodes
<1>2. tool \in {"phone", "pad", "keyboard"} BY DEF Init
<1>3. PhoneType /\ StopNotForgotten BY DEF Init, PhoneAtStart, PhoneType, StopNotForgotten
<1>4. PadType /\ PadLocked BY DEF Init, PadAtStart, PadType, PadLocked
<1>5. KeyboardType /\ NoStuckKey /\ KeysNeedFocus
  BY DEF Init, KeyboardAtStart, KeyboardType, NoStuckKey, KeysNeedFocus
<1>6. QED BY <1>1, <1>2, <1>3, <1>4, <1>5 DEF IInv, TypeOK, PhoneType, PadType, KeyboardType

LEMMA IInvStep == IInv /\ [Next]_vars => IInv'
<1> SUFFICES ASSUME IInv, [Next]_vars PROVE IInv' OBVIOUS
<1>0. /\ ArbitrationType /\ tool \in {"phone", "pad", "keyboard"}
      /\ PhoneType /\ StopNotForgotten /\ PadType /\ PadLocked
      /\ KeyboardType /\ NoStuckKey /\ KeysNeedFocus
  BY DEF IInv, TypeOK, PhoneType, PadType, KeyboardType
<1>1. ASSUME ArbitrationType', tool' \in {"phone", "pad", "keyboard"},
             PhoneType', StopNotForgotten', PadType', PadLocked',
             KeyboardType', NoStuckKey', KeysNeedFocus'
      PROVE IInv'
  BY <1>1 DEF IInv, TypeOK, PhoneType, PadType, KeyboardType
<1>2. UNCHANGED phone => PhoneType' /\ StopNotForgotten'
  BY <1>0 DEF PhoneType, StopNotForgotten
<1>3. UNCHANGED pad => PadType' /\ PadLocked'
  BY <1>0 DEF PadType, PadLocked
<1>4. UNCHANGED keyboard => KeyboardType' /\ NoStuckKey' /\ KeysNeedFocus'
  BY <1>0 DEF KeyboardType, NoStuckKey, KeysNeedFocus
<1>5. CASE Phone
  <2>1. UNCHANGED <<tool, pad, keyboard>> BY <1>5 DEF Phone, WithPhone
  <2>2. ArbitrationType' /\ PhoneType' /\ StopNotForgotten' BY <1>0, <1>5, PhoneStep
  <2>3. QED BY <1>0, <1>1, <1>3, <1>4, <2>1, <2>2
<1>6. CASE Pad
  <2>1. UNCHANGED <<tool, phone, keyboard>> BY <1>6 DEF Pad, WithPad
  <2>2. ArbitrationType' /\ PadType' /\ PadLocked' BY <1>0, <1>6, PadStep
  <2>3. QED BY <1>0, <1>1, <1>2, <1>4, <2>1, <2>2
<1>7. CASE Keyboard
  <2>1. UNCHANGED <<tool, phone, pad>> BY <1>7 DEF Keyboard, WithKeyboard
  <2>2. ArbitrationType' /\ KeyboardType' /\ NoStuckKey' /\ KeysNeedFocus'
    BY <1>0, <1>7, KeyboardStep
  <2>3. QED BY <1>0, <1>1, <1>2, <1>3, <2>1, <2>2
<1>8. CASE Arbitration \/ UNCHANGED vars
  <2>1. UNCHANGED <<tool, phone, pad, keyboard>> BY <1>8 DEF Arbitration, Elsewhere, vars
  <2>2. ArbitrationType' BY <1>0, <1>8, ArbitrationStep DEF Arbitration, vars
  <2>3. QED BY <1>0, <1>1, <1>2, <1>3, <1>4, <2>1, <2>2
<1>9. QED BY <1>5, <1>6, <1>7, <1>8 DEF Next

LEMMA IInvAlways == Spec => []IInv
BY IInvInit, IInvStep, PTL DEF Spec

\* Every variable of Teleop has its type, whatever the depth of the subscription.
THEOREM TypeCorrect == Spec => []TypeOK
<1>1. IInv => TypeOK BY DEF IInv
<1>2. QED BY <1>1, IInvAlways, PTL

\* phone_teleop_server forgets no stop it has accepted.
THEOREM StopNotForgottenAlways == Spec => []StopNotForgotten
<1>1. IInv => StopNotForgotten BY DEF IInv
<1>2. QED BY <1>1, IInvAlways, PTL

\* cm029_teleop drives only on a Start pressed since it was last locked.
THEOREM PadNeedsStartAlways == Spec => []PadNeedsStart
<1>1. IInv => PadNeedsStart BY DEF IInv, PadLocked, PadNeedsStart, PadMayDrive
<1>2. QED BY <1>1, IInvAlways, PTL

\* keyboard_teleop holds no key that is up.
THEOREM NoStuckKeyAlways == Spec => []NoStuckKey
<1>1. IInv => NoStuckKey BY DEF IInv
<1>2. QED BY <1>1, IInvAlways, PTL
=============================================================================
