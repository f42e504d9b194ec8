-------------------------- MODULE LiftBridgeProofs --------------------------
(***************************************************************************)
(* Theorems about the safety of LiftBridge, for any number of lines and    *)
(* frames on the way.                                                      *)
(***************************************************************************)
EXTENDS LiftBridge, TLAPS, SequenceTheorems

\* A stream of commands older than the reference is not quiet, and is still to be
\* waited out once the node knows of the reference.
OldStreamWaits ==
  /\ quiet => ~old_stream
  /\ old_stream /\ lift_homed => quiet_required

IInv == BridgeTypeOK /\ ClosedKnowsNothing /\ OldStreamWaits

-----------------------------------------------------------------------------
(* The lines on the way.                                                   *)

\* The lines the ESP32 has not obeyed, in every step of the node.
LinesType == pending \in Seq(Kinds) /\ Len(pending) <= MaxLines

LEMMA EmptyLines ==
  ASSUME pending' = <<>>
  PROVE  LinesType'
<1>1. pending' \in Seq(Kinds) /\ Len(pending') = 0
  BY EmptySeq
<1>2. 0 <= MaxLines
  BY LiftBridgeAssumption
<1>3. QED
  BY <1>1, <1>2 DEF LinesType

LEMMA SentLines ==
  ASSUME LinesType, NEW kind \in Kinds, Len(pending) < MaxLines,
         pending' = Append(pending, kind)
  PROVE  LinesType' /\ Len(pending') = Len(pending) + 1 /\ pending'[Len(pending')] = kind
<1>1. /\ pending' \in Seq(Kinds) /\ Len(pending') = Len(pending) + 1
      /\ pending'[Len(pending) + 1] = kind /\ Len(pending) \in Nat
  BY AppendProperties, LenProperties DEF LinesType
<1>2. QED
  BY <1>1, LiftBridgeAssumption DEF LinesType

LEMMA FewerLines ==
  ASSUME LinesType, pending # <<>>, pending' = Tail(pending)
  PROVE  LinesType' /\ Len(pending') < Len(pending)
<1>1. /\ pending' \in Seq(Kinds) /\ Len(pending') = Len(pending) - 1
      /\ Len(pending) \in Nat
  BY HeadTailProperties, LenProperties DEF LinesType
<1>2. QED
  BY <1>1, LiftBridgeAssumption DEF LinesType

LEMMA CutLines ==
  ASSUME LinesType, NEW n \in 0..Len(pending), pending' = SubSeq(pending, 1, n)
  PROVE  LinesType' /\ Len(pending') <= Len(pending)
<1>1. Len(pending) \in Nat /\ pending \in Seq(Kinds)
  BY LenProperties DEF LinesType
<1>2. n \in Nat /\ n <= Len(pending)
  BY <1>1
<1>3. /\ pending' \in Seq(Kinds)
      /\ Len(pending') = IF 1 <= n THEN n - 1 + 1 ELSE 0
  <2>1. \A i \in 1..n : pending[i] \in Kinds
    BY <1>1, <1>2, ElementOfSeq
  <2>2. QED
    BY <1>1, <1>2, <2>1, SubSeqProperties
<1>4. QED
  BY <1>1, <1>2, <1>3, LiftBridgeAssumption DEF LinesType

\* A sequence one longer is no tail, no part and no copy of the one before.
LEMMA AppendedIsLonger ==
  ASSUME LinesType, NEW kind \in Kinds, pending' = Append(pending, kind)
  PROVE  Len(pending') = Len(pending) + 1 /\ Len(pending) \in Nat
  BY AppendProperties, LenProperties DEF LinesType

\* The frames on the way.
FramesType == tx \in Seq(States) /\ Len(tx) <= MaxFrames

LEMMA NoFrames ==
  ASSUME tx' = <<>>
  PROVE  FramesType'
<1>1. tx' \in Seq(States) /\ Len(tx') = 0
  BY EmptySeq
<1>2. 0 <= MaxFrames
  BY LiftBridgeAssumption
<1>3. QED
  BY <1>1, <1>2 DEF FramesType

LEMMA MoreFrames ==
  ASSUME FramesType, state \in States, Len(tx) < MaxFrames, tx' = Append(tx, state)
  PROVE  FramesType'
<1>1. tx' \in Seq(States) /\ Len(tx') = Len(tx) + 1 /\ Len(tx) \in Nat
  BY AppendProperties, LenProperties DEF FramesType
<1>2. QED
  BY <1>1, LiftBridgeAssumption DEF FramesType

LEMMA FewerFrames ==
  ASSUME FramesType, tx # <<>>, tx' = Tail(tx)
  PROVE  FramesType' /\ Head(tx) \in States
<1>1. /\ Head(tx) \in States /\ tx' \in Seq(States)
      /\ Len(tx') = Len(tx) - 1 /\ Len(tx) \in Nat
  BY HeadTailProperties, LenProperties DEF FramesType
<1>2. QED
  BY <1>1, LiftBridgeAssumption DEF FramesType

-----------------------------------------------------------------------------
(* The invariant, step by step.                                            *)

\* What the node knows.
NodeType ==
  /\ home_active \in BOOLEAN /\ home_seen_running \in BOOLEAN
  /\ home_expired \in BOOLEAN /\ lift_homed \in BOOLEAN
  /\ quiet_required \in BOOLEAN /\ quiet \in BOOLEAN /\ old_stream \in BOOLEAN

LEMMA IInvParts ==
  /\ IInv <=> /\ LinesType /\ FramesType /\ NodeType /\ OldStreamWaits
              /\ ClosedKnowsNothing /\ state \in States /\ port \in {"open", "closed"}
  /\ IInv' <=> /\ LinesType' /\ FramesType' /\ NodeType' /\ OldStreamWaits'
               /\ ClosedKnowsNothing' /\ state' \in States /\ port' \in {"open", "closed"}
  BY DEF IInv, BridgeTypeOK, LinesType, FramesType, NodeType

LEMMA DeviceKeeps ==
  ASSUME IInv, Device \/ DeviceResets
  PROVE  IInv'
<1>1. UNCHANGED <<port, node>>
  BY DEF Device, DeviceResets, PublishLiftTelemetry, LiftObeys, LiftRuns, DeviceRuns
<1>2. NodeType' /\ OldStreamWaits' /\ ClosedKnowsNothing' /\ port' \in {"open", "closed"}
  BY <1>1, IInvParts DEF NodeType, OldStreamWaits, ClosedKnowsNothing, node, home
<1>3. CASE PublishLiftTelemetry
  <2>1. FramesType'
    BY <1>3, IInvParts, MoreFrames DEF PublishLiftTelemetry
  <2>2. QED
    BY <1>2, <1>3, <2>1, IInvParts DEF PublishLiftTelemetry, deviceVars, LinesType
<1>4. CASE LiftObeys
  <2>1. LinesType'
    BY <1>4, IInvParts, FewerLines DEF LiftObeys, Obey
  <2>2. state' \in States
    <3>1. state' \in After(state, Head(pending)) /\ Head(pending) \in Kinds
      BY <1>4, IInvParts, HeadTailProperties DEF LiftObeys, Obey, LinesType
    <3>2. QED
      BY <3>1, IInvParts DEF After, Home, Stop, Set, Kinds
  <2>3. QED
    BY <1>2, <1>4, <2>1, <2>2, IInvParts DEF LiftObeys, FramesType
<1>5. CASE LiftRuns
  BY <1>2, <1>5, IInvParts DEF LiftRuns, Run, Moves, LinesType, FramesType
<1>6. CASE DeviceResets
  <2>1. LinesType'
    BY <1>6, EmptyLines DEF DeviceResets, Reset
  <2>2. state' \in States
    BY <1>6 DEF DeviceResets, Reset, Unpowered, States, Modes
  <2>3. QED
    BY <1>2, <1>6, <2>1, <2>2, IInvParts DEF DeviceResets, FramesType
<1>7. QED
  BY <1>3, <1>4, <1>5, <1>6 DEF Device

LEMMA NodeKeeps ==
  ASSUME IInv, Node
  PROVE  IInv'
<1>1. state' = state
  BY DEF Node, TryConnect, SendLiftHeartbeat, ReceiveFrame, NodeRuns
<1>2. CASE TryConnect
  <2>1. FramesType'
    BY <1>2, NoFrames DEF TryConnect
  <2>2. QED
    BY <1>1, <1>2, <2>1, IInvParts
    DEF TryConnect, LinesType, NodeType, OldStreamWaits, ClosedKnowsNothing, node, home
<1>3. CASE SendLiftHeartbeat
  <2>1. LinesType'
    <3>1. CASE home_active /\ SendSerialLine("HB")
      BY <3>1, IInvParts, SentLines DEF SendSerialLine, Kinds
    <3>2. CASE UNCHANGED pending
      BY <3>2, IInvParts DEF LinesType
    <3>3. QED
      BY <1>3, <3>1, <3>2 DEF SendLiftHeartbeat
  <2>2. quiet_required' = (quiet_required /\ ~(lift_homed /\ quiet))
        /\ UNCHANGED <<port, tx, home, lift_homed, quiet, old_stream>>
    BY <1>3 DEF SendLiftHeartbeat
  <2>3. NodeType' /\ OldStreamWaits' /\ ClosedKnowsNothing'
    BY <2>2, IInvParts DEF NodeType, OldStreamWaits, ClosedKnowsNothing, home
  <2>4. QED
    BY <1>1, <2>1, <2>2, <2>3, IInvParts DEF FramesType
<1>4. CASE ReceiveFrame
  <2>1. /\ FramesType' /\ Head(tx) \in States /\ port = "open" /\ port' = "open"
        /\ pending' = pending
    BY <1>4, IInvParts, FewerFrames DEF ReceiveFrame
  <2>2. NodeType' /\ OldStreamWaits'
    <3>1. CASE UNCHANGED node
      BY <3>1, IInvParts DEF NodeType, OldStreamWaits, node, home
    <3>2. CASE ReadFrame(Head(tx))
      BY <2>1, <3>2, IInvParts DEF ReadFrame, NodeType, OldStreamWaits, Homed, HomeOver
    <3>3. QED
      BY <1>4, <3>1, <3>2 DEF ReceiveFrame
  <2>3. QED
    BY <1>1, <2>1, <2>2, IInvParts DEF LinesType, ClosedKnowsNothing
<1>5. QED
  BY <1>2, <1>3, <1>4 DEF Node

LEMMA UsersKeep ==
  ASSUME IInv, Users \/ Time
  PROVE  IInv'
<1>1. UNCHANGED <<state, port, tx>>
  BY DEF Users, Time, LiftHome, LiftCommand, GoQuiet, HomeTakesTooLong, NodeRuns
<1>2. CASE LiftHome
  <2>1. LinesType' /\ port = "open"
    BY <1>2, IInvParts, SentLines DEF LiftHome, SendSerialLine, Kinds
  <2>2. QED
    BY <1>1, <1>2, <2>1, IInvParts
    DEF LiftHome, FramesType, NodeType, OldStreamWaits, ClosedKnowsNothing
<1>3. CASE \E in_range \in BOOLEAN : LiftCommand(in_range)
  <2>1. PICK in_range \in BOOLEAN : LiftCommand(in_range)
    BY <1>3
  <2>2. LinesType'
    <3>1. CASE SendSerialLine("SET")
      BY <3>1, IInvParts, SentLines DEF SendSerialLine, Kinds
    <3>2. CASE UNCHANGED pending
      BY <3>2, IInvParts DEF LinesType
    <3>3. QED
      BY <2>1, <3>1, <3>2 DEF LiftCommand
  <2>3. NodeType' /\ ClosedKnowsNothing'
    BY <1>1, <2>1, IInvParts DEF LiftCommand, NodeType, ClosedKnowsNothing, home
  <2>4. OldStreamWaits'
    BY <2>1, IInvParts DEF LiftCommand, NodeType, OldStreamWaits
  <2>5. QED
    BY <1>1, <2>2, <2>3, <2>4, IInvParts DEF FramesType
<1>4. CASE Time
  BY <1>1, <1>4, IInvParts
  DEF Time, GoQuiet, HomeTakesTooLong, LinesType, FramesType, NodeType, OldStreamWaits,
      ClosedKnowsNothing, home
<1>5. QED
  BY <1>2, <1>3, <1>4 DEF Users

LEMMA FaultsKeep ==
  ASSUME IInv, PortFails \/ LineLost \/ \E kind \in Kinds : Console(kind)
  PROVE  IInv'
<1>1. state' = state
  BY DEF PortFails, LineLost, Console, NodeRuns
<1>2. CASE PortFails
  <2>1. LinesType'
    BY <1>2, IInvParts, CutLines DEF PortFails
  <2>2. FramesType' /\ NodeType' /\ OldStreamWaits' /\ ClosedKnowsNothing' /\ port' = "closed"
    BY <1>2, IInvParts, NoFrames
    DEF PortFails, CloseSerial, NodeType, OldStreamWaits, ClosedKnowsNothing
  <2>3. QED
    BY <1>1, <2>1, <2>2, IInvParts
<1>3. CASE LineLost
  <2>1. LinesType' /\ FramesType'
    BY <1>3, IInvParts, FewerLines, FewerFrames DEF LineLost, LinesType, FramesType
  <2>2. QED
    BY <1>1, <1>3, <2>1, IInvParts
    DEF LineLost, NodeType, OldStreamWaits, ClosedKnowsNothing, node, home
<1>4. CASE \E kind \in Kinds : Console(kind)
  <2>1. LinesType'
    BY <1>4, IInvParts, SentLines DEF Console
  <2>2. QED
    BY <1>1, <1>4, <2>1, IInvParts
    DEF Console, FramesType, NodeType, OldStreamWaits, ClosedKnowsNothing, node, home
<1>5. QED
  BY <1>2, <1>3, <1>4

LEMMA InitIInv == BridgeInit => IInv
<1> SUFFICES ASSUME BridgeInit PROVE IInv
  OBVIOUS
<1>1. pending \in Seq(Kinds) /\ Len(pending) = 0 /\ tx \in Seq(States) /\ Len(tx) = 0
  BY EmptySeq DEF BridgeInit, Init
<1>2. LinesType /\ FramesType
  BY <1>1, LiftBridgeAssumption DEF LinesType, FramesType
<1>3. state \in States
  BY DEF BridgeInit, Init, Unpowered, States, Modes
<1>4. NodeType /\ OldStreamWaits /\ ClosedKnowsNothing /\ port \in {"open", "closed"}
  BY DEF BridgeInit, NodeType, OldStreamWaits, ClosedKnowsNothing
<1>5. QED
  BY <1>2, <1>3, <1>4, IInvParts

LEMMA NextIInv == IInv /\ [BridgeNext]_vars => IInv'
<1>1. IInv /\ UNCHANGED vars => IInv'
  BY DEF IInv, BridgeTypeOK, ClosedKnowsNothing, OldStreamWaits, vars, deviceVars, node, home
<1>2. QED
  BY <1>1, DeviceKeeps, NodeKeeps, UsersKeep, FaultsKeep DEF BridgeNext, Faults

LEMMA SpecIInv == BridgeSpec => []IInv
  BY InitIInv, NextIInv, PTL DEF BridgeSpec

-----------------------------------------------------------------------------
\* Every variable keeps its type, with any number of lines and frames on the way.
THEOREM TypeCorrect == BridgeSpec => []BridgeTypeOK
<1>1. IInv => BridgeTypeOK
  BY DEF IInv
<1>2. QED
  BY <1>1, SpecIInv, PTL

\* Nothing known of the lift outlives its connection.
THEOREM ClosedKnowsNothingAlways == BridgeSpec => []ClosedKnowsNothing
<1>1. IInv => ClosedKnowsNothing
  BY DEF IInv
<1>2. QED
  BY <1>1, SpecIInv, PTL

\* A target of a stream older than the reference is never sent.
THEOREM StaleTargetsHeldAlways == BridgeSpec => StaleTargetsHeld
<1>1. IInv /\ [BridgeNext]_vars => [old_stream => ~SetSent]_vars
  <2> SUFFICES ASSUME IInv, BridgeNext, old_stream, SetSent
               PROVE  FALSE
    OBVIOUS
  <2>1. LinesType /\ OldStreamWaits /\ port = "open" /\ pending' = Append(pending, "SET")
    BY IInvParts DEF SetSent
  <2>2. Len(pending') = Len(pending) + 1 /\ Len(pending) \in Nat
    BY <2>1, AppendedIsLonger DEF Kinds
  <2>3. pending'[Len(pending) + 1] = "SET"
    BY <2>1, AppendProperties DEF LinesType, Kinds
  <2>4. CASE UNCHANGED pending
    BY <2>2, <2>4
  <2>5. CASE pending # <<>> /\ pending' = Tail(pending)
    BY <2>1, <2>2, <2>5, FewerLines
  <2>6. CASE pending' = <<>>
    BY <2>2, <2>6, EmptySeq
  <2>7. CASE PortFails
    BY <2>1, <2>2, <2>7, CutLines DEF PortFails
  <2>8. ASSUME NEW kind \in {"HOME", "HB"}, SendSerialLine(kind)
        PROVE  FALSE
    BY <2>1, <2>3, <2>8, SentLines, AppendProperties DEF SendSerialLine, LinesType, Kinds
  <2>9. ASSUME NEW in_range \in BOOLEAN, LiftCommand(in_range)
        PROVE  FALSE
    <3>1. UNCHANGED pending
      BY <2>1, <2>9 DEF LiftCommand, OldStreamWaits
    <3>2. QED
      BY <2>4, <3>1
  <2>10. CASE Device
    BY <2>4, <2>5, <2>10
    DEF Device, PublishLiftTelemetry, LiftObeys, LiftRuns, Obey, Run, deviceVars
  <2>11. CASE Node
    BY <2>4, <2>8, <2>11 DEF Node, TryConnect, SendLiftHeartbeat, ReceiveFrame
  <2>12. CASE Users
    BY <2>8, <2>9, <2>12 DEF Users, LiftHome
  <2>13. CASE Faults
    BY <2>1, <2>4, <2>5, <2>6, <2>7, <2>13
    DEF Faults, DeviceResets, Reset, LineLost, Console
  <2>14. CASE Time
    BY <2>4, <2>14 DEF Time, GoQuiet, HomeTakesTooLong
  <2>15. QED
    BY <2>10, <2>11, <2>12, <2>13, <2>14 DEF BridgeNext
<1>2. QED
  BY <1>1, SpecIInv, PTL DEF BridgeSpec, StaleTargetsHeld
=============================================================================
