-------------------------- MODULE EscapeTreeProofs --------------------------
(* Proofs about EscapeTree, for any floor, worlds, goals and bounds.       *)
EXTENDS EscapeTree, SequenceTheorems, TLAPS

(* The memory is a large record.  Each lemma says of one way to change it  *)
(* that it stays a memory and what it does to the parts the properties     *)
(* are about.                                                              *)

(* The parts of the type invariant that the memory needs.                  *)
Ground == /\ place \in Places /\ heading \in Headings /\ goal \in Goals
          /\ memory \in Memories

LEMMA FieldsMemory ==
  ASSUME NEW m \in Memories
  PROVE  /\ \A r \in Places \cup {Nowhere} : [m EXCEPT !.region = r] \in Memories
         /\ \A n \in 0..2 : [m EXCEPT !.adjustments = n] \in Memories
         /\ \A s \in Seq(Poses) : [m EXCEPT !.attempts = s] \in Memories
         /\ \A n \in {0, 1} : [m EXCEPT !.min_retreat = n] \in Memories
         /\ \A b \in BOOLEAN : [m EXCEPT !.committed = b] \in Memories
         /\ \A b \in BOOLEAN : [m EXCEPT !.turn_collision = b] \in Memories
         /\ \A b \in BOOLEAN : [m EXCEPT !.failed_forward = b] \in Memories
         /\ \A q \in Poses : [m EXCEPT !.collision = q] \in Memories
         /\ \A b \in BOOLEAN : [m EXCEPT !.retreat_active = b] \in Memories
         /\ \A b \in BOOLEAN : [m EXCEPT !.retreat_stopped = b] \in Memories
         /\ \A q \in Poses : [m EXCEPT !.retreat = q] \in Memories
         /\ \A b \in BOOLEAN : [m EXCEPT !.forward_stop = b] \in Memories
         /\ \A b \in BOOLEAN : [m EXCEPT !.turn_stop = b] \in Memories
         /\ \A b \in BOOLEAN : [m EXCEPT !.goal_facing = b] \in Memories
         /\ \A b \in BOOLEAN : [m EXCEPT !.handoff = b] \in Memories
<1>1. \A r \in Places \cup {Nowhere} : [m EXCEPT !.region = r] \in Memories
  BY DEF Memories
<1>2. \A n \in 0..2 : [m EXCEPT !.adjustments = n] \in Memories
  BY DEF Memories
<1>3. \A s \in Seq(Poses) : [m EXCEPT !.attempts = s] \in Memories
  BY DEF Memories
<1>4. \A n \in {0, 1} : [m EXCEPT !.min_retreat = n] \in Memories
  BY DEF Memories
<1>5. \A b \in BOOLEAN : [m EXCEPT !.committed = b] \in Memories
  BY DEF Memories
<1>6. \A b \in BOOLEAN : [m EXCEPT !.turn_collision = b] \in Memories
  BY DEF Memories
<1>7. \A b \in BOOLEAN : [m EXCEPT !.failed_forward = b] \in Memories
  BY DEF Memories
<1>8. \A q \in Poses : [m EXCEPT !.collision = q] \in Memories
  BY DEF Memories
<1>9. \A b \in BOOLEAN : [m EXCEPT !.retreat_active = b] \in Memories
  BY DEF Memories
<1>10. \A b \in BOOLEAN : [m EXCEPT !.retreat_stopped = b] \in Memories
  BY DEF Memories
<1>11. \A q \in Poses : [m EXCEPT !.retreat = q] \in Memories
  BY DEF Memories
<1>12. \A b \in BOOLEAN : [m EXCEPT !.forward_stop = b] \in Memories
  BY DEF Memories
<1>13. \A b \in BOOLEAN : [m EXCEPT !.turn_stop = b] \in Memories
  BY DEF Memories
<1>14. \A b \in BOOLEAN : [m EXCEPT !.goal_facing = b] \in Memories
  BY DEF Memories
<1>15. \A b \in BOOLEAN : [m EXCEPT !.handoff = b] \in Memories
  BY DEF Memories
<1> QED
  BY <1>1, <1>2, <1>3, <1>4, <1>5, <1>6, <1>7, <1>8, <1>9, <1>10, <1>11, <1>12, <1>13, <1>14, <1>15

LEMMA ObservedMemory ==
  ASSUME NEW m \in Memories
  PROVE  /\ Observed(m) \in Memories
         /\ Observed(m).goal = m.goal /\ Observed(m).attempts = m.attempts
         /\ Observed(m).committed = m.committed
         /\ Observed(m).goal_facing = m.goal_facing
<1> DEFINE r == [m EXCEPT !.region = Nowhere]
           a == [r EXCEPT !.adjustments = 0]
<1>1. r \in Memories
  BY FieldsMemory
<1>2. a \in Memories
  <2>1. 0 \in 0..2
    OBVIOUS
  <2> HIDE DEF r
  <2> QED
    BY <1>1, <2>1, FieldsMemory
<1>3. Observed(m) \in {m, a}
  BY DEF Observed
<1>4. /\ a.goal = m.goal /\ a.attempts = m.attempts
      /\ a.committed = m.committed /\ a.goal_facing = m.goal_facing
  BY DEF Memories
<1> HIDE DEF a
<1> QED
  BY <1>2, <1>3, <1>4

LEMMA BlankMemory ==
  ASSUME Ground
  PROVE  Blank \in Memories
  BY DEF Ground, Blank, Memories, pose, Poses

LEMMA RenewedMemory ==
  ASSUME Ground
  PROVE  /\ Renewed \in Memories /\ Renewed.goal = goal
         /\ memory.goal = goal => Renewed = memory
  BY BlankMemory DEF Ground, Renewed, Blank

LEMMA SeenMemory ==
  ASSUME Ground
  PROVE  /\ Seen \in Memories /\ Seen.goal = goal
         /\ memory.goal = goal => /\ Seen.attempts = memory.attempts
                                  /\ Seen.committed = memory.committed
                                  /\ Seen.goal_facing = memory.goal_facing
  BY RenewedMemory, ObservedMemory DEF Seen

LEMMA AdjustedMemory ==
  ASSUME NEW m \in Memories, Ground
  PROVE  /\ Adjusted(m) \in Memories
         /\ Adjusted(m).goal = m.goal /\ Adjusted(m).attempts = m.attempts
         /\ m.committed => Adjusted(m).committed
<1> DEFINE o == Observed(m)
           n == IF o.adjustments = 0 THEN 1 ELSE 2
<1>1. o \in Memories /\ o.goal = m.goal /\ o.attempts = m.attempts
      /\ o.committed = m.committed
  BY ObservedMemory
<1>2. n \in 0..2
  OBVIOUS
<1>3. Adjusted(m) = [o EXCEPT !.region = IF @ = Nowhere THEN place ELSE @,
                              !.adjustments = n,
                              !.committed = @ \/ n = 2]
  BY DEF Adjusted
<1> HIDE DEF o, n
<1> QED
  BY <1>1, <1>2, <1>3 DEF Memories, Ground

(* A turn is noted in front of the others.                                 *)
LEMMA NotedSeq ==
  ASSUME NEW t \in Seq(Poses), NEW turn \in Poses
  PROVE  /\ Noted(t, turn) \in Seq(Poses)
         /\ Len(Noted(t, turn)) = IF Len(t) < MaxAttempts THEN Len(t) + 1
                                  ELSE MaxAttempts
<1> DEFINE n == IF Len(t) < MaxAttempts THEN Len(t) + 1 ELSE MaxAttempts
<1>1. n \in Nat /\ n <= Len(t) + 1
  BY FloorAssumption
<1>2. Noted(t, turn) = [i \in 1..n |-> IF i = 1 THEN turn ELSE t[i - 1]]
  BY DEF Noted
<1>3. \A i \in 1..n : (IF i = 1 THEN turn ELSE t[i - 1]) \in Poses
  BY <1>1
<1> HIDE DEF n
<1>4. Noted(t, turn) \in [1..n -> Poses]
  BY <1>2, <1>3
<1>5. Noted(t, turn) \in Seq(Poses)
  BY <1>1, <1>4, SeqDef
<1>6. Len(Noted(t, turn)) = n
  BY <1>1, <1>4, <1>5, LenProperties
<1> QED
  BY <1>5, <1>6 DEF n

(* The latest turns of one history are those of a longer one.              *)
Leads(s, t) == Len(s) <= Len(t) /\ \A i \in 1..Len(s) : s[i] = t[i]

LEMMA LeadsNoted ==
  ASSUME NEW s \in Seq(Poses), NEW t \in Seq(Poses), NEW turn \in Poses,
         Leads(s, t)
  PROVE  Leads(Noted(s, turn), Noted(t, turn))
<1> DEFINE ns == IF Len(s) < MaxAttempts THEN Len(s) + 1 ELSE MaxAttempts
           nt == IF Len(t) < MaxAttempts THEN Len(t) + 1 ELSE MaxAttempts
<1>1. Len(s) \in Nat /\ Len(t) \in Nat /\ Len(s) <= Len(t)
  BY LenProperties DEF Leads
<1>2. ns \in Nat /\ nt \in Nat /\ ns <= nt /\ ns <= Len(s) + 1
  BY <1>1, FloorAssumption
<1>3. Len(Noted(s, turn)) = ns /\ Len(Noted(t, turn)) = nt
  BY NotedSeq
<1>4. /\ Noted(s, turn) = [i \in 1..ns |-> IF i = 1 THEN turn ELSE s[i - 1]]
      /\ Noted(t, turn) = [i \in 1..nt |-> IF i = 1 THEN turn ELSE t[i - 1]]
  BY DEF Noted
<1> HIDE DEF ns, nt
<1>5. ASSUME NEW i \in 1..ns
      PROVE  Noted(s, turn)[i] = Noted(t, turn)[i]
  <2>1. i \in 1..nt /\ (i # 1 => i - 1 \in 1..Len(s))
    BY <1>1, <1>2
  <2>2. i # 1 => s[i - 1] = t[i - 1]
    BY <2>1 DEF Leads
  <2> QED
    BY <1>4, <2>1, <2>2
<1> QED
  BY <1>2, <1>3, <1>5 DEF Leads

LEMMA LeadsAmong ==
  ASSUME NEW s \in Seq(Poses), NEW t \in Seq(Poses), NEW turn,
         Leads(s, t), Among(turn, s)
  PROVE  Among(turn, t)
<1>1. DOMAIN s = 1..Len(s) /\ DOMAIN t = 1..Len(t) /\ Len(s) \in Nat /\ Len(t) \in Nat
  BY LenProperties
<1>2. PICK i \in 1..Len(s) : s[i] = turn
  BY <1>1 DEF Among
<1>3. i \in 1..Len(t) /\ t[i] = turn
  BY <1>1, <1>2 DEF Leads
<1> QED
  BY <1>1, <1>3 DEF Among

LEMMA LeadsNothing ==
  ASSUME NEW t \in Seq(Poses)
  PROVE  Leads(<<>>, t)
<1>1. Len(<<>>) = 0 /\ Len(t) \in Nat
  BY EmptySeq, LenProperties
<1> QED
  BY <1>1 DEF Leads

LEMMA TurnBegunMemory ==
  ASSUME NEW m \in Memories, Ground, aim \in Headings
  PROVE  /\ TurnBegun(m) \in Memories
         /\ TurnBegun(m).goal = m.goal
         /\ TurnBegun(m).attempts = Noted(m.attempts, <<place, aim>>)
         /\ m.committed => TurnBegun(m).committed
         /\ TurnBegun(m).goal_facing <=> aim = Toward[goal]
<1> DEFINE o == Adjusted(m)
           facing == aim = Toward[goal]
           x == [o EXCEPT !.turn_stop = FALSE]
           y == [x EXCEPT !.goal_facing = facing]
           z == [y EXCEPT !.attempts = Noted(o.attempts, <<place, aim>>)]
<1>1. /\ o \in Memories /\ o.goal = m.goal /\ o.attempts = m.attempts
      /\ m.committed => o.committed
  BY AdjustedMemory
<1>2. Noted(o.attempts, <<place, aim>>) \in Seq(Poses)
  BY <1>1, NotedSeq DEF Memories, Ground, Poses
<1>3. TurnBegun(m) = z
  BY DEF TurnBegun
<1> HIDE DEF o
<1>4. x \in Memories
  BY <1>1, FieldsMemory
<1>5. y \in Memories
  BY <1>4, FieldsMemory
<1>6. z \in Memories
  BY <1>2, <1>5, FieldsMemory
<1>7. /\ z.goal = o.goal /\ z.attempts = Noted(o.attempts, <<place, aim>>)
      /\ z.committed <=> o.committed
      /\ z.goal_facing <=> facing
  BY <1>1 DEF Memories
<1> HIDE DEF z
<1> QED
  BY <1>1, <1>3, <1>6, <1>7

LEMMA TurnCompletedMemory ==
  ASSUME NEW m \in Memories
  PROVE  /\ TurnCompleted(m) \in Memories
         /\ TurnCompleted(m).goal = m.goal
         /\ TurnCompleted(m).attempts = m.attempts
         /\ m.committed /\ ~m.goal_facing => TurnCompleted(m).committed
<1> DEFINE released == m.committed /\ m.goal_facing
           c == m.committed /\ ~released
           p == IF released THEN Nowhere ELSE m.region
           n == IF released THEN 0 ELSE m.adjustments
           x1 == [m EXCEPT !.failed_forward = FALSE]
           x2 == [x1 EXCEPT !.turn_collision = FALSE]
           x3 == [x2 EXCEPT !.goal_facing = FALSE]
           x4 == [x3 EXCEPT !.turn_stop = FALSE]
           x5 == [x4 EXCEPT !.handoff = FALSE]
           x6 == [x5 EXCEPT !.committed = c]
           x7 == [x6 EXCEPT !.region = p]
           x8 == [x7 EXCEPT !.adjustments = n]
<1>1. c \in BOOLEAN /\ p \in Places \cup {Nowhere} /\ n \in 0..2
  BY DEF Memories
<1>2. TurnCompleted(m) = x8
  BY DEF TurnCompleted
<1>3. /\ x8.goal = m.goal /\ x8.attempts = m.attempts
      /\ x8.committed <=> c
  BY DEF Memories
<1>4. x8 \in Memories
  <2> HIDE DEF c, p, n, released
  <2>1. x1 \in Memories
    BY FieldsMemory
  <2> HIDE DEF x1
  <2>2. x2 \in Memories
    BY <2>1, FieldsMemory
  <2> HIDE DEF x2
  <2>3. x3 \in Memories
    BY <2>2, FieldsMemory
  <2> HIDE DEF x3
  <2>4. x4 \in Memories
    BY <2>3, FieldsMemory
  <2> HIDE DEF x4
  <2>5. x5 \in Memories
    BY <2>4, FieldsMemory
  <2> HIDE DEF x5
  <2>6. x6 \in Memories
    BY <1>1, <2>5, FieldsMemory
  <2> HIDE DEF x6
  <2>7. x7 \in Memories
    BY <1>1, <2>6, FieldsMemory
  <2> HIDE DEF x7
  <2> QED
    BY <1>1, <2>7, FieldsMemory
<1> HIDE DEF x8
<1> QED
  BY <1>2, <1>3, <1>4

-----------------------------------------------------------------------------
(* What a check leaves behind: a memory for the goal of the step, which    *)
(* keeps the attempts made for that goal and the commitment.               *)
Kept(m) == /\ m \in Memories /\ m.goal = goal
           /\ memory.goal = goal => /\ m.attempts = memory.attempts
                                    /\ memory.committed => m.committed

LEMMA RenewedKept ==
  ASSUME Ground
  PROVE  Kept(Renewed)
  BY RenewedMemory DEF Kept

LEMMA SeenKept ==
  ASSUME Ground
  PROVE  Kept(Seen)
  BY SeenMemory DEF Kept

LEMMA KeptFields ==
  ASSUME NEW m, Kept(m), Ground
  PROVE  /\ Kept([m EXCEPT !.committed = TRUE])
         /\ \A b \in BOOLEAN : Kept([m EXCEPT !.turn_collision = b])
         /\ \A b \in BOOLEAN : Kept([m EXCEPT !.failed_forward = b])
         /\ \A b \in BOOLEAN : Kept([m EXCEPT !.retreat_active = b])
         /\ \A b \in BOOLEAN : Kept([m EXCEPT !.retreat_stopped = b])
         /\ \A b \in BOOLEAN : Kept([m EXCEPT !.forward_stop = b])
         /\ \A b \in BOOLEAN : Kept([m EXCEPT !.turn_stop = b])
         /\ \A b \in BOOLEAN : Kept([m EXCEPT !.handoff = b])
         /\ Kept([m EXCEPT !.collision = pose])
         /\ Kept([m EXCEPT !.retreat = pose])
         /\ \A n \in {0, 1} : Kept([m EXCEPT !.min_retreat = n])
<1>1. m \in Memories /\ pose \in Poses
  BY DEF Kept, Ground, pose, Poses
<1>2. Kept([m EXCEPT !.committed = TRUE])
  <2>1. [m EXCEPT !.committed = TRUE] \in Memories
    BY <1>1, FieldsMemory
  <2> QED
    BY <1>1, <2>1 DEF Kept, Memories
<1>3. \A b \in BOOLEAN : Kept([m EXCEPT !.turn_collision = b])
  <2> TAKE b \in BOOLEAN
  <2>1. [m EXCEPT !.turn_collision = b] \in Memories
    BY <1>1, FieldsMemory
  <2> QED
    BY <1>1, <2>1 DEF Kept, Memories
<1>4. \A b \in BOOLEAN : Kept([m EXCEPT !.failed_forward = b])
  <2> TAKE b \in BOOLEAN
  <2>1. [m EXCEPT !.failed_forward = b] \in Memories
    BY <1>1, FieldsMemory
  <2> QED
    BY <1>1, <2>1 DEF Kept, Memories
<1>5. \A b \in BOOLEAN : Kept([m EXCEPT !.retreat_active = b])
  <2> TAKE b \in BOOLEAN
  <2>1. [m EXCEPT !.retreat_active = b] \in Memories
    BY <1>1, FieldsMemory
  <2> QED
    BY <1>1, <2>1 DEF Kept, Memories
<1>6. \A b \in BOOLEAN : Kept([m EXCEPT !.retreat_stopped = b])
  <2> TAKE b \in BOOLEAN
  <2>1. [m EXCEPT !.retreat_stopped = b] \in Memories
    BY <1>1, FieldsMemory
  <2> QED
    BY <1>1, <2>1 DEF Kept, Memories
<1>7. \A b \in BOOLEAN : Kept([m EXCEPT !.forward_stop = b])
  <2> TAKE b \in BOOLEAN
  <2>1. [m EXCEPT !.forward_stop = b] \in Memories
    BY <1>1, FieldsMemory
  <2> QED
    BY <1>1, <2>1 DEF Kept, Memories
<1>8. \A b \in BOOLEAN : Kept([m EXCEPT !.turn_stop = b])
  <2> TAKE b \in BOOLEAN
  <2>1. [m EXCEPT !.turn_stop = b] \in Memories
    BY <1>1, FieldsMemory
  <2> QED
    BY <1>1, <2>1 DEF Kept, Memories
<1>9. \A b \in BOOLEAN : Kept([m EXCEPT !.handoff = b])
  <2> TAKE b \in BOOLEAN
  <2>1. [m EXCEPT !.handoff = b] \in Memories
    BY <1>1, FieldsMemory
  <2> QED
    BY <1>1, <2>1 DEF Kept, Memories
<1>10. Kept([m EXCEPT !.collision = pose])
  <2>1. [m EXCEPT !.collision = pose] \in Memories
    BY <1>1, FieldsMemory
  <2> QED
    BY <1>1, <2>1 DEF Kept, Memories
<1>11. Kept([m EXCEPT !.retreat = pose])
  <2>1. [m EXCEPT !.retreat = pose] \in Memories
    BY <1>1, FieldsMemory
  <2> QED
    BY <1>1, <2>1 DEF Kept, Memories
<1>12. \A n \in {0, 1} : Kept([m EXCEPT !.min_retreat = n])
  <2> TAKE n \in {0, 1}
  <2>1. [m EXCEPT !.min_retreat = n] \in Memories
    BY <1>1, FieldsMemory
  <2> QED
    BY <1>1, <2>1 DEF Kept, Memories
<1> QED
  BY <1>2, <1>3, <1>4, <1>5, <1>6, <1>7, <1>8, <1>9, <1>10, <1>11, <1>12

(* Every node but the two that begin and end a turn keeps the memory.      *)
Checks == \/ FindRoute \/ NoRoute \/ FollowRoute
          \/ Recover \/ AllowRecovery \/ GiveUp
          \/ SelectForward \/ BeginForward \/ DriveForward
          \/ CompleteForward \/ LeaveForward
          \/ SelectTurn \/ AfterSpinCollision \/ LostExit
          \/ Reverse \/ Available \/ Replan
          \/ MotionFails \/ StaleData \/ WorldChanges

LEMMA ChecksKeepMemory ==
  ASSUME Ground, Checks
  PROVE  memory' = memory \/ Kept(memory')
<1>1. Kept(Seen) /\ Kept(Renewed)
  BY SeenKept, RenewedKept
<1>2. CASE FindRoute \/ NoRoute \/ SelectForward \/ SelectTurn
  BY <1>1, <1>2 DEF FindRoute, NoRoute, SelectForward, SelectTurn
<1>3. CASE FollowRoute \/ Recover \/ GiveUp \/ MotionFails \/ StaleData \/ WorldChanges
  BY <1>3 DEF FollowRoute, Recover, GiveUp, MotionFails, StaleData, WorldChanges
<1>4. CASE AllowRecovery
  BY <1>1, <1>4 DEF AllowRecovery
<1>5. CASE BeginForward
  BY <1>1, <1>5, KeptFields DEF BeginForward
<1>6. CASE DriveForward
  BY <1>1, <1>6, KeptFields DEF DriveForward
<1>7. CASE CompleteForward
  <2>1. Kept(Adjusted(Seen))
    BY <1>1, AdjustedMemory DEF Kept
  <2> QED
    BY <1>1, <1>7, <2>1, KeptFields DEF CompleteForward
<1>8. CASE LeaveForward
  <2> DEFINE a == [Seen EXCEPT !.forward_stop = FALSE]
             b == [a EXCEPT !.committed = TRUE]
             c == [b EXCEPT !.turn_collision = TRUE]
             d == [c EXCEPT !.min_retreat = 0]
             e == [d EXCEPT !.failed_forward = TRUE]
             f == [e EXCEPT !.collision = pose]
  <2>1. memory' = Seen \/ memory' = f
    BY <1>8 DEF LeaveForward
  <2>2. Kept(a)
    BY <1>1, KeptFields
  <2> HIDE DEF a
  <2>3. Kept(b)
    BY <2>2, KeptFields
  <2> HIDE DEF b
  <2>4. Kept(c)
    BY <2>3, KeptFields
  <2> HIDE DEF c
  <2>5. Kept(d)
    BY <2>4, KeptFields
  <2> HIDE DEF d
  <2>6. Kept(e)
    BY <2>5, KeptFields
  <2> HIDE DEF e
  <2>7. Kept(f)
    BY <2>6, KeptFields
  <2> QED
    BY <1>1, <2>1, <2>7
<1>9. CASE AfterSpinCollision
  <2> DEFINE a == [Seen EXCEPT !.turn_collision = TRUE]
             b == [a EXCEPT !.min_retreat = 1]
             c == [b EXCEPT !.failed_forward = FALSE]
             d == [c EXCEPT !.collision = pose]
  <2>1. memory' = Seen \/ memory' = d
    BY <1>9 DEF AfterSpinCollision
  <2>2. Kept(a)
    BY <1>1, KeptFields
  <2> HIDE DEF a
  <2>3. Kept(b)
    BY <2>2, KeptFields
  <2> HIDE DEF b
  <2>4. Kept(c)
    BY <2>3, KeptFields
  <2> HIDE DEF c
  <2>5. Kept(d)
    BY <2>4, KeptFields
  <2> QED
    BY <1>1, <2>1, <2>5
<1>10. CASE LostExit
  <2> DEFINE a == [Seen EXCEPT !.committed = TRUE]
             b == [a EXCEPT !.turn_stop = FALSE]
             c == [b EXCEPT !.handoff = FALSE]
  <2>1. memory' = Seen \/ memory' = c
    BY <1>10 DEF LostExit
  <2>2. Kept(a)
    BY <1>1, KeptFields
  <2> HIDE DEF a
  <2>3. Kept(b)
    BY <2>2, KeptFields
  <2> HIDE DEF b
  <2>4. Kept(c)
    BY <2>3, KeptFields
  <2> QED
    BY <1>1, <2>1, <2>4
<1>11. CASE Reverse
  <2> DEFINE a == [Seen EXCEPT !.handoff = FALSE]
             b == [a EXCEPT !.committed = TRUE]
             c == [b EXCEPT !.retreat_active = TRUE]
             d == [c EXCEPT !.retreat_stopped = FALSE]
             e == [d EXCEPT !.retreat = pose]
             f == [Seen EXCEPT !.retreat_active = FALSE]
             stopped == Seen.retreat_stopped \/ Seen.retreat_active
             g == [f EXCEPT !.retreat_stopped = stopped]
  <2>1. memory' \in {Seen, e, g}
    BY <1>11 DEF Reverse
  <2>2. Kept(a)
    BY <1>1, KeptFields
  <2> HIDE DEF a
  <2>3. Kept(b)
    BY <2>2, KeptFields
  <2> HIDE DEF b
  <2>4. Kept(c)
    BY <2>3, KeptFields
  <2> HIDE DEF c
  <2>5. Kept(d)
    BY <2>4, KeptFields
  <2> HIDE DEF d
  <2>6. Kept(e)
    BY <2>5, KeptFields
  <2>7. Kept(f)
    BY <1>1, KeptFields
  <2>8. stopped \in BOOLEAN
    OBVIOUS
  <2> HIDE DEF f, stopped
  <2>9. Kept(g)
    BY <2>7, <2>8, KeptFields
  <2> HIDE DEF e, g
  <2> QED
    BY <1>1, <2>1, <2>6, <2>9
<1>12. CASE Available
  <2> DEFINE a == [Seen EXCEPT !.handoff = TRUE]
             b == [a EXCEPT !.retreat_active = FALSE]
             c == [b EXCEPT !.retreat_stopped = FALSE]
  <2>1. memory' = Seen \/ memory' = c
    BY <1>12 DEF Available
  <2>2. Kept(a)
    BY <1>1, KeptFields
  <2> HIDE DEF a
  <2>3. Kept(b)
    BY <2>2, KeptFields
  <2> HIDE DEF b
  <2>4. Kept(c)
    BY <2>3, KeptFields
  <2> QED
    BY <1>1, <2>1, <2>4
<1>13. CASE Replan
  <2> DEFINE a == [Renewed EXCEPT !.retreat_active = FALSE]
             b == [a EXCEPT !.retreat_stopped = FALSE]
  <2>1. memory' = Renewed \/ memory' = b
    BY <1>13 DEF Replan
  <2>2. Kept(a)
    BY <1>1, KeptFields
  <2> HIDE DEF a
  <2>3. Kept(b)
    BY <2>2, KeptFields
  <2> QED
    BY <1>1, <2>1, <2>3
<1> QED
  BY <1>2, <1>3, <1>4, <1>5, <1>6, <1>7, <1>8, <1>9, <1>10, <1>11, <1>12, <1>13 DEF Checks

-----------------------------------------------------------------------------
(* Type correctness, in parts: the pose and what is set with it, and the   *)
(* state of the tree.  The memory is the subject of the lemmas above.      *)

TypePose ==
  /\ place \in Places /\ heading \in Headings /\ aim \in Headings
  /\ world \in Worlds /\ goal \in Goals
  /\ distance \in 0..Advance /\ limitAt \in Places \cup {Nowhere}
  /\ spun \in Seq(Poses)

Outcomes == {"none", "collision", "fault"}
Errors == [controller : {"none", "blocked", "fault"},
           forward : Outcomes, turn : Outcomes, backup : Outcomes]

TypeTree ==
  /\ error \in Errors
  /\ pc \in DOMAIN OnFailure
            \cup {"routes", "following", "spinning", "giveUp", "done", "aborted"}
  /\ within \in {"primary", "again", "forward", "local", "retreat", "last"}
  /\ retries \in 0..2 /\ surprises \in 0..MaxSurprises

LEMMA TypeParts ==
  TypeOK <=> TypePose /\ TypeTree /\ memory \in Memories
  BY DEF TypeOK, TypePose, TypeTree, Errors, Outcomes

LEMMA FreeIsFloor ==
  ASSUME TypePose
  PROVE  world.free \subseteq Places
  BY FloorAssumption DEF TypePose

LEMMA OnFailureNodes ==
  /\ DOMAIN OnFailure = {"recover", "allowed", "forward", "forwardBegin", "driving",
       "forwardComplete", "forwardCollision", "turn", "turnBegin",
       "turnCollision", "reverse", "available", "stillAvailable", "lostExit",
       "replan"}
  /\ \A n \in DOMAIN OnFailure :
       OnFailure[n] \in (DOMAIN OnFailure \ {"turnBegin"}) \cup {"routes", "giveUp"}
  /\ OnFailure["forwardCollision"] = "routes" /\ OnFailure["replan"] = "routes"
  /\ OnFailure["turnCollision"] = "lostExit" /\ OnFailure["lostExit"] = "replan"
  /\ OnFailure["recover"] = "giveUp"
  BY DEF OnFailure

LEMMA PoseStep ==
  ASSUME TypePose, Next
  PROVE  TypePose'
<1> world.free \subseteq Places
  BY FreeIsFloor
<1> aim \in Headings /\ Headings = {<<1, 0>>, <<0, 1>>, <<-1, 0>>, <<0, -1>>}
  BY DEF TypePose, Headings
<1>1. CASE UNCHANGED spun /\ FindRoute
  BY <1>1 DEF FindRoute, TypePose, Standing, Outside, Settled, Stays, Surprise
<1>2. CASE UNCHANGED spun /\ NoRoute
  BY <1>2 DEF NoRoute, TypePose, Standing, Outside, Settled, Stays, Surprise
<1>3. CASE UNCHANGED spun /\ Recover
  BY <1>3 DEF Recover, TypePose, Standing, Outside, Settled, Stays, Surprise
<1>4. CASE UNCHANGED spun /\ AllowRecovery
  BY <1>4 DEF AllowRecovery, TypePose, Standing, Outside, Settled, Stays, Surprise
<1>5. CASE UNCHANGED spun /\ GiveUp
  BY <1>5 DEF GiveUp, TypePose, Standing, Outside, Settled, Stays, Surprise
<1>6. CASE UNCHANGED spun /\ BeginForward
  BY <1>6 DEF BeginForward, TypePose, Standing, Outside, Settled, Stays, Surprise
<1>7. CASE UNCHANGED spun /\ CompleteForward
  BY <1>7 DEF CompleteForward, TypePose, Standing, Outside, Settled, Stays, Surprise
<1>8. CASE UNCHANGED spun /\ LeaveForward
  BY <1>8 DEF LeaveForward, TypePose, Standing, Outside, Settled, Stays, Surprise
<1>9. CASE UNCHANGED spun /\ AfterSpinCollision
  BY <1>9 DEF AfterSpinCollision, TypePose, Standing, Outside, Settled, Stays, Surprise
<1>10. CASE UNCHANGED spun /\ LostExit
  BY <1>10 DEF LostExit, TypePose, Standing, Outside, Settled, Stays, Surprise
<1>11. CASE UNCHANGED spun /\ Available
  BY <1>11 DEF Available, TypePose, Standing, Outside, Settled, Stays, Surprise
<1>12. CASE UNCHANGED spun /\ Replan
  BY <1>12 DEF Replan, TypePose, Standing, Outside, Settled, Stays, Surprise
<1>13. CASE UNCHANGED spun /\ MotionFails
  BY <1>13 DEF MotionFails, TypePose, Standing, Outside, Settled, Stays, Surprise
<1>14. CASE UNCHANGED spun /\ StaleData
  BY <1>14 DEF StaleData, TypePose, Standing, Outside, Settled, Stays, Surprise
<1>15. CASE UNCHANGED spun /\ WorldChanges
  BY <1>15 DEF WorldChanges, TypePose, Standing, Outside, Settled, Stays, Surprise
<1>16. CASE UNCHANGED spun /\ FollowRoute
  BY <1>16 DEF FollowRoute, TypePose, Standing
<1>17. CASE UNCHANGED spun /\ SelectForward
  <2>1. distance' \in 1..Advance \/ distance' = distance
    BY <1>17 DEF SelectForward
  <2>2. distance' \in 0..Advance
    BY <2>1, FloorAssumption DEF TypePose
  <2> QED
    BY <1>17, <2>2 DEF SelectForward, TypePose, Stays, Standing, Outside
<1>18. CASE UNCHANGED spun /\ SelectTurn
  <2>1. CurrentExits(Seen, FALSE) \subseteq Headings
    BY DEF CurrentExits, Exits, TypePose
  <2> QED
    BY <1>18, <2>1 DEF SelectTurn, TypePose, Stays, Standing, Outside
<1>19. CASE UNCHANGED spun /\ DriveForward
  <2>1. Pocket(Seen, distance) /\ distance # 0 => Shift(place, heading, 1) \in world.free
    BY DEF Pocket, Corridor, TypePose
  <2>2. distance # 0 => distance - 1 \in 0..Advance
    BY FloorAssumption DEF TypePose
  <2> QED
    BY <1>19, <2>1, <2>2 DEF DriveForward, TypePose, Outside
<1>20. CASE UNCHANGED spun /\ Reverse
  BY <1>20 DEF Reverse, RearClear, TypePose, Settled, Outside
<1>21. CASE UNCHANGED spun /\ Spin
  BY <1>21 DEF Spin, TypePose, Settled, Outside
<1>22. CASE BeginTurn
  <2>1. <<place, aim>> \in Poses
    BY DEF TypePose, Poses
  <2>2. spun' \in Seq(Poses)
    BY <1>22, <2>1, NotedSeq DEF BeginTurn, TypePose
  <2> QED
    BY <1>22, <2>2 DEF BeginTurn, TypePose, Stays, Standing, Outside
<1>23. CASE NewGoal
  BY <1>23 DEF NewGoal, TypePose, Standing, Poses
<1> QED
  BY <1>1, <1>2, <1>3, <1>4, <1>5, <1>6, <1>7, <1>8, <1>9, <1>10, <1>11, <1>12, <1>13, <1>14, <1>15, <1>16, <1>17, <1>18, <1>19, <1>20, <1>21, <1>22, <1>23 DEF Next, Tick

LEMMA TreeStep ==
  ASSUME TypeTree, Next
  PROVE  TypeTree'
<1> NoErrors \in Errors
  BY DEF NoErrors, Errors, Outcomes
<1> USE OnFailureNodes
<1>1. CASE NoRoute
  BY <1>1 DEF NoRoute, AfterRoutes, TypeTree, At, Settled, Stays, Outside, GoTo, Enter, SearchAgain, Surprise
<1>2. CASE Recover
  BY <1>2 DEF Recover, TypeTree, At, Settled, Stays, Outside, GoTo, Enter, SearchAgain, Surprise
<1>3. CASE AllowRecovery
  BY <1>3 DEF AllowRecovery, TypeTree, At, Settled, Stays, Outside, GoTo, Enter, SearchAgain, Surprise
<1>4. CASE GiveUp
  BY <1>4 DEF GiveUp, TypeTree, At, Settled, Stays, Outside, GoTo, Enter, SearchAgain, Surprise
<1>5. CASE SelectForward
  BY <1>5 DEF SelectForward, TypeTree, At, Settled, Stays, Outside, GoTo, Enter, SearchAgain, Surprise
<1>6. CASE BeginForward
  BY <1>6 DEF BeginForward, TypeTree, At, Settled, Stays, Outside, GoTo, Enter, SearchAgain, Surprise
<1>7. CASE DriveForward
  BY <1>7 DEF DriveForward, TypeTree, At, Settled, Stays, Outside, GoTo, Enter, SearchAgain, Surprise
<1>8. CASE CompleteForward
  BY <1>8 DEF CompleteForward, TypeTree, At, Settled, Stays, Outside, GoTo, Enter, SearchAgain, Surprise
<1>9. CASE LeaveForward
  BY <1>9 DEF LeaveForward, TypeTree, At, Settled, Stays, Outside, GoTo, Enter, SearchAgain, Surprise
<1>10. CASE SelectTurn
  BY <1>10 DEF SelectTurn, TypeTree, At, Settled, Stays, Outside, GoTo, Enter, SearchAgain, Surprise
<1>11. CASE BeginTurn
  BY <1>11 DEF BeginTurn, TypeTree, At, Settled, Stays, Outside, GoTo, Enter, SearchAgain, Surprise
<1>12. CASE Spin
  BY <1>12 DEF Spin, TypeTree, At, Settled, Stays, Outside, GoTo, Enter, SearchAgain, Surprise
<1>13. CASE AfterSpinCollision
  BY <1>13 DEF AfterSpinCollision, TypeTree, At, Settled, Stays, Outside, GoTo, Enter, SearchAgain, Surprise
<1>14. CASE LostExit
  BY <1>14 DEF LostExit, TypeTree, At, Settled, Stays, Outside, GoTo, Enter, SearchAgain, Surprise
<1>15. CASE Reverse
  BY <1>15 DEF Reverse, TypeTree, At, Settled, Stays, Outside, GoTo, Enter, SearchAgain, Surprise
<1>16. CASE Available
  BY <1>16 DEF Available, TypeTree, At, Settled, Stays, Outside, GoTo, Enter, SearchAgain, Surprise
<1>17. CASE Replan
  BY <1>17 DEF Replan, TypeTree, At, Settled, Stays, Outside, GoTo, Enter, SearchAgain, Surprise
<1>18. CASE WorldChanges
  BY <1>18, FloorAssumption DEF WorldChanges, TypeTree, At, Settled, Stays, Outside, GoTo, Enter, SearchAgain, Surprise
<1>19. CASE FindRoute
  BY <1>19, FloorAssumption DEF FindRoute, TypeTree, Surprise, GoTo
<1>20. CASE NewGoal
  BY <1>20, FloorAssumption DEF NewGoal, TypeTree, Surprise, Enter
<1>21. CASE FollowRoute
  <2>1. \A e \in {"blocked", "fault"} : [error EXCEPT !.controller = e] \in Errors
    BY DEF TypeTree, Errors
  <2> QED
    BY <1>21, <2>1 DEF FollowRoute, AfterRoutes, TypeTree, Enter
<1>22. CASE MotionFails
  <2>1. \A e \in {"collision", "fault"} : /\ [error EXCEPT !.forward = e] \in Errors
                                          /\ [error EXCEPT !.turn = e] \in Errors
                                          /\ [error EXCEPT !.backup = e] \in Errors
    BY DEF TypeTree, Errors, Outcomes
  <2> QED
    BY <1>22, <2>1, FloorAssumption DEF MotionFails, TypeTree, Surprise, Outside, GoTo
<1>23. CASE StaleData
  BY <1>23, FloorAssumption DEF StaleData, TypeTree, Surprise, Outside, Enter
<1> QED
  BY <1>1, <1>2, <1>3, <1>4, <1>5, <1>6, <1>7, <1>8, <1>9, <1>10, <1>11, <1>12, <1>13, <1>14, <1>15, <1>16, <1>17, <1>18, <1>19, <1>20, <1>21, <1>22, <1>23 DEF Next, Tick

-----------------------------------------------------------------------------
(* The invariant.  A turn that is about to begin was not tried before, the *)
(* attempts remembered for the present goal include the turns begun since  *)
(* it was set, and the goal-facing turn is the one to the goal.            *)
Turning ==
  /\ memory.goal = goal => Leads(spun, memory.attempts)
  /\ memory.goal # goal => spun = <<>>
  /\ pc = "turnBegin" => memory.goal = goal /\ ~Among(<<place, aim>>, memory.attempts)
  /\ pc = "spinning" => memory.goal = goal /\ (memory.goal_facing => aim = Toward[goal])

(* Where the tree can be while an error code says fault: at the node that  *)
(* looks at it, or on the way to the end of the recovery.                  *)
Leaving == \/ pc \in {"recover", "giveUp", "done", "aborted"}
           \/ pc \in {"routes", "following"} /\ within \in {"primary", "last"}
Faults ==
  /\ error.forward = "fault" => pc = "forwardCollision" \/ Leaving
  /\ error.turn = "fault" => pc \in {"turnCollision", "lostExit", "replan"} \/ Leaving

IInv == TypeOK /\ Turning /\ Faults

LEMMA TypeGround ==
  ASSUME TypeOK
  PROVE  Ground /\ aim \in Headings
  BY DEF TypeOK, Ground

LEMMA Steps ==
  ASSUME Next
  PROVE  \/ Checks /\ UNCHANGED <<goal, spun>>
         \/ BeginTurn /\ UNCHANGED goal
         \/ Spin /\ UNCHANGED <<goal, spun>>
         \/ NewGoal /\ UNCHANGED memory
<1>1. CASE UNCHANGED spun /\ (FindRoute \/ NoRoute \/ FollowRoute
                              \/ Recover \/ AllowRecovery \/ GiveUp)
  BY <1>1 DEF FindRoute, NoRoute, FollowRoute, Recover, AllowRecovery, GiveUp,
              Checks, Settled, Outside
<1>2. CASE UNCHANGED spun /\ (SelectForward \/ BeginForward \/ DriveForward
                              \/ CompleteForward \/ LeaveForward)
  BY <1>2 DEF SelectForward, BeginForward, DriveForward, CompleteForward,
              LeaveForward, Checks, Settled, Stays, Outside
<1>3. CASE UNCHANGED spun /\ (SelectTurn \/ AfterSpinCollision \/ LostExit
                              \/ Reverse \/ Available \/ Replan)
  BY <1>3 DEF SelectTurn, AfterSpinCollision, LostExit, Reverse, Available,
              Replan, Checks, Settled, Stays, Outside
<1>4. CASE UNCHANGED spun /\ (MotionFails \/ StaleData \/ WorldChanges)
  BY <1>4 DEF MotionFails, StaleData, WorldChanges, Checks, Outside
<1>5. CASE BeginTurn
  BY <1>5 DEF BeginTurn, Stays, Outside
<1>6. CASE UNCHANGED spun /\ Spin
  BY <1>6 DEF Spin, Settled, Outside
<1>7. CASE NewGoal
  BY <1>7 DEF NewGoal
<1> QED
  BY <1>1, <1>2, <1>3, <1>4, <1>5, <1>6, <1>7 DEF Next, Tick

LEMMA MemoryStep ==
  ASSUME TypeOK, Next
  PROVE  memory' \in Memories
<1>1. Ground /\ aim \in Headings
  BY TypeGround
<1>2. CASE Checks
  BY <1>1, <1>2, ChecksKeepMemory DEF Kept, Ground
<1>3. CASE BeginTurn
  <2>1. TurnBegun(Seen) \in Memories
    BY <1>1, SeenMemory, TurnBegunMemory
  <2>2. (Seen.turn_stop \/ ~TranslationRequired) \in BOOLEAN
    OBVIOUS
  <2>3. \A b \in BOOLEAN : [Seen EXCEPT !.turn_stop = b] \in Memories
    BY <1>1, SeenMemory, FieldsMemory
  <2> QED
    BY <1>3, <2>1, <2>2, <2>3 DEF BeginTurn
<1>4. CASE Spin
  BY <1>1, <1>4, TurnCompletedMemory DEF Spin, Ground
<1>5. CASE UNCHANGED memory
  BY <1>1, <1>5 DEF Ground
<1> QED
  BY <1>2, <1>3, <1>4, <1>5, Steps

LEMMA TypeStep ==
  ASSUME TypeOK, Next
  PROVE  TypeOK'
<1>1. TypePose' /\ TypeTree'
  BY TypeParts, PoseStep, TreeStep
<1>2. memory' \in Memories
  BY MemoryStep
<1> QED
  BY <1>1, <1>2 DEF TypeOK, TypePose, TypeTree, Errors, Outcomes

(* A turn is selected only if it was not tried from here.                  *)
LEMMA SelectedIsNew ==
  ASSUME NEW m, NEW k \in CurrentExits(m, FALSE) \ {heading}
  PROVE  ~Among(<<place, k>>, m.attempts)
  BY DEF CurrentExits, Exits

LEMMA ChecksTree ==
  ASSUME TypeTree, Checks
  PROVE  /\ pc' = "turnBegin" => \/ SelectTurn /\ aim' \in CurrentExits(Seen, FALSE) \ {heading}
                                              /\ memory' = Seen
                                 \/ WorldChanges /\ pc = "turnBegin"
         /\ pc' = "spinning" => WorldChanges /\ pc = "spinning"
         /\ UNCHANGED place \/ pc' # "turnBegin"
<1> USE OnFailureNodes
<1>1. CASE FindRoute
  BY <1>1 DEF FindRoute, At, Settled, Stays, Outside, GoTo, Enter, SearchAgain
<1>2. CASE NoRoute
  BY <1>2 DEF NoRoute, AfterRoutes, At, Settled, Stays, Outside, GoTo, Enter, SearchAgain
<1>3. CASE FollowRoute
  BY <1>3 DEF FollowRoute, AfterRoutes, At, Settled, Stays, Outside, GoTo, Enter, SearchAgain
<1>4. CASE Recover
  BY <1>4 DEF Recover, At, Settled, Stays, Outside, GoTo, Enter, SearchAgain
<1>5. CASE AllowRecovery
  BY <1>5 DEF AllowRecovery, At, Settled, Stays, Outside, GoTo, Enter, SearchAgain
<1>6. CASE GiveUp
  BY <1>6 DEF GiveUp, At, Settled, Stays, Outside, GoTo, Enter, SearchAgain
<1>7. CASE SelectForward
  BY <1>7 DEF SelectForward, At, Settled, Stays, Outside, GoTo, Enter, SearchAgain
<1>8. CASE BeginForward
  BY <1>8 DEF BeginForward, At, Settled, Stays, Outside, GoTo, Enter, SearchAgain
<1>9. CASE DriveForward
  BY <1>9 DEF DriveForward, At, Settled, Stays, Outside, GoTo, Enter, SearchAgain
<1>10. CASE CompleteForward
  BY <1>10 DEF CompleteForward, At, Settled, Stays, Outside, GoTo, Enter, SearchAgain
<1>11. CASE LeaveForward
  BY <1>11 DEF LeaveForward, At, Settled, Stays, Outside, GoTo, Enter, SearchAgain
<1>12. CASE SelectTurn
  BY <1>12 DEF SelectTurn, Standing, At, Settled, Stays, Outside, GoTo, Enter, SearchAgain
<1>13. CASE AfterSpinCollision
  BY <1>13 DEF AfterSpinCollision, At, Settled, Stays, Outside, GoTo, Enter, SearchAgain
<1>14. CASE LostExit
  BY <1>14 DEF LostExit, At, Settled, Stays, Outside, GoTo, Enter, SearchAgain
<1>15. CASE Reverse
  BY <1>15 DEF Reverse, At, Settled, Stays, Outside, GoTo, Enter, SearchAgain
<1>16. CASE Available
  BY <1>16 DEF Available, At, Settled, Stays, Outside, GoTo, Enter, SearchAgain
<1>17. CASE Replan
  BY <1>17 DEF Replan, At, Settled, Stays, Outside, GoTo, Enter, SearchAgain
<1>18. CASE MotionFails
  BY <1>18 DEF MotionFails, At, Settled, Stays, Outside, GoTo, Enter, SearchAgain
<1>19. CASE StaleData
  BY <1>19 DEF StaleData, At, Settled, Stays, Outside, GoTo, Enter, SearchAgain
<1>20. CASE WorldChanges
  BY <1>20 DEF WorldChanges, Standing, At, Settled, Stays, Outside, GoTo, Enter, SearchAgain
<1> QED
  BY <1>1, <1>2, <1>3, <1>4, <1>5, <1>6, <1>7, <1>8, <1>9, <1>10, <1>11, <1>12, <1>13, <1>14, <1>15, <1>16, <1>17, <1>18, <1>19, <1>20 DEF Checks

LEMMA TurningStep ==
  ASSUME TypeOK, Turning, Next
  PROVE  Turning'
<1>1. Ground /\ aim \in Headings /\ TypeTree
  BY TypeGround, TypeParts
<1>2. CASE Checks /\ UNCHANGED <<goal, spun>>
  <2>1. memory' = memory \/ Kept(memory')
    BY <1>1, <1>2, ChecksKeepMemory
  <2>2. /\ memory'.goal = goal => Leads(spun, memory'.attempts)
        /\ memory'.goal # goal => spun = <<>>
    <3>1. CASE memory' = memory
      BY <3>1 DEF Turning
    <3>2. CASE Kept(memory')
      <4>1. memory.goal # goal => Leads(spun, memory'.attempts)
        BY <3>2, LeadsNothing DEF Kept, Turning, Memories
      <4> QED
        BY <3>2, <4>1 DEF Kept, Turning
    <3> QED
      BY <2>1, <3>1, <3>2
  <2>3. ASSUME pc' = "turnBegin"
        PROVE  memory'.goal = goal /\ ~Among(<<place', aim'>>, memory'.attempts)
    <3>1. CASE SelectTurn /\ aim' \in CurrentExits(Seen, FALSE) \ {heading} /\ memory' = Seen
      <4>1. Seen.goal = goal
        BY <1>1, SeenMemory
      <4>2. ~Among(<<place, aim'>>, Seen.attempts)
        BY <3>1, SelectedIsNew
      <4> QED
        BY <3>1, <4>1, <4>2 DEF SelectTurn, Stays, Standing
    <3>2. CASE WorldChanges /\ pc = "turnBegin"
      BY <3>2 DEF WorldChanges, Standing, Turning
    <3> QED
      BY <1>1, <1>2, <2>3, <3>1, <3>2, ChecksTree
  <2>4. ASSUME pc' = "spinning"
        PROVE  memory'.goal = goal /\ (memory'.goal_facing => aim' = Toward[goal])
    <3>1. WorldChanges /\ pc = "spinning"
      BY <1>1, <1>2, <2>4, ChecksTree
    <3> QED
      BY <3>1 DEF WorldChanges, Turning
  <2> QED
    BY <1>2, <2>2, <2>3, <2>4 DEF Turning
<1>3. CASE BeginTurn /\ UNCHANGED goal
  <2>1. /\ Seen \in Memories /\ Seen.goal = goal
        /\ memory.goal = goal => Seen.attempts = memory.attempts
    BY <1>1, SeenMemory
  <2>2. /\ Leads(spun, Seen.attempts)
        /\ spun \in Seq(Poses) /\ Seen.attempts \in Seq(Poses)
        /\ <<place, aim>> \in Poses
    BY <1>1, <2>1, LeadsNothing DEF Turning, TypeOK, Memories, Ground, Poses
  <2>3. UNCHANGED aim /\ pc' \in {"spinning", "turnCollision"}
    BY <1>3 DEF BeginTurn, Stays, GoTo
  <2>4. CASE memory' = TurnBegun(Seen) /\ spun' = Noted(spun, <<place, aim>>)
    <3>1. /\ memory'.goal = goal
          /\ memory'.attempts = Noted(Seen.attempts, <<place, aim>>)
          /\ memory'.goal_facing <=> aim = Toward[goal]
      BY <1>1, <2>1, <2>4, TurnBegunMemory
    <3>2. Leads(spun', memory'.attempts)
      BY <2>2, <2>4, <3>1, LeadsNoted
    <3> QED
      BY <1>3, <2>3, <3>1, <3>2 DEF Turning
  <2>5. CASE /\ memory' = [Seen EXCEPT !.turn_stop = @ \/ ~TranslationRequired]
             /\ UNCHANGED spun /\ pc' = "turnCollision"
    <3>1. memory'.goal = goal /\ memory'.attempts = Seen.attempts
      BY <2>1, <2>5 DEF Memories
    <3> QED
      BY <1>3, <2>2, <2>5, <3>1 DEF Turning
  <2> QED
    BY <1>3, <2>4, <2>5 DEF BeginTurn, GoTo
<1>4. CASE Spin /\ UNCHANGED <<goal, spun>>
  <2>1. /\ memory'.goal = memory.goal /\ memory'.attempts = memory.attempts
        /\ pc' = "routes"
    BY <1>1, <1>4, TurnCompletedMemory DEF Spin, SearchAgain, Enter, Ground
  <2> QED
    BY <1>4, <2>1 DEF Turning
<1>5. CASE NewGoal /\ UNCHANGED memory
  <2>1. Leads(<<>>, memory.attempts)
    BY <1>1, LeadsNothing DEF Ground, Memories
  <2> QED
    BY <1>5, <2>1 DEF NewGoal, Turning, Enter
<1> QED
  BY <1>2, <1>3, <1>4, <1>5, Steps

LEMMA FaultsStep ==
  ASSUME TypeTree, Faults, Next
  PROVE  Faults'
<1> USE OnFailureNodes DEF Faults, Leaving
<1> NoErrors.forward = "none" /\ NoErrors.turn = "none"
  BY DEF NoErrors
<1>1. CASE FindRoute
  BY <1>1 DEF FindRoute, At, Settled, Stays, Outside, GoTo, Enter, SearchAgain
<1>2. CASE NoRoute
  BY <1>2 DEF NoRoute, AfterRoutes, At, Settled, Stays, Outside, GoTo, Enter, SearchAgain
<1>3. CASE Recover
  BY <1>3 DEF Recover, At, Settled, Stays, Outside, GoTo, Enter, SearchAgain
<1>4. CASE AllowRecovery
  BY <1>4 DEF AllowRecovery, At, Settled, Stays, Outside, GoTo, Enter, SearchAgain
<1>5. CASE GiveUp
  BY <1>5 DEF GiveUp, At, Settled, Stays, Outside, GoTo, Enter, SearchAgain
<1>6. CASE SelectForward
  BY <1>6 DEF SelectForward, At, Settled, Stays, Outside, GoTo, Enter, SearchAgain
<1>7. CASE BeginForward
  BY <1>7 DEF BeginForward, At, Settled, Stays, Outside, GoTo, Enter, SearchAgain
<1>8. CASE DriveForward
  BY <1>8 DEF DriveForward, At, Settled, Stays, Outside, GoTo, Enter, SearchAgain
<1>9. CASE CompleteForward
  BY <1>9 DEF CompleteForward, At, Settled, Stays, Outside, GoTo, Enter, SearchAgain
<1>10. CASE LeaveForward
  BY <1>10 DEF LeaveForward, At, Settled, Stays, Outside, GoTo, Enter, SearchAgain
<1>11. CASE SelectTurn
  BY <1>11 DEF SelectTurn, At, Settled, Stays, Outside, GoTo, Enter, SearchAgain
<1>12. CASE BeginTurn
  BY <1>12 DEF BeginTurn, At, Settled, Stays, Outside, GoTo, Enter, SearchAgain
<1>13. CASE Spin
  BY <1>13 DEF Spin, At, Settled, Stays, Outside, GoTo, Enter, SearchAgain
<1>14. CASE AfterSpinCollision
  BY <1>14 DEF AfterSpinCollision, At, Settled, Stays, Outside, GoTo, Enter, SearchAgain
<1>15. CASE LostExit
  BY <1>15 DEF LostExit, At, Settled, Stays, Outside, GoTo, Enter, SearchAgain
<1>16. CASE Reverse
  BY <1>16 DEF Reverse, At, Settled, Stays, Outside, GoTo, Enter, SearchAgain
<1>17. CASE Available
  BY <1>17 DEF Available, At, Settled, Stays, Outside, GoTo, Enter, SearchAgain
<1>18. CASE Replan
  BY <1>18 DEF Replan, At, Settled, Stays, Outside, GoTo, Enter, SearchAgain
<1>19. CASE StaleData
  BY <1>19 DEF StaleData, At, Settled, Stays, Outside, GoTo, Enter, SearchAgain
<1>20. CASE WorldChanges
  BY <1>20 DEF WorldChanges, At, Settled, Stays, Outside, GoTo, Enter, SearchAgain
<1>21. CASE NewGoal
  BY <1>21 DEF NewGoal, At, Settled, Stays, Outside, GoTo, Enter, SearchAgain
<1>22. CASE FollowRoute
  <2>1. error'.forward = error.forward /\ error'.turn = error.turn
    BY <1>22 DEF FollowRoute, TypeTree, Errors
  <2> QED
    BY <1>22, <2>1 DEF FollowRoute, AfterRoutes, At, Settled, Stays, Outside, GoTo, Enter, SearchAgain
<1>23. CASE MotionFails
  <2>1. pc \in {"driving", "spinning", "reverse"}
    BY <1>23 DEF MotionFails, At
  <2>2. error.forward # "fault" /\ error.turn # "fault"
    BY <2>1
  <2>3. \/ error'.forward = error.forward /\ error'.turn = error.turn
        \/ error'.turn = error.turn /\ pc' = "forwardCollision"
        \/ error'.forward = error.forward /\ pc' = "turnCollision"
    BY <1>23 DEF MotionFails, At, GoTo, TypeTree, Errors
  <2> QED
    BY <2>2, <2>3
<1> QED
  BY <1>1, <1>2, <1>3, <1>4, <1>5, <1>6, <1>7, <1>8, <1>9, <1>10, <1>11, <1>12, <1>13, <1>14, <1>15, <1>16, <1>17, <1>18, <1>19, <1>20, <1>21, <1>22, <1>23 DEF Next, Tick

-----------------------------------------------------------------------------
LEMMA InvInit ==
  ASSUME Init
  PROVE  IInv
<1>0. <<>> \in Seq(Poses)
  BY EmptySeq
<1>1. Ground /\ TypePose
  BY <1>0, FloorAssumption DEF Init, Ground, TypePose, Blank, Memories, pose, Poses
<1>2. TypeTree
  BY FloorAssumption DEF Init, TypeTree, Errors, Outcomes, NoErrors
<1>3. Turning /\ Faults
  BY <1>0, LeadsNothing DEF Init, Turning, Faults, Leaving, NoErrors, Blank
<1> QED
  BY <1>1, <1>2, <1>3, TypeParts DEF Ground, IInv

LEMMA InvStep ==
  ASSUME IInv, [Next]_vars
  PROVE  IInv'
<1>1. CASE Next
  BY <1>1, TypeParts, TypeStep, TurningStep, FaultsStep DEF IInv
<1>2. CASE UNCHANGED vars
  BY <1>2 DEF vars, IInv, TypeOK, Turning, Faults, Leaving
<1> QED
  BY <1>1, <1>2

LEMMA Invariance == Spec => []IInv
  BY InvInit, InvStep, PTL DEF Spec

(* Every variable holds a value of its type; for the memory this says that *)
(* no node leaves a field of another kind behind.                          *)
THEOREM TypeCorrect == Spec => []TypeOK
<1>1. IInv => TypeOK
  BY DEF IInv
<1> QED
  BY <1>1, Invariance, PTL

(* On any floor and through any surprises, a turn or an advance that ended *)
(* in a fault is not followed by reverse motion before the error codes are *)
(* cleared: the checks of turn_collision, lost_exit and forward_collision  *)
(* hold together over the paths between them.                              *)
THEOREM FaultsDoNotReverseAlways == Spec => []FaultsDoNotReverse
<1>1. IInv => FaultsDoNotReverse
  BY DEF IInv, Faults, Leaving, FaultsDoNotReverse, At
<1> QED
  BY <1>1, Invariance, PTL

(* No turn is begun that is among the last MaxAttempts begun for the goal: *)
(* what turn selects is new, and what turn_begin starts was selected.      *)
THEOREM TurnsAreNewAlways == Spec => TurnsAreNew
<1>1. ASSUME IInv, [Next]_vars, ~At("spinning"), pc' = "spinning"
      PROVE  ~Among(<<place, aim>>, spun)
  <2>1. TypeTree /\ pc # "spinning"
    BY <1>1, TypeParts DEF IInv, At
  <2>2. CASE Checks
    BY <1>1, <2>1, <2>2, ChecksTree
  <2>3. CASE BeginTurn
    <3>1. pc = "turnBegin"
      BY <2>3 DEF BeginTurn, At
    <3>2. /\ ~Among(<<place, aim>>, memory.attempts) /\ Leads(spun, memory.attempts)
          /\ spun \in Seq(Poses) /\ memory.attempts \in Seq(Poses)
      BY <1>1, <3>1 DEF IInv, Turning, TypeOK, Memories
    <3> QED
      BY <3>2, LeadsAmong
  <2>4. CASE Spin \/ NewGoal \/ UNCHANGED vars
    BY <1>1, <2>1, <2>4 DEF Spin, NewGoal, SearchAgain, Enter, vars
  <2> QED
    BY <1>1, <2>2, <2>3, <2>4, Steps
<1>2. IInv /\ [Next]_vars =>
        [~At("spinning") /\ pc' = "spinning" => ~Among(<<place, aim>>, spun)]_vars
  BY <1>1
<1> QED
  BY <1>2, Invariance, PTL DEF Spec, TurnsAreNew

(* Only a completed turn to the goal or another goal ends a commitment to  *)
(* retreat: neither travel, nor a replan, nor any failure does.            *)
THEOREM CommitHoldsAlways == Spec => CommitHolds
<1>1. ASSUME IInv, [Next]_vars, memory.committed, ~memory'.committed,
             memory'.goal = memory.goal
      PROVE  At("spinning") /\ aim = Toward[goal]
  <2>1. Ground /\ aim \in Headings
    BY <1>1, TypeGround DEF IInv
  <2>2. memory' # memory
    BY <1>1
  <2>3. CASE Checks
    <3>1. Kept(memory')
      BY <2>1, <2>2, <2>3, ChecksKeepMemory
    <3> QED
      BY <1>1, <3>1 DEF Kept
  <2>4. CASE BeginTurn
    <3>1. /\ Seen \in Memories /\ Seen.goal = goal
          /\ memory.goal = goal => (Seen.committed <=> memory.committed)
      BY <2>1, SeenMemory
    <3>2. CASE memory' = TurnBegun(Seen)
      BY <1>1, <2>1, <3>1, <3>2, TurnBegunMemory
    <3>3. CASE memory' = [Seen EXCEPT !.turn_stop = @ \/ ~TranslationRequired]
      <4>1. memory'.goal = goal /\ (memory'.committed <=> Seen.committed)
        BY <3>1, <3>3 DEF Memories
      <4> QED
        BY <1>1, <3>1, <4>1
    <3> QED
      BY <2>4, <3>2, <3>3 DEF BeginTurn
  <2>5. CASE Spin
    <3>1. memory.goal_facing
      BY <1>1, <2>1, <2>5, TurnCompletedMemory DEF Spin, Ground
    <3>2. pc = "spinning"
      BY <2>5 DEF Spin, At
    <3> QED
      BY <1>1, <3>1, <3>2 DEF IInv, Turning, At
  <2>6. CASE UNCHANGED memory
    BY <2>2, <2>6
  <2> QED
    BY <1>1, <2>3, <2>4, <2>5, <2>6, Steps DEF vars
<1>2. IInv /\ [Next]_vars =>
        [memory.committed /\ ~memory'.committed =>
           \/ memory'.goal # memory.goal
           \/ At("spinning") /\ aim = Toward[goal]]_vars
  BY <1>1
<1> QED
  BY <1>2, Invariance, PTL DEF Spec, CommitHolds
=============================================================================
