---------------------------- MODULE LiftContract ----------------------------
(***************************************************************************)
(* The stand-alone lift as its host sees it: what it has become and what   *)
(* it has answered after every line, and after everything that happens     *)
(* without one.                                                            *)
(***************************************************************************)
EXTENDS LiftPort

CONSTANT Sessions   \* the ids a host may draw; NoSession is none of them

VARIABLES
  lift,     \* the lift, as in LiftPort
  answer    \* what it has just written, if anything

contractVars == <<lift, answer>>

Lines ==
  [command : {"HB", "STATUS", "STOP", "CLEAR", "HOME", "ARM", "SET"},
   session : Sessions]
    \cup [command : {"HELLO"}, session : Sessions \cup {NoSession}]

Says(kind) == [kind |-> kind]
Acknowledges(l) == [kind |-> "ACK", command |-> l.command]

Init == lift \in LiftBoots /\ answer = Says("BOOT")

Obeys(l) ==
  /\ answer' = Acknowledges(l)
  /\ LiftAccepts(lift, l) /\ lift' = LiftAfter(lift, l)
Refuses(l) ==
  /\ answer' = Says("ERR")
  /\ MayRefuse(lift, l) /\ lift' = LiftRefused(lift, l)

\* A damaged line, or one whose number is not new.
Ignores == answer' = Says("ERR") /\ UNCHANGED lift

Lapses ==
  /\ answer' = Says("FAULT")
  /\ lift.mode # "idle" /\ lift' = LapsedLift(lift)
Homes ==
  /\ answer' = Says("SILENT")
  /\ lift.mode = "homing" /\ lift' = Referenced(lift)

\* Only the homing tells of its failure.
Fails ==
  /\ \/ answer' = Says("SILENT")
     \/ lift.mode = "homing" /\ answer' = Says("FAULT")
  /\ lift.fault # "GEOMETRY" /\ lift' = Failed(lift)

Rests == answer' = Says("SILENT") /\ UNCHANGED lift

Resets == answer' = Says("BOOT") /\ lift' \in LiftBoots

Next == Rests \/ Ignores \/ Resets \/ Lapses \/ Homes \/ Fails
          \/ \E l \in Lines : Obeys(l) \/ Refuses(l)

Spec == Init /\ [][Next]_contractVars
=============================================================================
