------------------------- MODULE CommandArbitration -------------------------
(***************************************************************************)
(* The topic /cmd_vel, the node cmd_vel_stamper behind it and the          *)
(* diff_drive_controller it feeds.  Any node may publish on the topic; the *)
(* stamper passes a command on only while it sees a single publisher, and  *)
(* passes zeros otherwise.  Nodes come and go, with or without notice, and *)
(* are discovered later.                                                   *)
(*                                                                         *)
(* A command is a speed or zero.  Two publishers are enough: one is the    *)
(* node that an operator uses, the other any second one, Nav2 for example. *)
(***************************************************************************)
EXTENDS Naturals, Sequences, FiniteSets

CONSTANT Depth  \* commands the subscription of the stamper keeps, 10

ASSUME ArbitrationAssumption == Depth \in Nat \ {0}

VARIABLES
  publishers,  \* the nodes that publish on /cmd_vel
  seen,        \* those the stamper has discovered
  topic,       \* the commands the stamper has not handled
  base         \* the node whose speed the base controller follows, or "none"

topicVars == <<publishers, seen, topic, base>>

Nodes == {"own", "other"}
Commands == [from : Nodes, moving : BOOLEAN]

ArbitrationInit ==
  /\ publishers = {} /\ seen = {} /\ topic = <<>> /\ base = "none"

\* KEEP_LAST: a full subscription loses its oldest command.
Arrived(q, c) == Append(IF Len(q) = Depth THEN Tail(q) ELSE q, c)

\* A command reaches a subscription that knows its publisher.
Publish(from, moving) ==
  topic' = IF from \in seen THEN Arrived(topic, [from |-> from, moving |-> moving])
           ELSE topic

Joins(node) ==
  /\ node \notin publishers /\ publishers' = publishers \cup {node}
  /\ UNCHANGED <<seen, topic, base>>

Leaves(node) == node \in publishers /\ publishers' = publishers \ {node}

\* A second publisher sends what it likes.
OtherPublishes ==
  /\ "other" \in publishers
  /\ \E moving \in BOOLEAN : Publish("other", moving)
  /\ UNCHANGED <<publishers, seen, base>>

OtherComesAndGoes ==
  \/ Joins("other")
  \/ Leaves("other") /\ UNCHANGED <<seen, topic, base>>

StamperDiscovers ==
  /\ seen # publishers /\ seen' = publishers
  /\ UNCHANGED <<publishers, topic, base>>

\* (Mutant: the stamper does not count the publishers.)
PassedOnAlways(c) == c.moving

\* command_callback(): with any other number of publishers than one a zero.
PassedOn(c) == c.moving /\ Cardinality(seen) = 1

CommandCallback ==
  /\ topic # <<>> /\ topic' = Tail(topic)
  /\ base' = IF PassedOn(Head(topic)) THEN Head(topic).from ELSE "none"
  /\ UNCHANGED <<publishers, seen>>

\* cmd_vel_timeout, 0.25 s without a command.
BaseTimesOut ==
  /\ base # "none" /\ base' = "none"
  /\ UNCHANGED <<publishers, seen, topic>>

ArbitrationType ==
  /\ publishers \subseteq Nodes /\ seen \subseteq Nodes
  /\ topic \in Seq(Commands) /\ Len(topic) <= Depth
  /\ base \in Nodes \cup {"none"}
=============================================================================
