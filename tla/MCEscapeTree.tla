---------------------------- MODULE MCEscapeTree ----------------------------
(* Small instances of EscapeTree for TLC: a corridor with a branch, which  *)
(* the costmaps show open, or closed at one end and with one pocket less.  *)
EXTENDS EscapeTree

Corridors == {<<x, 0>> : x \in 0..3} \cup {<<1, 1>>, <<1, 2>>}
Entry == {<<2, 0>>}
Open == [free |-> Corridors, pockets |-> {<<1, 0>>, <<2, 0>>}]
Narrow == [free |-> Corridors \ {<<3, 0>>}, pockets |-> {<<1, 0>>}]
ManyWorlds == {Open, Narrow}
East == <<1, 0>>
West == <<-1, 0>>
TowardBoth == [g \in {"east", "west"} |-> IF g = "east" THEN East ELSE West]
=============================================================================
