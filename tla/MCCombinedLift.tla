--------------------------- MODULE MCCombinedLift ---------------------------
(* Small instances of CombinedLift for TLC. *)
EXTENDS CombinedLift

\* Every height and one above the top.
FewPositions == 0..3
=============================================================================
