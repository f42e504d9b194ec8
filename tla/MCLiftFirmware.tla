--------------------------- MODULE MCLiftFirmware ---------------------------
(* Small instances of LiftFirmware for TLC. *)
EXTENDS LiftFirmware

\* The sequence numbers of the instances.
FewSequences == 0..3

\* Both ends, the middle, and a height above the travel.
FewPositions == {0, 2, 4, 5}
=============================================================================
