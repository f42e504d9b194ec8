-------------------------- MODULE MCDriveFirmware --------------------------
(***************************************************************************)
(* DriveFirmware on a small instance.                                      *)
(***************************************************************************)
EXTENDS DriveFirmware

\* Zero, a speed the code takes for zero, and the fastest there is time to
\* brake from (BrakesInTime).
FewSpeeds == {-4, 0, 1}
=============================================================================
