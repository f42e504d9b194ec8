---------------------------- MODULE MCLiftBridge ----------------------------
(* Small instances of LiftBridge for TLC. *)
EXTENDS LiftBridge
=============================================================================
