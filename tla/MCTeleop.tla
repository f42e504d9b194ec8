------------------------------ MODULE MCTeleop ------------------------------
(* Small instances of Teleop for TLC. *)
EXTENDS Teleop
=============================================================================
