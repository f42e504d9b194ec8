----------------------------- MODULE DrivePort -----------------------------
(***************************************************************************)
(* What whoever holds the serial port of the base drive may count on: what *)
(* it does with each command, and what it does by itself.  A drive b is    *)
(* known by four fields: whether it is enabled, the latched faults, a      *)
(* target beyond zero, and a CMD within the soft timeout.  DriveContract   *)
(* makes a specification of it, which DriveFirmware implements; RobotLinks *)
(* puts it behind the plug-in's port.                                      *)
(***************************************************************************)
BaseOff == [enabled |-> FALSE, fault |-> {}, moving |-> FALSE, fresh |-> FALSE]

FreshZero(b) == b.fresh /\ ~b.moving

\* CMD0 is an all-zero CMD, CMDV any other.
BaseAccepts(b, c) ==
  \/ c \in {"CMD0", "PING", "DISABLE", "ESTOP"}
  \/ c = "CMDV" /\ b.enabled /\ b.fault = {}
  \/ c = "CLEAR" /\ FreshZero(b)
  \/ c = "ENABLE" /\ FreshZero(b) /\ b.fault = {}

BaseAfter(b, c) ==
  CASE c = "CMD0" -> [b EXCEPT !.moving = FALSE, !.fresh = TRUE]
    [] c = "CMDV" -> [b EXCEPT !.moving = TRUE, !.fresh = TRUE]
    [] c = "PING" -> b
    [] c = "DISABLE" -> [b EXCEPT !.enabled = FALSE, !.moving = FALSE]
    [] c = "ESTOP" -> [b EXCEPT !.enabled = FALSE, !.moving = FALSE,
                                !.fault = @ \cup {"SOFTWARE_ESTOP"}]
    [] c = "CLEAR" -> [b EXCEPT !.enabled = FALSE, !.fault = {}]
    [] c = "ENABLE" -> [b EXCEPT !.enabled = TRUE]

\* The lease of the last CMD runs out.  What is latched comes with the watchdog,
\* which first stops an enabled drive and, later or in the same pass, cuts it.
Aged(b) == [b EXCEPT !.fresh = FALSE]
Lapsed(b, still_enabled) ==
  [b EXCEPT !.moving = FALSE, !.fault = @ \cup {"COMMAND_TIMEOUT"},
            !.enabled = still_enabled]

\* A disabled drive has no watchdog: its last CMD is new again after a wrap of
\* millis().
Wrapped(b) == [b EXCEPT !.fresh = TRUE]
=============================================================================
