------------------------------ MODULE LiftPort ------------------------------
(***************************************************************************)
(* What whoever holds the serial port of the stand-alone lift may count    *)
(* on: what it does with each line, and what it does by itself.  A lift r  *)
(* is known by its session and the one it has retired, its fault ("NONE",  *)
(* "COMM_TIMEOUT", or "GEOMETRY" for every other), its reference and its   *)
(* mode.  LiftContract makes a specification of it, which LiftFirmware     *)
(* implements; RobotLinks puts it behind the plug-in's port.               *)
(***************************************************************************)
CONSTANT NoSession

\* Two active switches are a fault from the start.
LiftBoots ==
  {[session |-> NoSession, retired |-> NoSession, fault |-> f, homed |-> FALSE,
    mode |-> "idle"] : f \in {"NONE", "GEOMETRY"}}

Halted(r) == [r EXCEPT !.mode = "idle"]

Current(r, s) == s = r.session /\ s # NoSession

LiftAccepts(r, l) ==
  \/ /\ l.command = "HELLO"
     /\ Current(r, l.session) \/ l.session \notin {NoSession, r.retired}
  \/ /\ Current(r, l.session)
     /\ \/ l.command \in {"HB", "STATUS", "STOP", "CLEAR"}
        \/ l.command = "HOME" /\ r.fault = "NONE"
        \/ l.command = "ARM" /\ r.fault = "NONE" /\ r.homed
        \/ l.command = "SET" /\ r.fault = "NONE" /\ r.mode = "armed"

\* A new session retires the one before.
LiftAfter(r, l) ==
  CASE l.command = "HELLO" ->
         IF Current(r, l.session) THEN Halted(r)
         ELSE [Halted(r) EXCEPT !.session = l.session,
                 !.retired = IF r.session # NoSession THEN r.session ELSE @]
    [] l.command = "STOP" -> Halted(r)
    [] l.command = "CLEAR" -> [r EXCEPT !.mode = "idle", !.fault = "NONE"]
    [] l.command = "HOME" -> [r EXCEPT !.mode = "homing", !.homed = FALSE]
    [] l.command = "ARM" -> [r EXCEPT !.mode = "armed"]
    [] l.command \in {"HB", "STATUS", "SET"} -> r

\* A SET may run into an active switch or out of the travel, and CLEAR into two
\* active switches.
MayRefuse(r, l) == ~LiftAccepts(r, l) \/ l.command \in {"SET", "CLEAR"}

\* HELLO, and CLEAR in its session, stop the lift before anything else is looked at.
LiftRefused(r, l) ==
  IF l.command = "HELLO" \/ (l.command = "CLEAR" /\ Current(r, l.session))
  THEN Halted(r) ELSE r

\* The watchdog of a lift that moves or may be told to retires the session.
LapsedLift(r) ==
  [r EXCEPT !.mode = "idle", !.fault = "COMM_TIMEOUT", !.session = NoSession,
            !.retired = r.session]

\* The end of a homing, and a failed homing or an impossible endstop.
Referenced(r) == [r EXCEPT !.mode = "idle", !.homed = TRUE]
Failed(r) == [r EXCEPT !.mode = "idle", !.homed = FALSE, !.fault = "GEOMETRY"]
=============================================================================
