----------------------------- MODULE DriveLease -----------------------------
(***************************************************************************)
(* What the base drive promises to the software that commands it: motion   *)
(* is on loan.  A target lives as long as the lease that the last CMD      *)
(* renewed; a lapsed lease leads to a stop that only a new start, through  *)
(* "off", ends; and soon after a lease has lapsed nothing moves.           *)
(***************************************************************************)
EXTENDS Integers

CONSTANTS
  SoftTimeout,   \* a target outlives the last CMD by this at most
  HardTimeout,   \* motion outlives the last CMD by this at most
  MaxLoopGap,    \* how late a deadline may be noticed
  IdleCap        \* idle is not counted any further

VARIABLES
  mode,          \* "off", "standby" (on, no target), "driving" or "stopping"
  moving,        \* some wheel still has a set-point
  idle           \* time since the last CMD was accepted

vars == <<mode, moving, idle>>

Init == mode = "off" /\ moving = FALSE /\ idle = IdleCap

\* Time passes only while no deadline is overdue.
Pass ==
  /\ mode = "driving" => idle <= SoftTimeout
  /\ moving => idle <= HardTimeout
  /\ \E d \in 1..MaxLoopGap :
       idle' = IF idle + d < IdleCap THEN idle + d ELSE IdleCap
  /\ UNCHANGED <<mode, moving>>

\* A CMD is accepted.  It cannot start an idle drive nor revive a stopping one.
Renew ==
  /\ idle' = 0
  /\ mode' \in IF mode \in {"off", "stopping"} THEN {mode}
               ELSE {"standby", "driving"}
  /\ UNCHANGED moving

\* The lease is over, or the drive is told to stop: the target is gone.
Lapse ==
  /\ mode \in {"standby", "driving"} /\ idle > SoftTimeout
  /\ mode' = "stopping"
  /\ UNCHANGED <<moving, idle>>

\* A new start: nothing moves and nothing has a target.
Start ==
  /\ mode = "off" /\ mode' = "standby"
  /\ UNCHANGED <<moving, idle>>

\* The wheels follow a target, or come to rest.
Move ==
  /\ mode # "off"
  /\ moving' \in (IF mode = "driving" THEN BOOLEAN ELSE {moving, FALSE})
  /\ UNCHANGED <<mode, idle>>

\* The output is cut: by command, by the hard timeout, or by a reset.
Cut ==
  /\ mode' = "off" /\ moving' = FALSE
  /\ idle' \in {idle, IdleCap}

Next == Pass \/ Renew \/ Lapse \/ Start \/ Move \/ Cut

Spec == Init /\ [][Next]_vars

=============================================================================
