----------------------------- MODULE LiftDevice -----------------------------
(***************************************************************************)
(* What the lift of the combined ESP32 promises to whoever holds its       *)
(* serial port: which modes may follow which, and when its report can be   *)
(* read.  CombinedLift implements it; LiftBridge is composed with it.      *)
(***************************************************************************)
EXTENDS Naturals, Sequences

VARIABLES
  pending,  \* the commands that were read and not obeyed yet
  state     \* the mode, the lower switch, and whether the bridge can take the
            \* numbers of a report

deviceVars == <<pending, state>>

Kinds == {"HOME", "STOP", "HB", "SET"}
Modes == {"UNHOMED", "IDLE", "MOVING", "HOMING", "FAULT"}
Homed(s) == s.mode \in {"IDLE", "MOVING"}

States == [mode : Modes, lower : BOOLEAN, fits : BOOLEAN]
Unpowered == [mode |-> "UNHOMED", lower |-> FALSE, fits |-> TRUE]

Init == pending = <<>> /\ state = Unpowered

\* A command is queued, or lost in a full queue.
Receive(kind) ==
  /\ pending' \in {pending, Append(pending, kind)}
  /\ UNCHANGED state

\* On the way to a height every number is in range.  A lift that is stopped past
\* the end of its travel reports a target that is not.
Fitting(s) == s.mode = "MOVING" => s.fits

\* The states a command may lead to.
Home(s) ==
  {t \in States :
     \/ s.mode = "FAULT" /\ t = s
     \/ s.lower /\ t = [s EXCEPT !.mode = "IDLE", !.fits = TRUE]
     \/ ~s.lower /\ t = [s EXCEPT !.mode = "HOMING"]}
Stop(s) ==
  {t \in States :
     /\ t.mode = IF Homed(s) THEN "IDLE" ELSE "UNHOMED"
     /\ t.lower = s.lower}
Set(s) ==
  {t \in States :
     \/ t = s
     \/ Homed(s) /\ t.mode \in {"IDLE", "MOVING"} /\ t.lower = s.lower /\ t.fits}

After(s, kind) ==
  CASE kind = "HOME" -> Home(s)
    [] kind = "STOP" -> Stop(s)
    [] kind = "SET"  -> Set(s)
    [] kind = "HB"   -> {s}

Obey ==
  /\ pending # <<>> /\ pending' = Tail(pending)
  /\ state' \in After(state, Head(pending))

\* What it may do on its own: lose the reference with a fault, give up a homing,
\* arrive, and find the reference on the lower switch only.
Moves(s) ==
  {t \in States :
     /\ Fitting(t)
     /\ \/ t.mode = s.mode /\ (t.fits => s.fits)
        \/ t.mode = "FAULT"
        \/ s.mode = "HOMING" /\ t.mode = "UNHOMED"
        \/ s.mode = "MOVING" /\ t.mode = "IDLE"
        \/ t.mode = "IDLE" /\ t.lower /\ t.fits}

Run == state' \in Moves(state) /\ UNCHANGED pending

Reset == pending' = <<>> /\ state' = Unpowered

Next == (\E kind \in Kinds : Receive(kind)) \/ Obey \/ Run \/ Reset

Spec == Init /\ [][Next]_deviceVars
=============================================================================
