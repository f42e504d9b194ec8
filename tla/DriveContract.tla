--------------------------- MODULE DriveContract ---------------------------
(***************************************************************************)
(* The base drive as its host sees it: what it has become and what it has  *)
(* answered after every line, and after everything that happens without    *)
(* one.                                                                    *)
(***************************************************************************)
EXTENDS DrivePort, Naturals

CONSTANT ErrorCap   \* bound of the count of damaged lines

VARIABLES
  base,     \* the drive, as in DrivePort
  errors,   \* how many lines were damaged
  answer    \* what it has just written, if anything

contractVars == <<base, errors, answer>>

Commands == {"CMD0", "CMDV", "PING", "DISABLE", "ESTOP", "CLEAR", "ENABLE"}

Says(kind) == [kind |-> kind]
Answers(kind, c) == [kind |-> kind, command |-> c]
Report == [kind |-> "STATE", enabled |-> base.enabled, fault |-> base.fault,
           errors |-> errors]

Init == base = BaseOff /\ errors = 0 /\ answer = Says("HELLO")

\* A command is obeyed and acknowledged, or refused and without effect.
Obeys(c) ==
  /\ answer' = Answers("ACK", c)
  /\ BaseAccepts(base, c) /\ base' = BaseAfter(base, c)
  /\ UNCHANGED errors
Refuses(c) ==
  /\ answer' = Answers("NACK", c)
  /\ ~BaseAccepts(base, c)
  /\ UNCHANGED <<base, errors>>

\* A damaged line is counted and has no effect.
Counts ==
  /\ answer' \in {Says("SILENT"), Says("DAMAGED")}
  /\ errors' = IF errors < ErrorCap THEN errors + 1 ELSE errors
  /\ UNCHANGED base

Ages == base.fresh /\ base' = Aged(base)
Lapses ==
  base.enabled /\ ~base.fresh /\ \E e \in BOOLEAN : base' = Lapsed(base, e)
Wraps == ~base.enabled /\ ~base.fresh /\ base' = Wrapped(base)
Alone ==
  /\ answer' = Says("SILENT")
  /\ Ages \/ Lapses \/ Wraps \/ UNCHANGED base
  /\ UNCHANGED errors

\* A report says what is the case.
Reports == answer' = Report /\ UNCHANGED <<base, errors>>

Resets == answer' = Says("HELLO") /\ base' = BaseOff /\ errors' = 0

Next == Alone \/ Reports \/ Resets \/ Counts
          \/ \E c \in Commands : Obeys(c) \/ Refuses(c)

Spec == Init /\ [][Next]_contractVars
=============================================================================
