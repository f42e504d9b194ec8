-------------------------- MODULE RobotLinksProofs --------------------------
(***************************************************************************)
(* Theorems about RobotLinks, with or without the lift, for every number   *)
(* of attempts, every length of the links and every set of failures.       *)
(***************************************************************************)
EXTENDS RobotLinks, SequenceTheorems, TLAPS

-----------------------------------------------------------------------------
(* The inductive invariant.                                                *)

SessionIds == Sessions \cup {NoSession}

BaseCommands == {"CMD0", "CMDV", "DISABLE", "ENABLE", "CLEAR"}
LiftCommands == {"HELLO", "STOP", "CLEAR", "HOME", "ARM", "SET"}

LinesTo(d) ==
  IF d = "base"
  THEN [command : BaseCommands, awaited : BOOLEAN, session : SessionIds]
  ELSE [command : LiftCommands, awaited : BOOLEAN, session : SessionIds]

BaseFaults == {"COMMAND_TIMEOUT", "SOFTWARE_ESTOP"}
BaseStates ==
  [enabled : BOOLEAN, fault : SUBSET BaseFaults, moving : BOOLEAN,
   fresh : BOOLEAN, errors : Nat, restarts : Nat]
LiftStates ==
  [session : SessionIds, retired : SessionIds,
   fault : {"NONE", "COMM_TIMEOUT", "GEOMETRY"},
   homed : BOOLEAN, mode : {"idle", "homing", "armed"}]

BaseReport ==
  [enabled : BOOLEAN, fault : SUBSET BaseFaults, errors : Nat, restarts : Nat]
LiftReport ==
  [fault : {"NONE", "COMM_TIMEOUT", "GEOMETRY"}, homed : BOOLEAN, armed : BOOLEAN]
Messages ==
  [kind : {"OK", "NO", "HELLO", "BOOT", "BAD"}, awaited : BOOLEAN, session : SessionIds]
    \cup [kind : {"STATE"}, awaited : BOOLEAN, session : SessionIds,
          state : BaseReport \cup LiftReport]

\* Lines to the devices, and lines from them.
Outgoing(o) ==
  /\ o = [d \in Links |-> o[d]]
  /\ \A d \in Links : o[d] \in Seq(LinesTo(d))
Incoming(in) == in \in [Links -> Seq(Messages)]

ControlType ==
  /\ stage \in Stages /\ active \in BOOLEAN /\ fatal \in BOOLEAN
  /\ attempts \in 0..StartAttempts + 1 /\ answer \in {"none", "ok", "no"}
  /\ hello_acked \in BOOLEAN
  /\ lift_session \in SessionIds /\ (stage # "closed" => lift_session # NoSession)
  /\ active => stage \in {"reading", "writing"}
  /\ stage = "writing" => active

LinkType ==
  /\ port \in [Links -> {"closed", "open", "broken"}]
  /\ \A d \in Links : port[d] = "closed" <=> stage = "closed"
  /\ stop_lost \in [Links -> BOOLEAN]
  /\ Outgoing(outbox) /\ Incoming(inbox)
  /\ stage = "closed" => \A d \in Links : inbox[d] = <<>>
  /\ seen = [d \in Links |-> seen[d]]

\* A lift that moves or is armed is one of a session.
Driven(r) == r.mode # "idle" => "lift" \in Links /\ r.session # NoSession

DeviceType ==
  /\ base \in BaseStates /\ lift \in LiftStates
  /\ Driven(lift)
  /\ failures \in 0..MaxFailures
  /\ base.errors + base.restarts <= failures

\* Of the lines q to the base: a DISABLE stands behind every line that starts the
\* drive, where an ENABLE is no such line while stage s activates; a DISABLE is on its
\* way; and no CLEAR is.
Guarded(q, s) ==
  \A i \in DOMAIN q :
    q[i].command = "CMDV" \/ (q[i].command = "ENABLE" /\ s \notin Activation)
      => \E j \in DOMAIN q : j > i /\ q[j].command = "DISABLE"
Stopping(q) == \E j \in DOMAIN q : q[j].command = "DISABLE"
ClearFree(q) == \A i \in DOMAIN q : q[i].command # "CLEAR"

\* What keeps DriveHeld.
AtRest == ~base.moving /\ (base.enabled => stage \in Activation)
BaseHeld ==
  \/ active \/ stop_lost["base"]
  \/ /\ Guarded(outbox["base"], stage)
     /\ Stopping(outbox["base"]) \/ AtRest

\* The base tells of its E-stop in every STATE that is not read yet.
Tells(q) ==
  \A i \in DOMAIN q :
    q[i].kind = "STATE" => "SOFTWARE_ESTOP" \in q[i].state.fault

\* What keeps EstopNeedsOperator: the E-stop is latched while the port is closed,
\* so that no STATE of before is left, and no activation gets to CLEAR.
EstopKnown ==
  "SOFTWARE_ESTOP" \in base.fault =>
    /\ ~active
    /\ stage \in Startup \cup {"closed", "error", "reading", "zero", "check"}
    /\ ClearFree(outbox["base"])
    /\ Tells(inbox["base"])
    /\ seen["base"].seen => EstopSeen

ClosedIsUnseen == stage = "closed" => seen["base"] = Unseen

IInv == ControlType /\ LinkType /\ DeviceType /\ BaseHeld /\ EstopKnown /\ ClosedIsUnseen

-----------------------------------------------------------------------------
(* Lemmas about states and operators.                                      *)

LEMMA BaseIsLink == "base" \in Links /\ Links \subseteq {"base", "lift"}
  BY DEF Links

\* The stages, apart from one another.
LEMMA StageType ==
  /\ Activation \subseteq Stages /\ Startup \subseteq Stages
  /\ Activation \cap (Startup \cup {"closed", "reading", "writing", "error"}) = {}
  /\ Startup \cap {"closed", "reading", "writing", "error"} = {}
  BY DEF Activation, Startup, Stages

\* To forget who waits changes neither the commands nor the sessions.
LEMMA ForgottenType ==
  ASSUME NEW d \in Links, NEW lines \in Seq(LinesTo(d))
  PROVE  /\ Forgotten(lines) \in Seq(LinesTo(d))
         /\ DOMAIN Forgotten(lines) = DOMAIN lines
         /\ Len(Forgotten(lines)) = Len(lines)
         /\ \A i \in DOMAIN lines : Forgotten(lines)[i].command = lines[i].command
<1>1. \A i \in DOMAIN lines : lines[i] \in LinesTo(d)
  BY ElementOfSeq
<1>2. \A i \in DOMAIN lines :
        /\ [lines[i] EXCEPT !.awaited = FALSE] \in LinesTo(d)
        /\ [lines[i] EXCEPT !.awaited = FALSE].command = lines[i].command
  BY <1>1 DEF LinesTo
<1>3. DOMAIN lines = 1..Len(lines) /\ Len(lines) \in Nat
  OBVIOUS
<1>4. Forgotten(lines) \in Seq(LinesTo(d)) /\ Len(Forgotten(lines)) = Len(lines)
  BY <1>2, <1>3 DEF Forgotten
<1>5. QED
  BY <1>2, <1>4 DEF Forgotten

LEMMA OwnType ==
  ASSUME IInv
  PROVE  lift_session \in SessionIds
BY DEF IInv, ControlType

\* A line of its own goes with the lines to its device.
LEMMA LineType ==
  ASSUME lift_session \in SessionIds, NEW c, NEW b \in BOOLEAN
  PROVE  /\ c \in BaseCommands => Line(c, b) \in LinesTo("base")
         /\ c \in LiftCommands => Line(c, b) \in LinesTo("lift")
         /\ Line(c, b).command = c
  BY DEF Line, LinesTo

\* The lines of a stop; the last one of the base is DISABLE.
LEMMA StopLinesType ==
  ASSUME lift_session \in SessionIds
  PROVE  /\ \A d \in Links : StopLines[d] \in Seq(LinesTo(d))
         /\ Len(StopLines["base"]) = 2
         /\ StopLines["base"][1].command = "CMD0"
         /\ StopLines["base"][2].command = "DISABLE"
<1>1. StopLines["base"] = <<Line("CMD0", FALSE), Line("DISABLE", FALSE)>>
      /\ StopLines["lift"] = <<Line("STOP", FALSE)>>
  BY DEF StopLines
<1>2. /\ Line("CMD0", FALSE) \in LinesTo("base")
      /\ Line("DISABLE", FALSE) \in LinesTo("base")
      /\ Line("STOP", FALSE) \in LinesTo("lift")
      /\ Line("CMD0", FALSE).command = "CMD0" /\ Line("DISABLE", FALSE).command = "DISABLE"
  BY LineType, OwnType DEF BaseCommands, LiftCommands
<1>3. \A S, a, b : a \in S /\ b \in S => <<a>> \in Seq(S) /\ <<a, b>> \in Seq(S)
  OBVIOUS
<1>4. /\ StopLines["base"] \in Seq(LinesTo("base"))
      /\ StopLines["lift"] \in Seq(LinesTo("lift"))
  BY <1>1, <1>2, <1>3
<1>5. /\ Len(StopLines["base"]) = 2
      /\ StopLines["base"][1] = Line("CMD0", FALSE)
      /\ StopLines["base"][2] = Line("DISABLE", FALSE)
  <2>1. \A a, b : Len(<<a, b>>) = 2 /\ <<a, b>>[1] = a /\ <<a, b>>[2] = b
    OBVIOUS
  <2>2. QED
    BY <1>1, <2>1
<1>6. QED
  BY <1>2, <1>4, <1>5, BaseIsLink

-----------------------------------------------------------------------------
(* Lemmas about the lines to the base.                                     *)

\* To forget who waits changes nothing that matters.
LEMMA ForgottenGuards ==
  ASSUME NEW q \in Seq(LinesTo("base")), NEW a
  PROVE  /\ Guarded(Forgotten(q), a) <=> Guarded(q, a)
         /\ Stopping(Forgotten(q)) <=> Stopping(q)
         /\ ClearFree(Forgotten(q)) <=> ClearFree(q)
<1>1. /\ DOMAIN Forgotten(q) = DOMAIN q
      /\ \A i \in DOMAIN q : Forgotten(q)[i].command = q[i].command
  BY ForgottenType, BaseIsLink
<1>2. QED
  BY <1>1 DEF Guarded, Stopping, ClearFree

\* A line that starts nothing is added.
LEMMA AppendGuards ==
  ASSUME NEW q \in Seq(LinesTo("base")), NEW a,
         NEW l \in LinesTo("base"), l.command # "CMDV", l.command = "ENABLE"
           => a \in Activation
  PROVE  /\ Guarded(q, a) => Guarded(Append(q, l), a)
         /\ Stopping(q) => Stopping(Append(q, l))
         /\ ClearFree(q) /\ l.command # "CLEAR" => ClearFree(Append(q, l))
         /\ l.command = "DISABLE" => Guarded(Append(q, l), a) /\ Stopping(Append(q, l))
<1> DEFINE r == Append(q, l)
<1>1. /\ Len(q) \in Nat /\ DOMAIN q = 1..Len(q) /\ DOMAIN r = 1..Len(q) + 1
      /\ \A i \in 1..Len(q) : r[i] = q[i]
      /\ r[Len(q) + 1] = l
  BY AppendProperties, LenProperties
<1> HIDE DEF r
<1>2. QED
  BY <1>1 DEF Guarded, Stopping, ClearFree

\* The first line is read.
LEMMA TailGuards ==
  ASSUME NEW q \in Seq(LinesTo("base")), NEW a, q # <<>>
  PROVE  /\ Guarded(q, a) => Guarded(Tail(q), a)
         /\ ClearFree(q) => ClearFree(Tail(q)) /\ Head(q).command # "CLEAR"
         /\ Stopping(q) /\ Head(q).command # "DISABLE" => Stopping(Tail(q))
         /\ Guarded(q, a) /\ (Head(q).command = "CMDV"
                              \/ (Head(q).command = "ENABLE" /\ a \notin Activation))
              => Stopping(Tail(q))
         /\ Head(q) \in LinesTo("base") /\ Tail(q) \in Seq(LinesTo("base"))
         /\ Len(Tail(q)) = Len(q) - 1
<1> DEFINE r == Tail(q)
<1>1. /\ Len(q) \in Nat \ {0} /\ DOMAIN q = 1..Len(q) /\ DOMAIN r = 1..Len(q) - 1
      /\ \A i \in 1..Len(q) - 1 : r[i] = q[i + 1]
      /\ Head(q) = q[1]
      /\ Head(q) \in LinesTo("base") /\ r \in Seq(LinesTo("base"))
      /\ Len(r) = Len(q) - 1
  BY HeadTailProperties, LenProperties, EmptySeq
<1> HIDE DEF r
<1>2. Guarded(q, a) => Guarded(r, a)
  <2> SUFFICES ASSUME Guarded(q, a), NEW i \in DOMAIN r,
                      r[i].command = "CMDV"
                        \/ (r[i].command = "ENABLE" /\ a \notin Activation)
               PROVE  \E j \in DOMAIN r : j > i /\ r[j].command = "DISABLE"
    BY DEF Guarded
  <2>1. PICK j \in DOMAIN q : j > i + 1 /\ q[j].command = "DISABLE"
    BY <1>1 DEF Guarded
  <2>2. j - 1 \in DOMAIN r /\ r[j - 1] = q[j] /\ j - 1 > i
    BY <1>1, <2>1
  <2>3. QED
    BY <2>1, <2>2
<1>3. \A j \in DOMAIN q : j > 1 /\ q[j].command = "DISABLE" => Stopping(r)
  <2>1. \A j \in DOMAIN q : j > 1 => j - 1 \in DOMAIN r /\ r[j - 1] = q[j]
    BY <1>1
  <2>2. QED
    BY <2>1 DEF Stopping
<1>4. /\ Stopping(q) /\ Head(q).command # "DISABLE" => Stopping(r)
      /\ Guarded(q, a) /\ (Head(q).command = "CMDV"
                           \/ (Head(q).command = "ENABLE" /\ a \notin Activation)) => Stopping(r)
  BY <1>1, <1>3 DEF Stopping, Guarded
<1>5. ClearFree(q) => ClearFree(r) /\ Head(q).command # "CLEAR"
  <2>1. \A i \in DOMAIN r : i + 1 \in DOMAIN q /\ r[i] = q[i + 1]
    BY <1>1
  <2>2. 1 \in DOMAIN q /\ Head(q) = q[1]
    BY <1>1
  <2>3. QED
    BY <2>1, <2>2 DEF ClearFree
<1>6. QED
  BY <1>1, <1>2, <1>4, <1>5 DEF r

\* A stop is added.
LEMMA StopGuards ==
  ASSUME lift_session \in SessionIds, NEW q \in Seq(LinesTo("base")), NEW a
  PROVE  /\ q \o StopLines["base"] \in Seq(LinesTo("base"))
         /\ Guarded(q \o StopLines["base"], a)
         /\ Stopping(q \o StopLines["base"])
         /\ ClearFree(q) => ClearFree(q \o StopLines["base"])
<1> DEFINE t == StopLines["base"]
           r == q \o t
<1>t. t \in Seq(LinesTo("base")) /\ Len(t) = 2
  BY StopLinesType, OwnType, BaseIsLink
<1>1. /\ r \in Seq(LinesTo("base"))
      /\ Len(q) \in Nat /\ DOMAIN q = 1..Len(q) /\ DOMAIN r = 1..(Len(q) + 2)
      /\ \A i \in 1..Len(q) : r[i] = q[i]
      /\ r[Len(q) + 1] = t[1] /\ r[Len(q) + 2] = t[2]
  <2> HIDE DEF t
  <2>1. /\ q \o t \in Seq(LinesTo("base")) /\ Len(q \o t) = Len(q) + Len(t)
        /\ \A i \in 1..(Len(q) + Len(t)) :
             (q \o t)[i] = IF i <= Len(q) THEN q[i] ELSE t[i - Len(q)]
    BY <1>t, ConcatProperties
  <2>2. /\ Len(q) \in Nat
        /\ DOMAIN q = 1..Len(q) /\ DOMAIN (q \o t) = 1..(Len(q) + 2)
    BY <1>t, <2>1, LenProperties
  <2>3. \A i \in 1..Len(q) : i \in 1..(Len(q) + Len(t)) /\ i <= Len(q)
    BY <1>t, <2>2
  <2>4. /\ Len(q) + 1 \in 1..(Len(q) + Len(t)) /\ Len(q) + 2 \in 1..(Len(q) + Len(t))
        /\ (Len(q) + 1) - Len(q) = 1 /\ (Len(q) + 2) - Len(q) = 2
        /\ ~(Len(q) + 1 <= Len(q)) /\ ~(Len(q) + 2 <= Len(q))
    BY <1>t, <2>2
  <2>5. (q \o t)[Len(q) + 1] = t[1] /\ (q \o t)[Len(q) + 2] = t[2]
    BY <2>1, <2>4
  <2>6. \A i \in 1..Len(q) : (q \o t)[i] = q[i]
    BY <2>1, <2>3
  <2>7. QED
    BY <2>1, <2>2, <2>5, <2>6
<1> HIDE DEF r
<1>2. r[Len(q) + 1].command = "CMD0" /\ r[Len(q) + 2].command = "DISABLE"
  BY <1>1, StopLinesType, OwnType DEF t
<1>3. Guarded(r, a)
  <2> SUFFICES ASSUME NEW i \in DOMAIN r,
                      r[i].command = "CMDV"
                        \/ (r[i].command = "ENABLE" /\ a \notin Activation)
               PROVE  \E j \in DOMAIN r : j > i /\ r[j].command = "DISABLE"
    BY DEF Guarded
  <2>1. i < Len(q) + 2 /\ Len(q) + 2 \in DOMAIN r
    BY <1>1, <1>2
  <2>2. QED
    BY <1>2, <2>1
<1>4. Stopping(r) /\ (ClearFree(q) => ClearFree(r))
  BY <1>1, <1>2 DEF Stopping, ClearFree
<1>5. QED
  BY <1>1, <1>3, <1>4 DEF r

\* In an activation less is asked of the lines.
LEMMA GuardedActivating ==
  ASSUME NEW q, NEW a, NEW b, a \in Activation => b \in Activation, Guarded(q, a)
  PROVE  Guarded(q, b)
  BY DEF Guarded

-----------------------------------------------------------------------------
(* What the calls of the plug-in are made of.                              *)

\* Each request goes to one device and is a command of it.
LEMMA RequestType ==
  ASSUME NEW s \in DOMAIN Request
  PROVE  /\ Request[s].to \in {"base", "lift"}
         /\ Request[s].to = "lift" => Request[s].command \in LiftCommands
         /\ Request[s].to = "base" =>
              /\ Request[s].command \in BaseCommands /\ Request[s].command # "CMDV"
              /\ Request[s].command = "ENABLE" => s = "enable"
              /\ Request[s].command = "CLEAR" => s = "clear"
  BY DEF Request, Ask, BaseCommands, LiftCommands

\* Forgetting who waits changes nothing else of a line from a device.
LEMMA ForgottenMessages ==
  ASSUME NEW lines \in Seq(Messages)
  PROVE  /\ Forgotten(lines) \in Seq(Messages)
         /\ DOMAIN Forgotten(lines) = DOMAIN lines
         /\ Len(Forgotten(lines)) = Len(lines)
         /\ \A i \in DOMAIN lines :
              /\ Forgotten(lines)[i].kind = lines[i].kind
              /\ lines[i].kind = "STATE" => Forgotten(lines)[i].state = lines[i].state
<1>1. \A i \in DOMAIN lines : lines[i] \in Messages
  BY ElementOfSeq
<1>2. ASSUME NEW m \in Messages
      PROVE  /\ [m EXCEPT !.awaited = FALSE] \in Messages
             /\ [m EXCEPT !.awaited = FALSE].kind = m.kind
             /\ m.kind = "STATE" => [m EXCEPT !.awaited = FALSE].state = m.state
  BY DEF Messages
<1>3. DOMAIN lines = 1..Len(lines) /\ Len(lines) \in Nat
  OBVIOUS
<1>4. Forgotten(lines) \in Seq(Messages) /\ Len(Forgotten(lines)) = Len(lines)
  BY <1>1, <1>2, <1>3 DEF Forgotten
<1>5. QED
  BY <1>1, <1>2, <1>4 DEF Forgotten

LEMMA TellsForgotten ==
  ASSUME NEW q \in Seq(Messages), Tells(q)
  PROVE  Tells(Forgotten(q))
  BY ForgottenMessages DEF Tells

\* Where the plug-in may be while the base has a software E-stop.
BeforeClear == Startup \cup {"closed", "error", "reading", "zero", "check"}

\* Stage s is entered by a plug-in that was not active.
LEMMA EnterKeeps ==
  ASSUME IInv, ~active, stage # "closed",
         NEW s \in Stages \ {"closed", "writing", "error"},
         NEW unread, Incoming(unread),
         "SOFTWARE_ESTOP" \in base.fault
           => Tells(unread["base"]) /\ s \in BeforeClear /\ ~active',
         Enter(s, unread),
         active' \in BOOLEAN, active' => s = "reading",
         stage \in Activation => s \in Activation \/ active',
         fatal' \in BOOLEAN, attempts' \in 0..StartAttempts + 1, hello_acked' \in BOOLEAN,
         UNCHANGED <<lift_session, port, seen, stop_lost, base, lift>>, DeviceType'
  PROVE  IInv'
<1> DEFINE asks(d) == s \in DOMAIN Request /\ Request[s].to = d
           new == Line(Request[s].command, TRUE)
<1>1. /\ stage' = s /\ answer' = "none"
      /\ inbox' = [d \in Links |-> IF asks(d) THEN Forgotten(unread[d]) ELSE unread[d]]
      /\ outbox' = [d \in Links |->
           IF asks(d) /\ port[d] = "open" THEN Append(Forgotten(outbox[d]), new)
           ELSE outbox[d]]
  BY DEF Enter
<1>2. ASSUME NEW d \in Links, asks(d)
      PROVE  /\ new \in LinesTo(d)
             /\ Forgotten(outbox[d]) \in Seq(LinesTo(d))
             /\ Append(Forgotten(outbox[d]), new) \in Seq(LinesTo(d))
  <2>1. new \in LinesTo(d)
    BY <1>2, RequestType, LineType, OwnType, BaseIsLink
  <2>2. Forgotten(outbox[d]) \in Seq(LinesTo(d))
    BY ForgottenType DEF IInv, LinkType, Outgoing
  <2>3. QED
    BY <2>1, <2>2, AppendProperties
<1> HIDE DEF asks, new
<1>3. Outgoing(outbox')
  <2>1. \A d \in Links : outbox'[d] \in Seq(LinesTo(d))
    BY <1>1, <1>2 DEF IInv, LinkType, Outgoing
  <2>2. QED
    BY <1>1, <2>1 DEF Outgoing
<1>4. /\ Incoming(inbox')
      /\ Tells(unread["base"]) => Tells(inbox'["base"])
  <2>1. \A d \in Links : unread[d] \in Seq(Messages)
    BY DEF Incoming
  <2>2. \A d \in Links : /\ Forgotten(unread[d]) \in Seq(Messages)
                         /\ inbox'[d] \in {unread[d], Forgotten(unread[d])}
    BY <1>1, <2>1, ForgottenMessages
  <2>3. Incoming(inbox')
    BY <1>1, <2>1, <2>2 DEF Incoming
  <2>4. Tells(unread["base"]) => Tells(inbox'["base"])
    BY <2>1, <2>2, TellsForgotten, BaseIsLink
  <2>5. QED
    BY <2>3, <2>4
<1>5. ControlType'
  BY <1>1, StageType DEF IInv, ControlType, Stages
<1>6. LinkType'
  BY <1>1, <1>3, <1>4 DEF IInv, LinkType
<1>7. DeviceType' /\ ClosedIsUnseen'
  BY <1>1 DEF IInv, DeviceType, ClosedIsUnseen
<1>8. /\ Guarded(outbox["base"], stage) /\ ~active'
           => Guarded(outbox'["base"], stage')
      /\ Stopping(outbox["base"]) => Stopping(outbox'["base"])
      /\ ClearFree(outbox["base"]) /\ s \in BeforeClear => ClearFree(outbox'["base"])
  <2> DEFINE q == outbox["base"]
             f == Forgotten(q)
  <2>1. q \in Seq(LinesTo("base")) /\ f \in Seq(LinesTo("base"))
    BY ForgottenType, BaseIsLink DEF IInv, LinkType, Outgoing
  <2>2. CASE asks("base") /\ port["base"] = "open"
    <3>1. outbox'["base"] = Append(f, new)
      BY <1>1, <2>2, BaseIsLink
    <3>2. /\ new \in LinesTo("base") /\ new.command = Request[s].command
          /\ s \in DOMAIN Request /\ Request[s].to = "base"
      BY <1>2, <2>2, BaseIsLink, LineType, OwnType DEF asks, new
    <3>3. /\ new.command # "CMDV" /\ (new.command = "ENABLE" => s \in Activation)
          /\ (new.command = "CLEAR" => s = "clear")
      BY <3>2, RequestType DEF Activation
    <3>4. s \in BeforeClear => new.command # "CLEAR"
      BY <3>3 DEF BeforeClear, Startup
    <3>5. /\ Guarded(f, s) => Guarded(Append(f, new), s)
          /\ Stopping(f) => Stopping(Append(f, new))
          /\ ClearFree(f) /\ new.command # "CLEAR" => ClearFree(Append(f, new))
      BY <2>1, <3>2, <3>3, AppendGuards
    <3>6. /\ Guarded(q, s) => Guarded(f, s)
          /\ Stopping(q) => Stopping(f)
          /\ ClearFree(q) => ClearFree(f)
      BY <2>1, ForgottenGuards
    <3>7. Guarded(q, stage) /\ ~active' => Guarded(q, s)
      BY GuardedActivating
    <3>8. stage' = s
      BY <1>1
    <3>9. /\ Guarded(q, stage) /\ ~active' => Guarded(Append(f, new), s)
          /\ Stopping(q) => Stopping(Append(f, new))
          /\ ClearFree(q) /\ s \in BeforeClear => ClearFree(Append(f, new))
      BY <3>4, <3>5, <3>6, <3>7
    <3> HIDE DEF f
    <3>10. QED
      BY <3>1, <3>8, <3>9
  <2>3. CASE ~(asks("base") /\ port["base"] = "open")
    <3>1. outbox'["base"] = q
      BY <1>1, <2>3, BaseIsLink
    <3>2. Guarded(q, stage) /\ ~active' => Guarded(q, s)
      BY GuardedActivating
    <3>3. QED
      BY <1>1, <3>1, <3>2
  <2>4. QED
    BY <2>2, <2>3
<1>9. BaseHeld'
  BY <1>1, <1>8 DEF IInv, BaseHeld, AtRest
<1>10. EstopKnown'
  <2>1. base' = base /\ seen' = seen /\ stage' = s
    BY <1>1
  <2>2. EstopSeen' <=> EstopSeen
    BY <2>1 DEF EstopSeen
  <2>3. QED
    BY <1>1, <1>4, <1>8, <2>1, <2>2 DEF IInv, EstopKnown, BeforeClear
<1>11. QED
  BY <1>5, <1>6, <1>7, <1>9, <1>10 DEF IInv

\* After a stop either the base gets no line, or a DISABLE is the last one it gets.
LEMMA SafeStopType ==
  ASSUME IInv, stage # "closed", NEW lines, Outgoing(lines), SafeStop(lines)
  PROVE  /\ Outgoing(outbox') /\ stop_lost' \in [Links -> BOOLEAN]
         /\ ~stop_lost'["base"] =>
              Stopping(outbox'["base"]) /\ \A s : Guarded(outbox'["base"], s)
         /\ ClearFree(lines["base"]) => ClearFree(outbox'["base"])
<1>1. /\ outbox' = [d \in Links |-> Forgotten(lines[d])
           \o (IF port[d] = "open" THEN StopLines[d] ELSE <<>>)]
      /\ stop_lost' = [d \in Links |-> stop_lost[d] \/ port[d] = "broken"]
  BY DEF SafeStop
<1>2. stop_lost' \in [Links -> BOOLEAN]
  BY <1>1
<1>3. \A d \in Links : lines[d] \in Seq(LinesTo(d))
        /\ Forgotten(lines[d]) \in Seq(LinesTo(d))
  BY ForgottenType DEF Outgoing
<1>4. \A d \in Links : outbox'[d] \in Seq(LinesTo(d))
  <2> SUFFICES ASSUME NEW d \in Links PROVE outbox'[d] \in Seq(LinesTo(d))
    OBVIOUS
  <2> DEFINE t == IF port[d] = "open" THEN StopLines[d] ELSE <<>>
  <2>1. t \in Seq(LinesTo(d))
    BY StopLinesType, OwnType, EmptySeq
  <2>2. outbox'[d] = Forgotten(lines[d]) \o t
    BY <1>1
  <2> HIDE DEF t
  <2>3. QED
    BY <1>3, <2>1, <2>2, ConcatProperties
<1>5. Outgoing(outbox')
  BY <1>1, <1>4 DEF Outgoing
<1> DEFINE f == Forgotten(lines["base"])
<1>6. f \in Seq(LinesTo("base")) /\ lines["base"] \in Seq(LinesTo("base"))
  BY <1>3, BaseIsLink
<1>7. ClearFree(lines["base"]) => ClearFree(f)
  BY <1>6, ForgottenGuards
<1> HIDE DEF f
<1>8. CASE port["base"] = "open"
  <2>1. outbox'["base"] = f \o StopLines["base"]
    BY <1>1, <1>8, BaseIsLink DEF f
  <2>2. /\ Stopping(outbox'["base"]) /\ \A s : Guarded(outbox'["base"], s)
        /\ ClearFree(f) => ClearFree(outbox'["base"])
    BY <1>6, <2>1, StopGuards, OwnType
  <2>3. QED
    BY <1>2, <1>5, <1>7, <2>2
<1>9. CASE port["base"] # "open"
  <2>1. port["base"] = "broken"
    BY <1>9, BaseIsLink DEF IInv, LinkType
  <2>2. stop_lost'["base"]
    BY <1>1, <2>1, BaseIsLink
  <2>3. outbox'["base"] = f
    BY <1>1, <1>6, <1>9, BaseIsLink, ConcatEmptySeq DEF f
  <2>4. QED
    BY <1>2, <1>5, <1>7, <2>2, <2>3
<1>10. QED
  BY <1>8, <1>9

\* A call ends with ERROR after a stop.
LEMMA FailKeeps ==
  ASSUME IInv, stage # "closed",
         NEW lines, Outgoing(lines),
         ClearFree(outbox["base"]) => ClearFree(lines["base"]),
         NEW unread, Incoming(unread),
         "SOFTWARE_ESTOP" \in base.fault => Tells(unread["base"]),
         FailAfter(lines, unread), UNCHANGED <<base, lift>>, DeviceType'
  PROVE  IInv'
<1>1. /\ stage' = "error" /\ active' = FALSE /\ inbox' = unread
      /\ UNCHANGED <<fatal, attempts, answer, hello_acked, lift_session, port, seen, base,
                     lift>>
      /\ SafeStop(lines)
  BY DEF FailAfter
<1>2. /\ Outgoing(outbox') /\ stop_lost' \in [Links -> BOOLEAN]
      /\ ~stop_lost'["base"] =>
           Stopping(outbox'["base"]) /\ Guarded(outbox'["base"], stage')
      /\ ClearFree(lines["base"]) => ClearFree(outbox'["base"])
  BY <1>1, SafeStopType
<1>3. ControlType'
  BY <1>1 DEF IInv, ControlType, Stages
<1>4. LinkType'
  BY <1>1, <1>2 DEF IInv, LinkType
<1>5. DeviceType' /\ ClosedIsUnseen'
  BY <1>1 DEF IInv, DeviceType, ClosedIsUnseen
<1>6. BaseHeld'
  BY <1>1, <1>2 DEF BaseHeld
<1>7. EstopKnown'
  BY <1>1, <1>2 DEF IInv, EstopKnown, EstopSeen
<1>8. QED
  BY <1>3, <1>4, <1>5, <1>6, <1>7 DEF IInv

\* Both ports are stopped and closed.
LEMMA GiveUpKeeps ==
  ASSUME IInv, stage # "closed", GiveUp, UNCHANGED <<base, lift>>, DeviceType'
  PROVE  IInv'
<1>1. /\ SafeStop(outbox)
      /\ port' = [d \in Links |-> "closed"] /\ stage' = "closed" /\ attempts' = 0
      /\ active' = FALSE /\ fatal' = FALSE /\ answer' = "none" /\ hello_acked' = FALSE
      /\ seen' = [d \in Links |-> Unseen] /\ inbox' = [d \in Links |-> <<>>]
      /\ UNCHANGED <<lift_session, base, lift>> /\ lift_session \in SessionIds
  BY OwnType DEF GiveUp, ClosePorts, ResetRuntimeState
<1>2. /\ Outgoing(outbox') /\ stop_lost' \in [Links -> BOOLEAN]
      /\ ~stop_lost'["base"] =>
           Stopping(outbox'["base"]) /\ Guarded(outbox'["base"], stage')
      /\ ClearFree(outbox["base"]) => ClearFree(outbox'["base"])
  BY <1>1, SafeStopType DEF IInv, LinkType
<1>3. ControlType'
  <2>1. attempts' \in 0..StartAttempts + 1
    BY <1>1, HostAssumption
  <2>2. QED
    BY <1>1, <2>1 DEF ControlType, Stages
<1>4. LinkType'
  <2>1. Incoming(inbox')
    BY <1>1, EmptySeq DEF Incoming
  <2>2. QED
    BY <1>1, <1>2, <2>1 DEF LinkType
<1>5. DeviceType' /\ ClosedIsUnseen'
  BY <1>1, BaseIsLink DEF IInv, DeviceType, ClosedIsUnseen
<1>6. BaseHeld'
  BY <1>1, <1>2 DEF BaseHeld
<1>7. EstopKnown'
  <2>1. inbox'["base"] = <<>> /\ ~seen'["base"].seen
    BY <1>1, BaseIsLink DEF Unseen
  <2>2. Tells(inbox'["base"])
    BY <2>1 DEF Tells
  <2>3. QED
    BY <1>1, <1>2, <2>1, <2>2 DEF IInv, EstopKnown
<1>8. QED
  BY <1>3, <1>4, <1>5, <1>6, <1>7 DEF IInv

\* Another attempt, or none any more.
LEMMA AgainKeeps ==
  ASSUME IInv, stage \in Startup, NEW s \in Startup,
         NEW unread, Incoming(unread),
         "SOFTWARE_ESTOP" \in base.fault => Tells(unread["base"]),
         Again(s, unread), UNCHANGED <<base, lift>>, DeviceType'
  PROVE  IInv'
<1>1. /\ ~active /\ stage # "closed" /\ stage \notin Activation
      /\ s \in Stages \ {"closed", "writing", "error"} /\ s \in BeforeClear
  BY StageType DEF IInv, ControlType, BeforeClear
<1>2. CASE attempts = StartAttempts /\ GiveUp
  BY <1>1, <1>2, GiveUpKeeps
<1>3. CASE /\ attempts < StartAttempts /\ attempts' = attempts + 1 /\ fatal' = FALSE
           /\ Enter(s, unread)
           /\ UNCHANGED <<active, hello_acked, lift_session, port, seen, stop_lost>>
  <2>1. attempts' \in 0..StartAttempts + 1
    BY <1>3, HostAssumption DEF IInv, ControlType
  <2>2. /\ active' \in BOOLEAN /\ ~active'
        /\ fatal' \in BOOLEAN /\ hello_acked' \in BOOLEAN
    BY <1>1, <1>3 DEF IInv, ControlType
  <2>3. QED
    BY <1>1, <1>3, <2>1, <2>2, EnterKeeps
<1>4. QED
  BY <1>2, <1>3 DEF Again

-----------------------------------------------------------------------------
(* The pump.                                                               *)

\* Lines are read, and perhaps a state is learned; nothing is sent.
LEMMA ReadKeeps ==
  ASSUME IInv, stage # "closed", Incoming(inbox'),
         "SOFTWARE_ESTOP" \in base.fault =>
           Tells(inbox'["base"]) /\ (seen'["base"].seen => EstopSeen'),
         seen' = [d \in Links |-> seen'[d]],
         stage' = stage \/ (active /\ stage' = "writing"),
         fatal' \in BOOLEAN, answer' \in {"none", "ok", "no"}, hello_acked' \in BOOLEAN,
         UNCHANGED <<active, attempts, lift_session, port, outbox, stop_lost, base, lift>>,
         DeviceType'
  PROVE  IInv'
<1>1. ControlType'
  BY DEF IInv, ControlType, Stages
<1>2. stage' # "closed"
  OBVIOUS
<1>3. LinkType'
  BY <1>2 DEF IInv, LinkType
<1>4. DeviceType' /\ ClosedIsUnseen'
  BY <1>2 DEF IInv, DeviceType, ClosedIsUnseen
<1>5. BaseHeld'
  BY DEF IInv, BaseHeld, AtRest
<1>6. EstopKnown'
  BY DEF IInv, EstopKnown
<1>7. QED
  BY <1>1, <1>3, <1>4, <1>5, <1>6 DEF IInv

LEMMA PumpFailsKeeps ==
  ASSUME IInv, Pumping, NEW unread, Incoming(unread),
         "SOFTWARE_ESTOP" \in base.fault => Tells(unread["base"]),
         PumpFails(unread), UNCHANGED <<base, lift>>, DeviceType'
  PROVE  IInv'
<1>1. stage # "closed" /\ Outgoing(outbox)
  BY StageType DEF IInv, LinkType, Pumping
<1>2. CASE \/ stage \in {"disable", "base_seen"} /\ Again("disable", unread)
           \/ stage \in {"hello", "lift_seen"} /\ Again("hello", unread)
  BY <1>2, AgainKeeps DEF Startup
<1>3. CASE stage \in Activation \cup {"reading"} /\ Fail(unread)
  BY <1>1, <1>3, FailKeeps DEF Fail
<1>4. CASE /\ stage = "lift_seen" /\ fatal' = TRUE /\ inbox' = unread
           /\ UNCHANGED <<stage, active, attempts, answer, hello_acked, lift_session, port,
                          outbox,
                          seen, stop_lost>>
  <2>1. /\ answer' \in {"none", "ok", "no"} /\ hello_acked' \in BOOLEAN
        /\ seen' = [d \in Links |-> seen'[d]]
    BY <1>4 DEF IInv, ControlType, LinkType
  <2>2. "SOFTWARE_ESTOP" \in base.fault => (seen'["base"].seen => EstopSeen')
    BY <1>4 DEF IInv, EstopKnown, EstopSeen
  <2>3. QED
    BY <1>1, <1>4, <2>1, <2>2, ReadKeeps
<1>5. QED
  BY <1>2, <1>3, <1>4 DEF PumpFails

\* What is left of the lines of one link.
LEMMA RestType ==
  ASSUME NEW q \in Seq(Messages), q # <<>>
  PROVE  /\ Head(q) \in Messages
         /\ Tail(q) \in Seq(Messages) /\ (Tells(q) => Tells(Tail(q)))
         /\ \A k \in 0..Len(Tail(q)) :
              LET r == SubSeq(Tail(q), k + 1, Len(Tail(q))) IN
              r \in Seq(Messages) /\ (Tells(q) => Tells(r))
         /\ Tells(q) /\ Head(q).kind = "STATE"
              => "SOFTWARE_ESTOP" \in Head(q).state.fault
<1> DEFINE t == Tail(q)
<1>1. /\ Len(q) \in Nat \ {0} /\ DOMAIN q = 1..Len(q)
      /\ t \in Seq(Messages) /\ Len(t) = Len(q) - 1 /\ DOMAIN t = 1..Len(t)
      /\ \A i \in DOMAIN t : i + 1 \in DOMAIN q /\ t[i] = q[i + 1]
      /\ Head(q) \in Messages /\ Head(q) = q[1] /\ 1 \in DOMAIN q
  BY HeadTailProperties, LenProperties, EmptySeq
<1> HIDE DEF t
<1>2. Tells(q) => Tells(t)
  BY <1>1 DEF Tells
<1>3. ASSUME NEW k \in 0..Len(t)
      PROVE  /\ SubSeq(t, k + 1, Len(t)) \in Seq(Messages)
             /\ Tells(t) => Tells(SubSeq(t, k + 1, Len(t)))
  <2> DEFINE r == SubSeq(t, k + 1, Len(t))
  <2>1. Len(t) \in Nat /\ k \in Nat /\ \A i \in (k + 1)..Len(t) : t[i] \in Messages
    BY <1>1, ElementOfSeq
  <2>2. /\ r \in Seq(Messages)
        /\ Len(r) = IF k + 1 <= Len(t) THEN Len(t) - (k + 1) + 1 ELSE 0
        /\ \A i \in 1..(Len(t) - (k + 1) + 1) : r[i] = t[k + 1 + i - 1]
    BY <2>1, SubSeqProperties
  <2> HIDE DEF r
  <2>3. DOMAIN r = 1..Len(r)
    BY <2>2, LenProperties
  <2>4. \A i \in DOMAIN r : k + i \in DOMAIN t /\ r[i] = t[k + i]
    <3> SUFFICES ASSUME NEW i \in DOMAIN r PROVE k + i \in DOMAIN t /\ r[i] = t[k + i]
      OBVIOUS
    <3>1. /\ i \in 1..(Len(t) - (k + 1) + 1) /\ k + i \in 1..Len(t)
          /\ k + 1 + i - 1 = k + i
      <4> DEFINE n == Len(t)
                 m == Len(r)
      <4>1. n \in Nat /\ k \in Nat /\ i \in 1..m
            /\ m = IF k + 1 <= n THEN n - (k + 1) + 1 ELSE 0
        BY <2>1, <2>2, <2>3
      <4> HIDE DEF n, m
      <4>2. k + 1 <= n /\ i \in 1..(n - (k + 1) + 1)
        BY <4>1
      <4>3. QED
        BY <4>1, <4>2 DEF n
    <3>2. r[i] = t[k + 1 + i - 1]
      BY <2>2, <3>1
    <3>3. QED
      BY <1>1, <3>1, <3>2
  <2>5. Tells(t) => Tells(r)
    BY <2>4 DEF Tells
  <2>6. QED
    BY <2>2, <2>5 DEF r
<1>4. Tells(q) /\ Head(q).kind = "STATE" => "SOFTWARE_ESTOP" \in Head(q).state.fault
  BY <1>1 DEF Tells
<1>5. QED
  BY <1>1, <1>2, <1>3, <1>4 DEF t

\* The rest of one link beside the other link's lines.
LEMMA UnreadType ==
  ASSUME IInv, NEW d \in Links, NEW r \in Seq(Messages),
         Tells(inbox[d]) => Tells(r)
  PROVE  /\ Incoming([inbox EXCEPT ![d] = r])
         /\ Tells(inbox["base"]) => Tells([inbox EXCEPT ![d] = r]["base"])
<1>1. inbox \in [Links -> Seq(Messages)]
  BY DEF IInv, LinkType, Incoming
<1>2. QED
  BY <1>1, BaseIsLink DEF Incoming

LEMMA TakeKeeps ==
  ASSUME IInv, NEW d \in Links, Take(d), UNCHANGED <<base, lift>>, DeviceType'
  PROVE  IInv'
<1> DEFINE l == Head(inbox[d])
           rest == Tail(inbox[d])
<1>1. /\ Pumping /\ inbox[d] # <<>> /\ inbox[d] \in Seq(Messages)
      /\ stage # "closed"
  BY StageType DEF Take, IInv, LinkType, Incoming, Pumping
<1>2. /\ rest \in Seq(Messages) /\ (Tells(inbox[d]) => Tells(rest))
      /\ \A k \in 0..Len(rest) :
           /\ SubSeq(rest, k + 1, Len(rest)) \in Seq(Messages)
           /\ Tells(inbox[d]) => Tells(SubSeq(rest, k + 1, Len(rest)))
      /\ Tells(inbox[d]) /\ l.kind = "STATE" => "SOFTWARE_ESTOP" \in l.state.fault
  BY <1>1, RestType
<1>3. "SOFTWARE_ESTOP" \in base.fault =>
        Tells(inbox["base"]) /\ (seen["base"].seen => EstopSeen)
  BY DEF IInv, EstopKnown
<1>4. CASE \E k \in 0..Len(rest) :
             PumpFails([inbox EXCEPT ![d] = SubSeq(rest, k + 1, Len(rest))])
  <2>1. PICK k \in 0..Len(rest) :
          PumpFails([inbox EXCEPT ![d] = SubSeq(rest, k + 1, Len(rest))])
    BY <1>4
  <2> DEFINE unread == [inbox EXCEPT ![d] = SubSeq(rest, k + 1, Len(rest))]
  <2>2. Incoming(unread) /\ (Tells(inbox["base"]) => Tells(unread["base"]))
    BY <1>2, UnreadType
  <2> HIDE DEF unread
  <2>3. PumpFails(unread)
    BY <2>1 DEF unread
  <2>4. QED
    BY <1>1, <1>3, <2>2, <2>3, PumpFailsKeeps
<1>5. CASE /\ inbox' = [inbox EXCEPT ![d] = rest]
           /\ seen' = IF l.kind = "STATE" /\ (d = "lift" => l.session = lift_session)
                      THEN [seen EXCEPT ![d] = [seen |-> TRUE, state |-> l.state]]
                      ELSE seen
           /\ answer' \in {"ok", "no", answer}
           /\ hello_acked' = (hello_acked \/ l.kind = "HELLO")
           /\ UNCHANGED <<stage, active, fatal, attempts, lift_session, port, outbox,
                          stop_lost>>
  <2>1. Incoming(inbox') /\ (Tells(inbox["base"]) => Tells(inbox'["base"]))
    BY <1>2, <1>5, UnreadType
  <2>2. /\ fatal' \in BOOLEAN /\ answer' \in {"none", "ok", "no"}
        /\ hello_acked' \in BOOLEAN
    BY <1>5 DEF IInv, ControlType
  <2>3. seen = [e \in Links |-> seen[e]]
    BY DEF IInv, LinkType
  <2>4. seen' = [e \in Links |-> seen'[e]]
    BY <1>5, <2>3
  <2>5. ASSUME "SOFTWARE_ESTOP" \in base.fault, seen'["base"].seen PROVE EstopSeen'
    <3>1. CASE seen'["base"] = seen["base"]
      BY <1>3, <2>5, <3>1 DEF EstopSeen
    <3>2. CASE seen'["base"] # seen["base"]
      <4>1. /\ d = "base" /\ l.kind = "STATE"
            /\ seen'["base"] = [seen |-> TRUE, state |-> l.state]
        BY <1>5, <2>3, <3>2, BaseIsLink
      <4>2. QED
        BY <1>2, <1>3, <2>5, <4>1 DEF EstopSeen
    <3>3. QED
      BY <3>1, <3>2
  <2>6. QED
    BY <1>1, <1>3, <1>5, <2>1, <2>2, <2>4, <2>5, ReadKeeps
<1>6. QED
  BY <1>4, <1>5 DEF Take

LEMMA PortFailsKeeps ==
  ASSUME IInv, NEW d \in Links, PortFails(d), UNCHANGED <<base, lift>>, DeviceType'
  PROVE  IInv'
  BY PumpFailsKeeps DEF PortFails, IInv, LinkType, EstopKnown

LEMMA TimeOutKeeps ==
  ASSUME IInv, TimeOut, UNCHANGED <<base, lift>>, DeviceType'
  PROVE  IInv'
<1>1. /\ Outgoing(outbox) /\ Incoming(inbox)
      /\ "SOFTWARE_ESTOP" \in base.fault => Tells(inbox["base"])
  BY DEF IInv, LinkType, EstopKnown
<1>2. CASE \/ stage \in {"disable", "base_seen"} /\ Again("disable", inbox)
           \/ stage \in {"hello", "lift_seen"} /\ Again("hello", inbox)
  BY <1>1, <1>2, AgainKeeps DEF Startup
<1>3. CASE stage \in Activation \cup {"reading"} /\ Fail(inbox)
  <2>1. stage # "closed"
    BY <1>3, StageType
  <2>2. QED
    BY <1>1, <1>3, <2>1, FailKeeps DEF Fail
<1>4. QED
  BY <1>2, <1>3 DEF TimeOut

-----------------------------------------------------------------------------
(* The life cycle.                                                         *)

\* Where a finished wait leads: an activation goes on, or it is over, and with a
\* software E-stop in the telemetry it does not get past its check.
LEMMA FollowingType ==
  ASSUME Done, stage \in Stages
  PROVE  /\ Following # "fail" => Following \in Stages \ {"closed", "writing", "error"}
         /\ stage \notin {"closed", "reading", "writing", "error"}
         /\ stage \in Activation => Following \in Activation \cup {"reading", "fail"}
         /\ stage \in Startup => Following \in Startup \cup {"reading"}
         /\ stage = "zero" => Following = "check"
         /\ stage = "check" => seen["base"].seen /\ (EstopSeen => Following = "fail")
         /\ Following = "hello" => stage \in Startup
<1>1. stage \in Activation \cup Startup
  BY DEF Done, Request, Stages, Startup
<1>2. LiftFirst \in {"renew", "home", "lift_clear", "fail"}
      /\ HomeFirst \in {"renew", "home", "fail"}
  BY DEF LiftFirst, HomeFirst
<1>3. stage \notin {"closed", "reading", "writing", "error"}
  BY <1>1, StageType
<1>4. CASE stage \in Startup
  BY <1>3, <1>4 DEF Following, Startup, Stages, Activation
<1>5. CASE stage \in Activation
  <2>1. Following \in Activation \cup {"reading", "fail"}
    BY <1>2, <1>5 DEF Following, Activation
  <2>2. stage = "zero" => Following = "check"
    BY DEF Following
  <2>3. stage = "check" => seen["base"].seen /\ (EstopSeen => Following = "fail")
    BY DEF Following, Done, Request
  <2>4. "hello" \notin Activation /\ stage \notin Startup
    BY <1>5, StageType DEF Startup
  <2>5. QED
    BY <1>3, <1>5, <2>1, <2>2, <2>3, <2>4, StageType DEF Stages
<1>6. QED
  BY <1>1, <1>4, <1>5

LEMMA ProceedKeeps ==
  ASSUME IInv, Proceed, UNCHANGED <<base, lift>>, DeviceType'
  PROVE  IInv'
<1>1. /\ Done /\ Following # "fail" /\ Enter(Following, inbox)
      /\ active' = (stage \in Activation /\ Following = "reading")
      /\ attempts' = IF Following = "hello" THEN 1 ELSE attempts
      /\ fatal' = IF Following = "hello" THEN FALSE ELSE fatal
      /\ UNCHANGED <<hello_acked, lift_session, port, seen, stop_lost>>
  BY DEF Proceed
<1>2. stage \in Stages /\ Incoming(inbox)
      /\ ("SOFTWARE_ESTOP" \in base.fault => Tells(inbox["base"]))
  BY DEF IInv, ControlType, LinkType, EstopKnown
<1>3. /\ Following \in Stages \ {"closed", "writing", "error"}
      /\ stage \notin {"closed", "reading", "writing", "error"}
      /\ stage \in Activation => Following \in Activation \/ active'
  BY <1>1, <1>2, FollowingType
<1>4. ~active
  BY <1>3 DEF IInv, ControlType
<1>5. "SOFTWARE_ESTOP" \in base.fault => Following \in BeforeClear /\ ~active'
  <2> SUFFICES ASSUME "SOFTWARE_ESTOP" \in base.fault
               PROVE  Following \in BeforeClear /\ ~active'
    OBVIOUS
  <2>1. stage \in Startup \cup {"zero", "check"} /\ (seen["base"].seen => EstopSeen)
    BY <1>3 DEF IInv, EstopKnown
  <2>2. stage # "check"
    BY <1>1, <1>2, <2>1, FollowingType
  <2>3. CASE stage \in Startup
    BY <1>1, <1>2, <2>3, FollowingType, StageType DEF BeforeClear
  <2>4. CASE stage = "zero"
    BY <1>1, <1>2, <2>4, FollowingType DEF BeforeClear
  <2>5. QED
    BY <2>1, <2>2, <2>3, <2>4
<1>6. attempts' \in 0..StartAttempts + 1
  BY <1>1, HostAssumption DEF IInv, ControlType
<1>7. active' \in BOOLEAN /\ (active' => Following = "reading")
      /\ fatal' \in BOOLEAN /\ hello_acked' \in BOOLEAN
  BY <1>1 DEF IInv, ControlType
<1>8. QED
  BY <1>1, <1>2, <1>3, <1>4, <1>5, <1>6, <1>7, EnterKeeps

LEMMA CannotProceedKeeps ==
  ASSUME IInv, CannotProceed, UNCHANGED <<base, lift>>, DeviceType'
  PROVE  IInv'
<1>1. /\ Outgoing(outbox) /\ Incoming(inbox)
      /\ "SOFTWARE_ESTOP" \in base.fault => Tells(inbox["base"])
  BY DEF IInv, LinkType, EstopKnown
<1>2. CASE stage \in Activation /\ Fail(inbox)
  <2>1. stage # "closed"
    BY <1>2, StageType
  <2>2. QED
    BY <1>1, <1>2, <2>1, FailKeeps DEF Fail
<1>3. CASE stage = "disable" /\ Again("disable", inbox)
  BY <1>1, <1>3, AgainKeeps DEF Startup
<1>4. QED
  BY <1>2, <1>3 DEF CannotProceed

LEMMA ActivateKeeps ==
  ASSUME IInv, Activate, UNCHANGED <<base, lift>>, DeviceType'
  PROVE  IInv'
<1>1. /\ stage = "reading" /\ ~active /\ fatal' = FALSE /\ Enter("zero", inbox)
      /\ UNCHANGED <<active, attempts, hello_acked, lift_session, port, seen, stop_lost>>
  BY DEF Activate
<1>2. /\ "zero" \in Stages \ {"closed", "writing", "error"} /\ "zero" \in BeforeClear
      /\ stage \notin Activation /\ stage # "closed"
  BY <1>1, StageType DEF BeforeClear, Activation
<1>3. /\ Incoming(inbox)
      /\ "SOFTWARE_ESTOP" \in base.fault => Tells(inbox["base"])
      /\ active' \in BOOLEAN /\ ~active' /\ fatal' \in BOOLEAN
      /\ attempts' \in 0..StartAttempts + 1 /\ hello_acked' \in BOOLEAN
  BY <1>1 DEF IInv, ControlType, LinkType, EstopKnown
<1>4. QED
  BY <1>1, <1>2, <1>3, EnterKeeps

LEMMA CleanupKeeps ==
  ASSUME IInv, Cleanup, UNCHANGED <<base, lift>>, DeviceType'
  PROVE  IInv'
  BY GiveUpKeeps DEF Cleanup, GiveUp

\* deactivate(), like a failure, ends with a stop.
LEMMA DeactivateKeeps ==
  ASSUME IInv, Deactivate, UNCHANGED <<base, lift>>, DeviceType'
  PROVE  IInv'
<1>1. /\ stage = "reading" /\ stage' = "reading" /\ active /\ active' = FALSE
      /\ SafeStop(outbox)
      /\ UNCHANGED <<fatal, attempts, answer, hello_acked, lift_session, port, inbox, seen,
                     base, lift>>
  BY DEF Deactivate
<1>2. /\ Outgoing(outbox') /\ stop_lost' \in [Links -> BOOLEAN]
      /\ ~stop_lost'["base"] =>
           Stopping(outbox'["base"]) /\ Guarded(outbox'["base"], stage')
  BY <1>1, SafeStopType DEF IInv, LinkType
<1>3. ControlType'
  BY <1>1 DEF IInv, ControlType, Stages
<1>4. LinkType'
  BY <1>1, <1>2 DEF IInv, LinkType
<1>5. DeviceType' /\ ClosedIsUnseen'
  BY <1>1 DEF IInv, DeviceType, ClosedIsUnseen
<1>6. BaseHeld'
  BY <1>1, <1>2 DEF BaseHeld
<1>7. EstopKnown'
  BY <1>1 DEF IInv, EstopKnown
<1>8. QED
  BY <1>3, <1>4, <1>5, <1>6, <1>7 DEF IInv

LEMMA ReadDoneKeeps ==
  ASSUME IInv, ReadDone, UNCHANGED <<base, lift>>, DeviceType'
  PROVE  IInv'
<1>1. /\ stage = "reading" /\ Outgoing(outbox) /\ Incoming(inbox)
      /\ "SOFTWARE_ESTOP" \in base.fault =>
           Tells(inbox["base"]) /\ (seen["base"].seen => EstopSeen)
  BY DEF ReadDone, IInv, LinkType, EstopKnown
<1>2. CASE Fail(inbox)
  BY <1>1, <1>2, FailKeeps DEF Fail
<1>3. CASE /\ active /\ stage' = "writing"
           /\ UNCHANGED <<active, fatal, attempts, answer, hello_acked, lift_session, port,
                          outbox, inbox, seen, stop_lost>>
  <2>1. /\ fatal' \in BOOLEAN /\ answer' \in {"none", "ok", "no"}
        /\ hello_acked' \in BOOLEAN /\ seen' = [d \in Links |-> seen'[d]]
    BY <1>3 DEF IInv, ControlType, LinkType
  <2>2. EstopSeen' <=> EstopSeen
    BY <1>3 DEF EstopSeen
  <2>3. QED
    BY <1>1, <1>3, <2>1, <2>2, ReadKeeps
<1>4. QED
  BY <1>2, <1>3 DEF ReadDone

\* write(): with a plug-in that is active, no E-stop is latched.
LEMMA WriteKeeps ==
  ASSUME IInv, Write, UNCHANGED <<base, lift>>, DeviceType'
  PROVE  IInv'
<1>1. /\ stage = "writing" /\ active /\ "SOFTWARE_ESTOP" \notin base.fault
      /\ Outgoing(outbox) /\ Incoming(inbox)
  BY DEF Write, IInv, ControlType, LinkType, EstopKnown
<1>2. ASSUME NEW d \in Links, NEW c,
             c \in (IF d = "base" THEN BaseCommands ELSE LiftCommands)
      PROVE  /\ Append(outbox[d], Line(c, FALSE)) \in Seq(LinesTo(d))
  <2>1. Line(c, FALSE) \in LinesTo(d)
    BY <1>2, LineType, OwnType, BaseIsLink
  <2>2. outbox[d] \in Seq(LinesTo(d))
    BY <1>1 DEF Outgoing
  <2>3. QED
    BY <2>1, <2>2, AppendProperties
<1>3. CASE Fail(inbox)
  BY <1>1, <1>3, FailKeeps DEF Fail
<1>4. CASE FailAfter([outbox EXCEPT !["base"] = Append(@, Line("CMDV", FALSE))], inbox)
  <2> DEFINE lines == [outbox EXCEPT !["base"] = Append(outbox["base"], Line("CMDV", FALSE))]
  <2>1. Append(outbox["base"], Line("CMDV", FALSE)) \in Seq(LinesTo("base"))
    BY <1>2, BaseIsLink DEF BaseCommands
  <2>2. Outgoing(lines)
    BY <1>1, <2>1, BaseIsLink DEF Outgoing
  <2>3. ClearFree(outbox["base"]) => ClearFree(lines["base"])
    <3> DEFINE q == outbox["base"]
               n == Line("CMDV", FALSE)
    <3>1. q \in Seq(LinesTo("base")) /\ n \in LinesTo("base") /\ n.command = "CMDV"
      BY <1>1, BaseIsLink, LineType, OwnType DEF Outgoing, BaseCommands
    <3>2. lines["base"] = Append(q, n)
      BY <1>1, BaseIsLink DEF Outgoing
    <3> HIDE DEF q, n, lines
    <3>3. /\ Len(q) \in Nat /\ DOMAIN q = 1..Len(q)
          /\ DOMAIN Append(q, n) = 1..(Len(q) + 1)
          /\ \A i \in 1..Len(q) : Append(q, n)[i] = q[i]
          /\ Append(q, n)[Len(q) + 1] = n
      BY <3>1, AppendProperties, LenProperties
    <3>4. ClearFree(q) => ClearFree(Append(q, n))
      BY <3>1, <3>3 DEF ClearFree
    <3>5. QED
      BY <3>2, <3>4 DEF q
  <2>4. FailAfter(lines, inbox)
    BY <1>4
  <2> HIDE DEF lines
  <2>5. QED
    BY <1>1, <2>2, <2>3, <2>4, FailKeeps
<1>5. ASSUME NEW v \in {"CMD0", "CMDV"},
             outbox' = [d \in Links |->
               Append(outbox[d], Line(IF d = "base" THEN v ELSE "SET", FALSE))],
             stage' = "reading",
             UNCHANGED <<active, fatal, attempts, answer, hello_acked, lift_session, port,
                         inbox, seen, stop_lost>>
      PROVE  IInv'
  <2>1. \A d \in Links : outbox'[d] \in Seq(LinesTo(d))
    BY <1>2, <1>5 DEF BaseCommands, LiftCommands
  <2>2. Outgoing(outbox')
    BY <1>5, <2>1 DEF Outgoing
  <2>3. ControlType'
    BY <1>1, <1>5 DEF IInv, ControlType, Stages
  <2>4. LinkType'
    BY <1>1, <1>5, <2>2 DEF IInv, LinkType
  <2>5. DeviceType' /\ ClosedIsUnseen'
    BY <1>5 DEF IInv, DeviceType, ClosedIsUnseen
  <2>6. BaseHeld' /\ EstopKnown'
    BY <1>1, <1>5 DEF BaseHeld, EstopKnown
  <2>7. QED
    BY <2>3, <2>4, <2>5, <2>6 DEF IInv
<1>6. QED
  BY <1>3, <1>4, <1>5 DEF Write

\* configure(): a session that nobody knows is drawn.
LEMMA OpenKeeps ==
  ASSUME IInv, Open
  PROVE  IInv'
<1>1. /\ stage = "closed" /\ stage' = "disable" /\ attempts' = 1
      /\ active' = FALSE /\ fatal' = FALSE /\ answer' = "none" /\ hello_acked' = FALSE
      /\ lift_session' \in Sessions
      /\ seen' = [d \in Links |-> Unseen] /\ inbox' = [d \in Links |-> <<>>]
      /\ port' = [d \in Links |-> "open"]
      /\ outbox' = [d \in Links |->
           IF d = "base" THEN Append(Forgotten(outbox[d]), Line("DISABLE", TRUE))
           ELSE Forgotten(outbox[d])]
      /\ UNCHANGED <<stop_lost, base, lift, failures>>
  BY DEF Open, Configure, ResetRuntimeState
<1> DEFINE f == Forgotten(outbox["base"])
           n == Line("DISABLE", TRUE)
<1>2. /\ f \in Seq(LinesTo("base")) /\ outbox["base"] \in Seq(LinesTo("base"))
      /\ n \in LinesTo("base") /\ n.command = "DISABLE"
  BY ForgottenType, LineType, OwnType, BaseIsLink DEF IInv, LinkType, Outgoing, BaseCommands
<1>3. ClearFree(outbox["base"]) => ClearFree(f)
  BY <1>2, ForgottenGuards
<1>4. outbox'["base"] = Append(f, n)
  BY <1>1, BaseIsLink
<1> HIDE DEF f, n
<1>5. /\ outbox'["base"] \in Seq(LinesTo("base"))
      /\ Guarded(outbox'["base"], stage') /\ Stopping(outbox'["base"])
      /\ ClearFree(f) => ClearFree(outbox'["base"])
  <2>1. /\ Append(f, n) \in Seq(LinesTo("base"))
        /\ ClearFree(f) => ClearFree(Append(f, n))
        /\ \A s : Guarded(Append(f, n), s) /\ Stopping(Append(f, n))
    BY <1>2, AppendGuards, AppendProperties
  <2>2. QED
    BY <1>4, <2>1
<1>6. ASSUME NEW d \in Links, d # "base" PROVE outbox'[d] \in Seq(LinesTo(d))
  <2>1. outbox[d] \in Seq(LinesTo(d)) /\ outbox'[d] = Forgotten(outbox[d])
    BY <1>1, <1>6 DEF IInv, LinkType, Outgoing
  <2>2. QED
    BY <2>1, ForgottenType
<1>7. Outgoing(outbox')
  <2>1. \A d \in Links : outbox'[d] \in Seq(LinesTo(d))
    BY <1>5, <1>6
  <2>2. QED
    BY <1>1, <2>1 DEF Outgoing
<1>8. ControlType'
  <2>1. attempts' \in 0..StartAttempts + 1
    <3>1. attempts' = 1
      BY <1>1
    <3>2. QED
      BY <3>1, HostAssumption
  <2>2. lift_session' \in SessionIds /\ lift_session' # NoSession
    BY <1>1, HostAssumption DEF SessionIds
  <2>3. QED
    BY <1>1, <2>1, <2>2 DEF ControlType, Stages, Startup
<1>9. LinkType'
  <2>1. Incoming(inbox')
    BY <1>1, EmptySeq DEF Incoming
  <2>2. QED
    BY <1>1, <1>7, <2>1 DEF IInv, LinkType
<1>10. DeviceType' /\ ClosedIsUnseen'
  BY <1>1 DEF IInv, DeviceType, ClosedIsUnseen, LiftStates, SessionIds
<1>11. BaseHeld'
  BY <1>5 DEF BaseHeld
<1>12. EstopKnown'
  <2>1. inbox'["base"] = <<>> /\ ~seen'["base"].seen /\ stage' \in Startup
    BY <1>1, BaseIsLink DEF Unseen, Startup
  <2>2. Tells(inbox'["base"])
    BY <2>1 DEF Tells
  <2>3. QED
    BY <1>1, <1>3, <1>5, <2>1, <2>2 DEF IInv, EstopKnown
<1>13. QED
  BY <1>8, <1>9, <1>10, <1>11, <1>12 DEF IInv

-----------------------------------------------------------------------------
(* The devices.                                                            *)

\* A device writes line l; into a closed port nothing gets.
LEMMA EmitType ==
  ASSUME IInv, NEW d \in Links, NEW l \in Messages, Emit(d, l)
  PROVE  /\ Incoming(inbox')
         /\ stage = "closed" => \A e \in Links : inbox'[e] = <<>>
         /\ Tells(inbox["base"])
              /\ (d = "base" /\ l.kind = "STATE" => "SOFTWARE_ESTOP" \in l.state.fault)
            => Tells(inbox'["base"])
<1> DEFINE q == inbox[d]
           r == Append(q, l)
<1>1. inbox \in [Links -> Seq(Messages)] /\ q \in Seq(Messages)
  BY DEF IInv, LinkType, Incoming
<1>2. /\ r \in Seq(Messages) /\ Len(q) \in Nat
      /\ DOMAIN q = 1..Len(q) /\ DOMAIN r = 1..(Len(q) + 1)
      /\ \A i \in 1..Len(q) : r[i] = q[i]
      /\ r[Len(q) + 1] = l
  BY <1>1, AppendProperties, LenProperties
<1>3. inbox' = IF port[d] = "open" THEN [inbox EXCEPT ![d] = r] ELSE inbox
  BY DEF Emit
<1> HIDE DEF q, r
<1>4. Incoming(inbox')
  BY <1>1, <1>2, <1>3 DEF Incoming
<1>5. stage = "closed" => \A e \in Links : inbox'[e] = <<>>
  BY <1>3 DEF IInv, LinkType
<1>6. Tells(q) /\ (l.kind = "STATE" => "SOFTWARE_ESTOP" \in l.state.fault) => Tells(r)
  BY <1>2 DEF Tells
<1>7. inbox'["base"] = inbox["base"] \/ (d = "base" /\ inbox'["base"] = r)
  BY <1>1, <1>3, BaseIsLink
<1>8. QED
  BY <1>4, <1>5, <1>6, <1>7 DEF q

\* The lines of the devices have their type.
LEMMA MessageType ==
  /\ \A d \in Links : \A k \in {"OK", "NO", "HELLO"}, l \in LinesTo(d) :
       Reply(k, l) \in Messages /\ Reply(k, l).kind = k
  /\ \A k \in {"BOOT", "BAD", "NO"} : Plain(k) \in Messages /\ Plain(k).kind = k
  /\ \A s \in SessionIds, r \in BaseReport \cup LiftReport :
       State(s, r) \in Messages /\ State(s, r).state = r
<1>1. ASSUME NEW k \in {"OK", "NO", "HELLO"}, NEW d \in Links, NEW l \in LinesTo(d)
      PROVE  Reply(k, l) \in Messages /\ Reply(k, l).kind = k
  <2>1. l.awaited \in BOOLEAN /\ l.session \in SessionIds
    BY DEF LinesTo, SessionIds
  <2>2. QED
    BY <2>1 DEF Reply, Messages
<1>2. \A k \in {"BOOT", "BAD", "NO"} : Plain(k) \in Messages /\ Plain(k).kind = k
  BY DEF Plain, Messages, SessionIds
<1>3. ASSUME NEW s \in SessionIds, NEW r \in BaseReport \cup LiftReport
      PROVE  State(s, r) \in Messages /\ State(s, r).state = r
  BY DEF State, Messages
<1>4. QED
  BY <1>1, <1>2, <1>3

LEMMA RespondType ==
  ASSUME IInv, NEW d \in Links, NEW l \in LinesTo(d), NEW ok \in BOOLEAN,
         Respond(d, ok, l)
  PROVE  /\ Incoming(inbox')
         /\ stage = "closed" => \A e \in Links : inbox'[e] = <<>>
         /\ Tells(inbox["base"]) => Tells(inbox'["base"])
<1>1. CASE UNCHANGED inbox
  BY <1>1 DEF IInv, LinkType
<1>2. ASSUME NEW k \in {"OK", "NO", "HELLO"}, Emit(d, Reply(k, l))
      PROVE  /\ Incoming(inbox')
             /\ stage = "closed" => \A e \in Links : inbox'[e] = <<>>
             /\ Tells(inbox["base"]) => Tells(inbox'["base"])
  BY <1>2, MessageType, EmitType
<1>3. UNCHANGED inbox \/ \E k \in {"OK", "NO", "HELLO"} : Emit(d, Reply(k, l))
  BY DEF Respond
<1>4. QED
  BY <1>1, <1>2, <1>3

\* The plug-in only finds other lines in its links.
LEMMA DeviceKeeps ==
  ASSUME IInv, UNCHANGED <<control, seen>>, Incoming(inbox'), Outgoing(outbox'),
         stage = "closed" => \A d \in Links : inbox'[d] = <<>>,
         port' \in [Links -> {"closed", "open", "broken"}],
         \A d \in Links : port'[d] = "closed" <=> stage = "closed",
         stop_lost' \in [Links -> BOOLEAN], DeviceType', BaseHeld',
         "SOFTWARE_ESTOP" \in base'.fault =>
           /\ "SOFTWARE_ESTOP" \in base.fault
           /\ ClearFree(outbox["base"]) => ClearFree(outbox'["base"])
           /\ Tells(inbox["base"]) => Tells(inbox'["base"])
  PROVE  IInv'
<1>1. ControlType'
  BY DEF IInv, ControlType, control
<1>2. LinkType'
  BY DEF IInv, LinkType, control
<1>3. ClosedIsUnseen'
  BY DEF IInv, ClosedIsUnseen, control
<1>4. EstopKnown'
  BY DEF IInv, EstopKnown, EstopSeen, control
<1>5. QED
  BY <1>1, <1>2, <1>3, <1>4 DEF IInv

\* Consume takes the first line away.
LEMMA ConsumeType ==
  ASSUME IInv, NEW d \in Links, outbox[d] # <<>>, Consume(d)
  PROVE  /\ Outgoing(outbox') /\ Head(outbox[d]) \in LinesTo(d)
         /\ outbox'[d] = Tail(outbox[d])
         /\ \A e \in Links \ {d} : outbox'[e] = outbox[e]
<1>1. outbox = [e \in Links |-> outbox[e]] /\ \A e \in Links : outbox[e] \in Seq(LinesTo(e))
  BY DEF IInv, LinkType, Outgoing
<1>2. Tail(outbox[d]) \in Seq(LinesTo(d)) /\ Head(outbox[d]) \in LinesTo(d)
  BY <1>1, HeadTailProperties
<1>3. outbox' = [outbox EXCEPT ![d] = Tail(outbox[d])]
  BY DEF Consume
<1>4. QED
  BY <1>1, <1>2, <1>3 DEF Outgoing

LEMMA BaseAfterType ==
  ASSUME base \in BaseStates, NEW c \in BaseCommands
  PROVE  /\ BaseAfter(base, c) \in BaseStates
         /\ BaseAfter(base, c).errors = base.errors
         /\ BaseAfter(base, c).restarts = base.restarts
         /\ c # "CLEAR" => BaseAfter(base, c).fault = base.fault
         /\ c # "CMDV" => (BaseAfter(base, c).moving => base.moving)
         /\ c # "ENABLE" => (BaseAfter(base, c).enabled => base.enabled)
         /\ c = "DISABLE" => ~BaseAfter(base, c).moving /\ ~BaseAfter(base, c).enabled
<1>1. /\ base.enabled \in BOOLEAN /\ base.moving \in BOOLEAN /\ base.fresh \in BOOLEAN
      /\ base = [enabled |-> base.enabled, fault |-> base.fault, moving |-> base.moving,
                 fresh |-> base.fresh, errors |-> base.errors, restarts |-> base.restarts]
  BY DEF BaseStates
<1>2. CASE c = "CMD0"
  BY <1>1, <1>2 DEF BaseAfter, BaseStates
<1>3. CASE c = "CMDV"
  BY <1>1, <1>3 DEF BaseAfter, BaseStates
<1>4. CASE c = "DISABLE"
  BY <1>1, <1>4 DEF BaseAfter, BaseStates
<1>5. CASE c = "ENABLE"
  BY <1>1, <1>5 DEF BaseAfter, BaseStates
<1>6. CASE c = "CLEAR"
  BY <1>1, <1>6 DEF BaseAfter, BaseStates
<1>7. QED
  BY <1>2, <1>3, <1>4, <1>5, <1>6 DEF BaseCommands

\* What a base does without a line of the plug-in.
LEMMA BaseChangeType ==
  ASSUME base \in BaseStates
  PROVE  /\ Aged(base) \in BaseStates
         /\ Aged(base).errors = base.errors /\ Aged(base).restarts = base.restarts
         /\ Aged(base).moving = base.moving /\ Aged(base).enabled = base.enabled
         /\ Aged(base).fault = base.fault
         /\ \A e \in BOOLEAN :
              LET b == Lapsed(base, e) IN
              /\ b \in BaseStates
              /\ b.errors = base.errors /\ b.restarts = base.restarts
              /\ ~b.moving /\ b.enabled = e
              /\ b.fault = base.fault \cup {"COMMAND_TIMEOUT"}
         /\ Wrapped(base) \in BaseStates
         /\ Wrapped(base).errors = base.errors /\ Wrapped(base).restarts = base.restarts
         /\ Wrapped(base).moving = base.moving /\ Wrapped(base).enabled = base.enabled
         /\ Wrapped(base).fault = base.fault
         /\ LET b == BaseAfter(base, "ESTOP") IN
            /\ b \in BaseStates
            /\ b.errors = base.errors /\ b.restarts = base.restarts
            /\ ~b.moving /\ ~b.enabled
            /\ b.fault = base.fault \cup {"SOFTWARE_ESTOP"}
<1>1. base = [enabled |-> base.enabled, fault |-> base.fault, moving |-> base.moving,
              fresh |-> base.fresh, errors |-> base.errors, restarts |-> base.restarts]
  BY DEF BaseStates
<1>2. QED
  BY <1>1 DEF Aged, Lapsed, Wrapped, BaseAfter, BaseStates, BaseFaults

LEMMA BaseReadsKeeps ==
  ASSUME IInv, BaseReads
  PROVE  IInv'
<1> DEFINE q == outbox["base"]
           l == Head(q)
           ok == BaseAccepts(base, l.command)
<1>1. /\ q # <<>> /\ Consume("base") /\ Respond("base", ok, l)
      /\ base' = IF ok THEN BaseAfter(base, l.command) ELSE base
      /\ stop_lost' = [stop_lost EXCEPT
           !["base"] = @ /\ ~(l.command = "DISABLE" /\ Len(q) = 1)]
      /\ UNCHANGED <<control, port, seen, lift, failures>>
  BY DEF BaseReads, Reads
<1>2. /\ Outgoing(outbox') /\ l \in LinesTo("base") /\ outbox'["base"] = Tail(q)
      /\ q \in Seq(LinesTo("base"))
  BY <1>1, ConsumeType, BaseIsLink DEF IInv, LinkType, Outgoing
<1>3. l.command \in BaseCommands
  BY <1>2 DEF LinesTo
<1>4. ok \in BOOLEAN
  BY <1>3 DEF BaseAccepts, BaseCommands, FreshZero
<1> HIDE DEF ok
<1>5. /\ Incoming(inbox')
      /\ stage = "closed" => \A d \in Links : inbox'[d] = <<>>
      /\ Tells(inbox["base"]) => Tells(inbox'["base"])
  BY <1>1, <1>2, <1>4, RespondType, BaseIsLink
<1>6. /\ base \in BaseStates /\ base' \in BaseStates
      /\ base'.errors = base.errors /\ base'.restarts = base.restarts
      /\ l.command # "CLEAR" => base'.fault = base.fault
      /\ l.command # "CMDV" => (base'.moving => base.moving)
      /\ l.command # "ENABLE" => (base'.enabled => base.enabled)
  BY <1>1, <1>3, BaseAfterType DEF IInv, DeviceType
<1>7. l.command = "DISABLE" => ~base'.moving /\ ~base'.enabled
  <2>1. l.command = "DISABLE" => ok
    BY DEF ok, BaseAccepts
  <2>2. QED
    BY <1>1, <1>3, <1>6, <2>1, BaseAfterType
<1>8. DeviceType'
  BY <1>1, <1>6 DEF IInv, DeviceType
<1>9. /\ Guarded(q, stage) => Guarded(outbox'["base"], stage)
      /\ ClearFree(q) => ClearFree(outbox'["base"]) /\ l.command # "CLEAR"
      /\ Stopping(q) /\ l.command # "DISABLE" => Stopping(outbox'["base"])
      /\ Guarded(q, stage)
           /\ (l.command = "CMDV" \/ (l.command = "ENABLE" /\ stage \notin Activation))
         => Stopping(outbox'["base"])
      /\ Len(outbox'["base"]) = Len(q) - 1
  BY <1>1, <1>2, TailGuards
<1>10. stop_lost' \in [Links -> BOOLEAN]
       /\ (stop_lost'["base"] <=>
            stop_lost["base"] /\ ~(l.command = "DISABLE" /\ Len(q) = 1))
  BY <1>1, BaseIsLink DEF IInv, LinkType
<1>11. BaseHeld'
  <2> SUFFICES ASSUME ~active, ~stop_lost'["base"]
               PROVE  /\ Guarded(outbox'["base"], stage)
                      /\ Stopping(outbox'["base"])
                           \/ (~base'.moving /\ (base'.enabled => stage \in Activation))
    BY <1>1 DEF BaseHeld, AtRest, control
  <2>1. CASE stop_lost["base"]
    <3>1. l.command = "DISABLE" /\ Len(outbox'["base"]) = 0
      BY <1>2, <1>9, <1>10, <2>1
    <3>2. outbox'["base"] \in Seq(LinesTo("base"))
      BY <1>2, BaseIsLink DEF Outgoing
    <3>3. DOMAIN outbox'["base"] = {}
      BY <3>1, <3>2, LenProperties
    <3>4. Guarded(outbox'["base"], stage)
      BY <3>3 DEF Guarded
    <3>5. QED
      BY <1>7, <3>1, <3>4
  <2>2. CASE ~stop_lost["base"]
    <3>1. Guarded(q, stage) /\ (Stopping(q) \/ AtRest)
      BY <2>2 DEF IInv, BaseHeld
    <3>2. QED
      BY <1>6, <1>7, <1>9, <3>1 DEF AtRest
  <2>3. QED
    BY <2>1, <2>2
<1>12. "SOFTWARE_ESTOP" \in base'.fault => "SOFTWARE_ESTOP" \in base.fault
  <2>1. CASE l.command # "CLEAR"
    BY <1>6, <2>1
  <2>2. CASE l.command = "CLEAR"
    BY <1>1, <1>6, <2>2 DEF BaseAfter, BaseStates
  <2>3. QED
    BY <2>1, <2>2
<1>13. UNCHANGED <<control, seen>>
  BY <1>1
<1>14. /\ port' \in [Links -> {"closed", "open", "broken"}]
       /\ \A d \in Links : port'[d] = "closed" <=> stage = "closed"
  BY <1>1 DEF IInv, LinkType
<1>15. QED
  BY <1>2, <1>5, <1>8, <1>9, <1>10, <1>11, <1>12, <1>13, <1>14, DeviceKeeps

\* A step in which the base changes by itself, and no line is read.
LEMMA BaseAloneKeeps ==
  ASSUME IInv, UNCHANGED <<host, lift, failures>>, base' \in BaseStates,
         base'.errors = base.errors, base'.restarts = base.restarts,
         base'.moving => base.moving, base'.enabled => base.enabled,
         "SOFTWARE_ESTOP" \in base'.fault =>
           "SOFTWARE_ESTOP" \in base.fault \/ (stage = "closed" /\ outbox["base"] = <<>>)
  PROVE  IInv'
<1>1. UNCHANGED <<stage, active, fatal, attempts, answer, hello_acked, lift_session, port,
                  outbox,
                  inbox, seen, stop_lost, lift, failures>>
  BY DEF host, control
<1>2. ControlType' /\ ClosedIsUnseen'
  BY <1>1 DEF IInv, ControlType, ClosedIsUnseen
<1>3. LinkType'
  BY <1>1 DEF IInv, LinkType
<1>4. DeviceType'
  BY <1>1 DEF IInv, DeviceType
<1>5. BaseHeld'
  BY <1>1 DEF IInv, BaseHeld, AtRest
<1>6. EstopKnown'
  <2>1. CASE "SOFTWARE_ESTOP" \in base.fault
    BY <1>1, <2>1 DEF IInv, EstopKnown, EstopSeen
  <2>2. CASE stage = "closed" /\ outbox["base"] = <<>>
    <3>1. ~active /\ inbox["base"] = <<>> /\ ~seen["base"].seen
      BY <2>2, BaseIsLink DEF IInv, ControlType, LinkType, ClosedIsUnseen, Unseen
    <3>2. ClearFree(outbox["base"]) /\ Tells(inbox["base"])
      BY <2>2, <3>1 DEF ClearFree, Tells
    <3>3. QED
      BY <1>1, <2>2, <3>1, <3>2 DEF EstopKnown
  <2>3. QED
    BY <2>1, <2>2 DEF EstopKnown
<1>7. QED
  BY <1>2, <1>3, <1>4, <1>5, <1>6 DEF IInv

LEMMA BaseAloneStepKeeps ==
  ASSUME IInv, BaseAges \/ BaseLapses \/ BaseWraps \/ EstopByHand
  PROVE  IInv'
<1>1. base \in BaseStates
  BY DEF IInv, DeviceType
<1>2. CASE BaseAges \/ BaseLapses \/ BaseWraps
  <2>1. /\ base' \in BaseStates /\ base'.errors = base.errors
        /\ base'.restarts = base.restarts
        /\ base'.moving => base.moving
        /\ base'.enabled => base.enabled
        /\ "SOFTWARE_ESTOP" \in base'.fault => "SOFTWARE_ESTOP" \in base.fault
    BY <1>1, <1>2, BaseChangeType DEF BaseAges, BaseLapses, BaseWraps
  <2>2. UNCHANGED <<host, lift, failures>>
    BY <1>2 DEF BaseAges, BaseLapses, BaseWraps
  <2>3. QED
    BY <2>1, <2>2, BaseAloneKeeps
<1>3. CASE EstopByHand
  <2>1. /\ stage = "closed" /\ outbox["base"] = <<>>
        /\ base' = BaseAfter(base, "ESTOP")
        /\ UNCHANGED <<host, lift, failures>>
    BY <1>3 DEF EstopByHand
  <2>2. /\ base' \in BaseStates /\ base'.errors = base.errors
        /\ base'.restarts = base.restarts /\ ~base'.moving /\ ~base'.enabled
    BY <1>1, <2>1, BaseChangeType
  <2>3. QED
    BY <2>1, <2>2, BaseAloneKeeps
<1>4. QED
  BY <1>2, <1>3

\* A STATE of the base tells of its E-stop.
LEMMA BaseReportsKeeps ==
  ASSUME IInv, BaseReports
  PROVE  IInv'
<1> DEFINE r == [enabled |-> base.enabled, fault |-> base.fault,
                 errors |-> base.errors, restarts |-> base.restarts]
<1>1. /\ Emit("base", State(NoSession, r))
      /\ UNCHANGED <<control, port, outbox, seen, stop_lost, base, lift, failures>>
  BY DEF BaseReports
<1>2. r \in BaseReport /\ r.fault = base.fault
  BY DEF IInv, DeviceType, BaseStates, BaseReport
<1> HIDE DEF r
<1>3. State(NoSession, r) \in Messages /\ State(NoSession, r).state = r
  BY <1>2, MessageType DEF SessionIds
<1>4. /\ Incoming(inbox')
      /\ stage = "closed" => \A d \in Links : inbox'[d] = <<>>
      /\ Tells(inbox["base"]) /\ "SOFTWARE_ESTOP" \in base.fault
           => Tells(inbox'["base"])
  BY <1>1, <1>2, <1>3, EmitType, BaseIsLink
<1>5. DeviceType' /\ BaseHeld'
  BY <1>1 DEF IInv, DeviceType, BaseHeld, AtRest, control
<1>6. /\ Outgoing(outbox') /\ stop_lost' \in [Links -> BOOLEAN]
      /\ port' \in [Links -> {"closed", "open", "broken"}]
      /\ \A d \in Links : port'[d] = "closed" <=> stage = "closed"
      /\ UNCHANGED <<control, seen>>
  BY <1>1 DEF IInv, LinkType
<1>7. QED
  BY <1>1, <1>4, <1>5, <1>6, DeviceKeeps

-----------------------------------------------------------------------------
(* The lift, and the failures.                                             *)

\* A step that leaves the base and its line alone.
LEMMA LiftSideKeeps ==
  ASSUME IInv, UNCHANGED <<control, port, seen, base>>, lift' \in LiftStates,
         Driven(lift'),
         failures' \in 0..MaxFailures, failures <= failures',
         Incoming(inbox'), Outgoing(outbox'), stop_lost' \in [Links -> BOOLEAN],
         stage = "closed" => \A d \in Links : inbox'[d] = <<>>,
         outbox'["base"] = outbox["base"], stop_lost'["base"] = stop_lost["base"],
         Tells(inbox["base"]) => Tells(inbox'["base"])
  PROVE  IInv'
<1>1. DeviceType'
  BY FailureAssumption DEF IInv, DeviceType, BaseStates
<1>2. BaseHeld'
  BY DEF IInv, BaseHeld, AtRest, control
<1>3. QED
  BY <1>1, <1>2, DeviceKeeps DEF IInv, LinkType

LEMMA LiftAfterType ==
  ASSUME lift \in LiftStates, NEW l \in LinesTo("lift")
  PROVE  /\ LiftAfter(lift, l) \in LiftStates
         /\ LiftRefused(lift, l) \in LiftStates
         /\ Driven(lift) => Driven(LiftRefused(lift, l))
         /\ Driven(lift) /\ "lift" \in Links /\ LiftAccepts(lift, l)
              => Driven(LiftAfter(lift, l))
<1>1. l.command \in LiftCommands /\ l.session \in SessionIds
  BY DEF LinesTo, SessionIds
<1>2. Halted(lift) \in LiftStates
  BY DEF Halted, LiftStates
<1>3. \A r \in LiftStates, s, t \in SessionIds :
        /\ [r EXCEPT !.session = s, !.retired = t] \in LiftStates
        /\ [r EXCEPT !.session = s, !.retired = t].mode = r.mode
  BY DEF LiftStates
<1>4. /\ [lift EXCEPT !.mode = "idle", !.fault = "NONE"] \in LiftStates
      /\ [lift EXCEPT !.mode = "homing", !.homed = FALSE] \in LiftStates
      /\ [lift EXCEPT !.mode = "armed"] \in LiftStates
      /\ lift.session \in SessionIds /\ lift.retired \in SessionIds
      /\ Halted(lift).retired = lift.retired /\ Halted(lift).mode = "idle"
  BY DEF LiftStates, Halted
<1>5. /\ LiftRefused(lift, l) \in LiftStates
      /\ Driven(lift) => Driven(LiftRefused(lift, l))
  BY <1>2, <1>4 DEF LiftRefused, Driven
<1>6. CASE l.command = "HELLO"
  <2> DEFINE t == IF lift.session # NoSession THEN lift.session ELSE Halted(lift).retired
  <2>1. LiftAfter(lift, l) =
          IF Current(lift, l.session) THEN Halted(lift)
          ELSE [Halted(lift) EXCEPT !.session = l.session, !.retired = t]
    BY <1>6 DEF LiftAfter
  <2>2. t \in SessionIds
    BY <1>4
  <2> HIDE DEF t
  <2>3. Halted(lift) \in LiftStates /\ Halted(lift).mode = "idle"
    BY <1>2, <1>4
  <2>4. LET r == [Halted(lift) EXCEPT !.session = l.session, !.retired = t] IN
        r \in LiftStates /\ r.mode = "idle"
    BY <1>1, <1>3, <2>2, <2>3
  <2>5. LiftAfter(lift, l) \in LiftStates /\ LiftAfter(lift, l).mode = "idle"
    BY <2>1, <2>3, <2>4
  <2>6. QED
    BY <1>5, <2>5 DEF Driven
<1>7. CASE l.command # "HELLO"
  <2>1. LiftAfter(lift, l) \in
          {Halted(lift), lift, [lift EXCEPT !.mode = "idle", !.fault = "NONE"],
           [lift EXCEPT !.mode = "homing", !.homed = FALSE],
           [lift EXCEPT !.mode = "armed"]}
    BY <1>1, <1>7 DEF LiftAfter, LiftCommands
  <2>2. \A r \in {Halted(lift), lift, [lift EXCEPT !.mode = "idle", !.fault = "NONE"],
                  [lift EXCEPT !.mode = "homing", !.homed = FALSE],
                  [lift EXCEPT !.mode = "armed"]} :
          r \in LiftStates /\ r.session = lift.session
    BY <1>2, <1>4 DEF LiftStates, Halted
  <2>3. LiftAccepts(lift, l) => lift.session # NoSession
    BY <1>7 DEF LiftAccepts, Current
  <2>4. QED
    BY <1>5, <2>1, <2>2, <2>3 DEF Driven
<1>8. QED
  BY <1>6, <1>7

\* What the lift does by itself.
LEMMA LiftAloneType ==
  ASSUME lift \in LiftStates
  PROVE  /\ LapsedLift(lift) \in LiftStates /\ LapsedLift(lift).mode = "idle"
         /\ Referenced(lift) \in LiftStates /\ Referenced(lift).mode = "idle"
         /\ Failed(lift) \in LiftStates /\ Failed(lift).mode = "idle"
         /\ LapsedLift(lift).session = NoSession
         /\ Referenced(lift).session = lift.session
         /\ Failed(lift).session = lift.session
         /\ Failed(lift).fault = "GEOMETRY"
         /\ ~Failed(lift).homed
         /\ LapsedLift(lift).homed = lift.homed
         /\ LapsedLift(lift).fault = "COMM_TIMEOUT"
         /\ Referenced(lift).fault = lift.fault
  BY DEF LapsedLift, Referenced, Failed, LiftStates, SessionIds

LEMMA BootType ==
  \A r \in LiftBoots :
    /\ r \in LiftStates /\ r.mode = "idle" /\ r.session = NoSession
    /\ r.retired = NoSession /\ ~r.homed /\ r.fault \in {"NONE", "GEOMETRY"}
<1>1. ASSUME NEW f \in {"NONE", "GEOMETRY"}, NEW r,
             r = [session |-> NoSession, retired |-> NoSession, fault |-> f,
                  homed |-> FALSE, mode |-> "idle"]
      PROVE  /\ r \in LiftStates /\ r.mode = "idle" /\ r.session = NoSession
             /\ r.retired = NoSession /\ ~r.homed /\ r.fault \in {"NONE", "GEOMETRY"}
  BY <1>1 DEF LiftStates, SessionIds
<1>2. QED
  BY <1>1 DEF LiftBoots

LEMMA LiftReadsKeeps ==
  ASSUME IInv, LiftReads
  PROVE  IInv'
<1> DEFINE l == Head(outbox["lift"])
<1>1. PICK ok \in BOOLEAN :
        /\ ok => LiftAccepts(lift, l)
        /\ lift' = IF ok THEN LiftAfter(lift, l) ELSE LiftRefused(lift, l)
        /\ Respond("lift", ok, l)
        /\ stop_lost' = [stop_lost EXCEPT
             !["lift"] = @ /\ ~(/\ ok /\ l.command \in {"STOP", "HELLO"}
                                /\ Len(outbox["lift"]) = 1)]
  BY DEF LiftReads
<1>2. /\ "lift" \in Links /\ outbox["lift"] # <<>> /\ Consume("lift")
      /\ UNCHANGED <<control, port, seen, base, failures>>
  BY DEF LiftReads, Reads
<1>3. /\ Outgoing(outbox') /\ l \in LinesTo("lift") /\ outbox'["base"] = outbox["base"]
  BY <1>2, ConsumeType, BaseIsLink
<1>4. lift' \in LiftStates /\ Driven(lift')
  <2>1. lift \in LiftStates /\ Driven(lift)
    BY DEF IInv, DeviceType
  <2>2. ok => LiftAccepts(lift, l)
    BY <1>1
  <2>3. QED
    BY <1>1, <1>2, <1>3, <2>1, <2>2, LiftAfterType
<1>5. /\ Incoming(inbox')
      /\ stage = "closed" => \A d \in Links : inbox'[d] = <<>>
      /\ Tells(inbox["base"]) => Tells(inbox'["base"])
  BY <1>1, <1>2, <1>3, RespondType
<1>6. stop_lost' \in [Links -> BOOLEAN] /\ stop_lost'["base"] = stop_lost["base"]
  BY <1>1, <1>2, BaseIsLink DEF IInv, LinkType
<1>7. failures' \in 0..MaxFailures /\ failures <= failures'
  BY <1>2, FailureAssumption DEF IInv, DeviceType
<1>8. QED
  BY <1>2, <1>3, <1>4, <1>5, <1>6, <1>7, LiftSideKeeps

\* The lift changes by itself: its watchdog, its homing and its switches.
LEMMA LiftAloneKeeps ==
  ASSUME IInv, LiftLapses \/ LiftHomed \/ LiftFails
  PROVE  IInv'
<1>1. /\ UNCHANGED <<control, port, outbox, seen, stop_lost, base, failures>>
      /\ Outgoing(outbox') /\ stop_lost' \in [Links -> BOOLEAN]
  BY DEF LiftLapses, LiftHomed, LiftFails, host, control, IInv, LinkType
<1>2. lift' \in LiftStates /\ Driven(lift')
  <2>1. lift \in LiftStates
    BY DEF IInv, DeviceType
  <2>2. lift' \in {LapsedLift(lift), Referenced(lift), Failed(lift)}
    BY DEF LiftLapses, LiftHomed, LiftFails
  <2>3. QED
    BY <2>1, <2>2, LiftAloneType DEF Driven
<1>3. ("lift" \in Links /\ Emit("lift", Plain("BAD"))) \/ UNCHANGED inbox
  BY DEF LiftLapses, LiftHomed, LiftFails, host, IInv, DeviceType, Driven
<1>4. Plain("BAD") \in Messages /\ Plain("BAD").kind = "BAD"
  BY MessageType
<1>5. /\ Incoming(inbox')
      /\ stage = "closed" => \A d \in Links : inbox'[d] = <<>>
      /\ Tells(inbox["base"]) => Tells(inbox'["base"])
  <2>1. CASE "lift" \in Links /\ Emit("lift", Plain("BAD"))
    BY <1>4, <2>1, EmitType
  <2>2. CASE UNCHANGED inbox
    BY <2>2 DEF IInv, LinkType
  <2>3. QED
    BY <1>3, <2>1, <2>2
<1>6. failures' \in 0..MaxFailures /\ failures <= failures'
  BY <1>1, FailureAssumption DEF IInv, DeviceType
<1>7. QED
  BY <1>1, <1>2, <1>5, <1>6, LiftSideKeeps

LEMMA LiftReportsKeeps ==
  ASSUME IInv, LiftReports
  PROVE  IInv'
<1> DEFINE r == [fault |-> lift.fault, homed |-> lift.homed,
                 armed |-> lift.mode = "armed"]
<1>1. /\ Emit("lift", State(lift.session, r)) /\ "lift" \in Links
      /\ UNCHANGED <<control, port, outbox, seen, stop_lost, base, lift, failures>>
  BY DEF LiftReports, Reports
<1>2. r \in LiftReport /\ lift.session \in SessionIds
  BY DEF IInv, DeviceType, LiftStates, LiftReport
<1> HIDE DEF r
<1>3. State(lift.session, r) \in Messages
  BY <1>2, MessageType
<1>4. /\ Incoming(inbox')
      /\ stage = "closed" => \A d \in Links : inbox'[d] = <<>>
      /\ Tells(inbox["base"]) => Tells(inbox'["base"])
  BY <1>1, <1>3, EmitType
<1>5. /\ Outgoing(outbox') /\ stop_lost' \in [Links -> BOOLEAN]
      /\ lift' \in LiftStates /\ Driven(lift')
      /\ failures' \in 0..MaxFailures /\ failures <= failures'
  BY <1>1, FailureAssumption DEF IInv, LinkType, DeviceType
<1>6. QED
  BY <1>1, <1>4, <1>5, LiftSideKeeps

\* One failure more.
LEMMA FailureType ==
  ASSUME IInv, NEW kind, Failure(kind)
  PROVE  /\ failures' \in 0..MaxFailures /\ failures' = failures + 1
         /\ failures \in Nat /\ failures' \in Nat
  BY FailureAssumption DEF Failure, IInv, DeviceType

\* The restarted base is at rest, and what it had not read is gone.
LEMMA ResetsKeeps ==
  ASSUME IInv, NEW d \in Links, Resets(d)
  PROVE  IInv'
<1>1. /\ outbox' = [outbox EXCEPT ![d] = <<>>]
      /\ stop_lost' = [stop_lost EXCEPT ![d] = FALSE]
      /\ Emit(d, Plain("BOOT")) /\ Failure("reset")
      /\ base' = IF d = "base" THEN [BaseBoot EXCEPT !.restarts = base.restarts + 1]
                 ELSE base
      /\ IF d = "lift" THEN lift' \in LiftBoots ELSE lift' = lift
      /\ UNCHANGED <<control, port, seen>>
  BY DEF Resets
<1>2. Plain("BOOT") \in Messages /\ Plain("BOOT").kind = "BOOT"
  BY MessageType
<1>3. /\ Incoming(inbox')
      /\ stage = "closed" => \A e \in Links : inbox'[e] = <<>>
      /\ Tells(inbox["base"]) => Tells(inbox'["base"])
  BY <1>1, <1>2, EmitType
<1>4. /\ failures' \in 0..MaxFailures /\ failures' = failures + 1
      /\ failures \in Nat /\ failures' \in Nat
  BY <1>1, FailureType
<1>5. /\ Outgoing(outbox') /\ outbox'[d] = <<>>
      /\ \A e \in Links \ {d} : outbox'[e] = outbox[e]
  <2>1. /\ outbox = [e \in Links |-> outbox[e]]
        /\ \A e \in Links : outbox[e] \in Seq(LinesTo(e))
    BY DEF IInv, LinkType, Outgoing
  <2>2. QED
    BY <1>1, <2>1, EmptySeq DEF Outgoing
<1>6. /\ stop_lost' \in [Links -> BOOLEAN] /\ ~stop_lost'[d]
      /\ \A e \in Links \ {d} : stop_lost'[e] = stop_lost[e]
  BY <1>1 DEF IInv, LinkType
<1>7. CASE d = "base"
  <2>1. base \in BaseStates /\ base.errors + base.restarts <= failures
    BY DEF IInv, DeviceType
  <2>2. /\ base' = [enabled |-> FALSE, fault |-> {}, moving |-> FALSE, fresh |-> FALSE,
                    errors |-> 0, restarts |-> base.restarts + 1]
        /\ lift' = lift
    BY <1>1, <1>7 DEF BaseBoot
  <2>3. base.restarts \in Nat /\ base.errors \in Nat
    BY <2>1 DEF BaseStates
  <2>4. base.restarts + 1 \in Nat /\ base.restarts + 1 <= failures'
    BY <1>4, <2>1, <2>3
  <2>5. DeviceType'
    BY <1>4, <2>2, <2>4 DEF IInv, DeviceType, BaseStates
  <2>6. BaseHeld'
    BY <1>5, <1>7, <2>2 DEF BaseHeld, AtRest, Guarded
  <2>7. "SOFTWARE_ESTOP" \notin base'.fault
    BY <2>2
  <2>8. /\ port' \in [Links -> {"closed", "open", "broken"}]
        /\ \A e \in Links : port'[e] = "closed" <=> stage = "closed"
    BY <1>1 DEF IInv, LinkType
  <2>9. QED
    BY <1>1, <1>3, <1>5, <1>6, <2>5, <2>6, <2>7, <2>8, DeviceKeeps
<1>8. CASE d = "lift"
  <2>1. lift' \in LiftStates /\ Driven(lift')
    BY <1>1, <1>8, BootType DEF Driven
  <2>2. base' = base
    BY <1>1, <1>8
  <2>3. outbox'["base"] = outbox["base"] /\ stop_lost'["base"] = stop_lost["base"]
    BY <1>5, <1>6, <1>8, BaseIsLink
  <2>4. QED
    BY <1>1, <1>3, <1>4, <1>5, <1>6, <2>1, <2>2, <2>3, LiftSideKeeps
<1>9. QED
  BY <1>7, <1>8, BaseIsLink

\* A damaged line is one that is never read; a damaged DISABLE is excused.
LEMMA DamageOutKeeps ==
  ASSUME IInv, NEW d \in Links, DamageOut(d)
  PROVE  IInv'
<1> DEFINE q == outbox[d]
<1>1. /\ q # <<>> /\ Consume(d) /\ Failure("damage_out")
      /\ base' = IF d = "base" THEN [base EXCEPT !.errors = @ + 1] ELSE base
      /\ IF d = "lift" THEN Emit(d, Plain("NO")) ELSE UNCHANGED inbox
      /\ stop_lost' = [stop_lost EXCEPT
           ![d] = @ \/ Head(q).command \in {"DISABLE", "STOP"}]
      /\ UNCHANGED <<control, port, seen, lift>>
  BY DEF DamageOut
<1>2. /\ Outgoing(outbox') /\ outbox'[d] = Tail(q) /\ q \in Seq(LinesTo(d))
      /\ \A e \in Links \ {d} : outbox'[e] = outbox[e]
  BY <1>1, ConsumeType DEF IInv, LinkType, Outgoing
<1>3. /\ failures' \in 0..MaxFailures /\ failures' = failures + 1
      /\ failures \in Nat /\ failures' \in Nat
  BY <1>1, FailureType
<1>4. stop_lost' \in [Links -> BOOLEAN]
      /\ (stop_lost'[d] <=> stop_lost[d] \/ Head(q).command \in {"DISABLE", "STOP"})
      /\ \A e \in Links \ {d} : stop_lost'[e] = stop_lost[e]
  BY <1>1 DEF IInv, LinkType
<1>5. /\ port' \in [Links -> {"closed", "open", "broken"}]
      /\ \A e \in Links : port'[e] = "closed" <=> stage = "closed"
  BY <1>1 DEF IInv, LinkType
<1>6. CASE d = "base"
  <2>1. base \in BaseStates /\ base.errors + base.restarts <= failures
    BY DEF IInv, DeviceType
  <2>2. base' = [base EXCEPT !.errors = base.errors + 1] /\ UNCHANGED inbox
    BY <1>1, <1>6
  <2>3. base.errors \in Nat /\ base.restarts \in Nat
    BY <2>1 DEF BaseStates
  <2>4. /\ base' \in BaseStates /\ base'.errors = base.errors + 1
        /\ base'.restarts = base.restarts /\ base'.fault = base.fault
        /\ base'.moving = base.moving /\ base'.enabled = base.enabled
    BY <2>1, <2>2, <2>3 DEF BaseStates
  <2>5. base'.errors + base'.restarts <= failures'
    BY <1>3, <2>1, <2>3, <2>4
  <2>6. DeviceType'
    BY <1>1, <1>3, <2>4, <2>5 DEF IInv, DeviceType
  <2>7. /\ Guarded(q, stage) => Guarded(outbox'["base"], stage)
        /\ ClearFree(q) => ClearFree(outbox'["base"])
        /\ Stopping(q) /\ Head(q).command # "DISABLE" => Stopping(outbox'["base"])
    BY <1>1, <1>2, <1>6, TailGuards
  <2>8. BaseHeld'
    BY <1>1, <1>4, <1>6, <2>4, <2>7 DEF IInv, BaseHeld, AtRest, control
  <2>9. /\ Incoming(inbox') /\ (Tells(inbox["base"]) => Tells(inbox'["base"]))
        /\ stage = "closed" => \A e \in Links : inbox'[e] = <<>>
    BY <2>2 DEF IInv, LinkType
  <2>10. QED
    BY <1>1, <1>2, <1>4, <1>5, <1>6, <2>4, <2>6, <2>7, <2>8, <2>9, DeviceKeeps
<1>7. CASE d = "lift"
  <2>1. Plain("NO") \in Messages /\ Plain("NO").kind = "NO"
    BY MessageType
  <2>2. /\ Incoming(inbox')
        /\ stage = "closed" => \A e \in Links : inbox'[e] = <<>>
        /\ Tells(inbox["base"]) => Tells(inbox'["base"])
    BY <1>1, <1>7, <2>1, EmitType
  <2>3. outbox'["base"] = outbox["base"] /\ stop_lost'["base"] = stop_lost["base"]
    BY <1>2, <1>4, <1>7, BaseIsLink
  <2>4. lift' \in LiftStates /\ Driven(lift') /\ base' = base
    BY <1>1, <1>7 DEF IInv, DeviceType
  <2>5. QED
    BY <1>1, <1>2, <1>3, <1>4, <2>2, <2>3, <2>4, LiftSideKeeps
<1>8. QED
  BY <1>6, <1>7, BaseIsLink

LEMMA DamageInKeeps ==
  ASSUME IInv, NEW d \in Links, DamageIn(d)
  PROVE  IInv'
<1> DEFINE q == inbox[d]
           r == <<Plain("BAD")>> \o Tail(q)
<1>1. /\ q # <<>> /\ inbox' = [inbox EXCEPT ![d] = r] /\ Failure("damage_in")
      /\ UNCHANGED <<control, port, outbox, seen, stop_lost, base, lift>>
  BY DEF DamageIn
<1>2. inbox \in [Links -> Seq(Messages)] /\ q \in Seq(Messages)
  BY DEF IInv, LinkType, Incoming
<1>3. Tail(q) \in Seq(Messages) /\ (Tells(q) => Tells(Tail(q)))
  BY <1>1, <1>2, RestType
<1>4. r \in Seq(Messages) /\ (Tells(q) => Tells(r))
  <2> DEFINE t == Tail(q)
             h == <<Plain("BAD")>>
  <2>1. \A m \in Messages : <<m>> \in Seq(Messages) /\ Len(<<m>>) = 1 /\ <<m>>[1] = m
    OBVIOUS
  <2>2. /\ h \in Seq(Messages) /\ Len(h) = 1 /\ h[1].kind = "BAD"
    BY <2>1, MessageType
  <2> HIDE DEF t, h
  <2>3. /\ t \in Seq(Messages) /\ Len(t) \in Nat /\ DOMAIN t = 1..Len(t)
    BY <1>3, LenProperties DEF t
  <2>4. /\ h \o t \in Seq(Messages) /\ Len(h \o t) = Len(h) + Len(t)
        /\ \A i \in 1..(Len(h) + Len(t)) :
             (h \o t)[i] = IF i <= Len(h) THEN h[i] ELSE t[i - Len(h)]
    BY <2>2, <2>3, ConcatProperties
  <2>5. DOMAIN (h \o t) = 1..(1 + Len(t))
    BY <2>2, <2>4, LenProperties
  <2>6. ASSUME NEW i \in DOMAIN (h \o t)
        PROVE  (h \o t)[i].kind = "BAD" \/ (i - 1 \in DOMAIN t /\ (h \o t)[i] = t[i - 1])
    <3>1. i \in 1..(Len(h) + Len(t)) /\ i \in Int /\ 1 <= i /\ i <= 1 + Len(t)
      BY <2>2, <2>3, <2>5
    <3>2. CASE i = 1
      BY <2>2, <2>4, <3>1, <3>2
    <3>3. CASE i # 1
      <4>1. ~(i <= Len(h)) /\ i - Len(h) = i - 1 /\ i - 1 \in 1..Len(t)
        BY <2>2, <2>3, <3>1, <3>3
      <4>2. QED
        BY <2>3, <2>4, <3>1, <4>1
    <3>4. QED
      BY <3>2, <3>3
  <2>7. Tells(t) => Tells(h \o t)
    BY <2>6 DEF Tells
  <2>8. QED
    BY <1>3, <2>4, <2>7 DEF t, h
<1> HIDE DEF r
<1>5. /\ Incoming(inbox')
      /\ stage = "closed" => \A e \in Links : inbox'[e] = <<>>
      /\ Tells(inbox["base"]) => Tells(inbox'["base"])
  <2>1. stage # "closed"
    BY <1>1 DEF IInv, LinkType
  <2>2. QED
    BY <1>1, <1>2, <1>4, <2>1, BaseIsLink DEF Incoming
<1>6. failures' \in 0..MaxFailures /\ failures <= failures'
  BY <1>1, FailureType
<1>7. /\ Outgoing(outbox') /\ stop_lost' \in [Links -> BOOLEAN]
      /\ lift' \in LiftStates /\ Driven(lift')
  BY <1>1 DEF IInv, LinkType, DeviceType
<1>8. QED
  BY <1>1, <1>5, <1>6, <1>7, LiftSideKeeps

LEMMA BreaksKeeps ==
  ASSUME IInv, NEW d \in Links, Breaks(d)
  PROVE  IInv'
<1>1. /\ port[d] = "open" /\ port' = [port EXCEPT ![d] = "broken"] /\ Failure("break")
      /\ UNCHANGED <<control, outbox, inbox, seen, stop_lost, base, lift>>
  BY DEF Breaks
<1>2. failures' \in 0..MaxFailures /\ failures <= failures' /\ failures' \in Nat
      /\ failures \in Nat
  BY <1>1, FailureType
<1>3. DeviceType'
  <2>1. base.errors + base.restarts <= failures /\ base.errors + base.restarts \in Nat
    BY DEF IInv, DeviceType, BaseStates
  <2>2. base.errors + base.restarts <= failures'
    BY <1>2, <2>1
  <2>3. QED
    BY <1>1, <1>2, <2>2 DEF IInv, DeviceType
<1>4. BaseHeld'
  BY <1>1 DEF IInv, BaseHeld, AtRest, control
<1>5. /\ port' \in [Links -> {"closed", "open", "broken"}]
      /\ \A e \in Links : port'[e] = "closed" <=> stage = "closed"
  BY <1>1 DEF IInv, LinkType
<1>6. /\ Incoming(inbox') /\ Outgoing(outbox') /\ stop_lost' \in [Links -> BOOLEAN]
      /\ stage = "closed" => \A e \in Links : inbox'[e] = <<>>
  BY <1>1 DEF IInv, LinkType
<1>7. QED
  BY <1>1, <1>3, <1>4, <1>5, <1>6, DeviceKeeps

\* A wait that ends too early for the answer.
LEMMA LateKeeps ==
  ASSUME IInv, Late
  PROVE  IInv'
<1>1. /\ failures' \in 0..MaxFailures /\ failures' = failures + 1
      /\ failures \in Nat /\ failures' \in Nat
  BY FailureType DEF Late
<1>2. UNCHANGED <<base, lift>> /\ TimeOut
  BY DEF Late
<1>3. DeviceType'
  <2>1. base.errors + base.restarts <= failures /\ base.errors + base.restarts \in Nat
    BY DEF IInv, DeviceType, BaseStates
  <2>2. base.errors + base.restarts <= failures'
    BY <1>1, <2>1
  <2>3. QED
    BY <1>1, <1>2, <2>2 DEF IInv, DeviceType
<1>4. QED
  BY <1>2, <1>3, TimeOutKeeps

-----------------------------------------------------------------------------
(* The invariant.                                                          *)

LEMMA InitIInv ==
  ASSUME Init
  PROVE  IInv
<1>1. /\ stage = "closed" /\ active = FALSE /\ fatal = FALSE /\ attempts = 0
      /\ answer = "none" /\ hello_acked = FALSE
      /\ port = [d \in Links |-> "closed"]
      /\ outbox = [d \in Links |-> <<>>] /\ inbox = [d \in Links |-> <<>>]
      /\ seen = [d \in Links |-> Unseen] /\ stop_lost = [d \in Links |-> FALSE]
      /\ base = BaseBoot /\ lift \in LiftBoots /\ failures = 0
      /\ lift_session = NoSession
  BY DEF Init, HostInit
<1>2. ControlType
  <2>1. attempts \in 0..StartAttempts + 1
    BY <1>1, HostAssumption
  <2>2. QED
    BY <1>1, <2>1 DEF ControlType, Stages, SessionIds
<1>3. LinkType
  <2>1. Incoming(inbox) /\ Outgoing(outbox)
    BY <1>1, EmptySeq DEF Incoming, Outgoing
  <2>2. QED
    BY <1>1, <2>1 DEF LinkType
<1>4. DeviceType
  <2>1. base \in BaseStates /\ base.errors = 0 /\ base.restarts = 0
    BY <1>1 DEF BaseBoot, BaseStates
  <2>2. lift \in LiftStates /\ Driven(lift)
    BY <1>1, BootType DEF Driven
  <2>3. failures \in 0..MaxFailures
    BY <1>1, FailureAssumption
  <2>4. base.errors + base.restarts <= failures
    BY <1>1, <2>1
  <2>5. QED
    BY <2>1, <2>2, <2>3, <2>4 DEF DeviceType
<1>5. BaseHeld
  <2>1. outbox["base"] = <<>>
    BY <1>1, BaseIsLink
  <2>2. Guarded(outbox["base"], stage)
    BY <2>1 DEF Guarded
  <2>3. QED
    BY <1>1, <2>2 DEF BaseHeld, AtRest, BaseBoot
<1>6. EstopKnown /\ ClosedIsUnseen
  BY <1>1, BaseIsLink DEF EstopKnown, ClosedIsUnseen, BaseBoot
<1>7. QED
  BY <1>2, <1>3, <1>4, <1>5, <1>6 DEF IInv

LEMMA StutterKeeps ==
  ASSUME IInv, UNCHANGED vars
  PROVE  IInv'
<1>1. UNCHANGED <<host, lift, failures>> /\ base' = base
  BY DEF vars
<1>2. base' \in BaseStates
  BY <1>1 DEF IInv, DeviceType
<1>3. QED
  BY <1>1, <1>2, BaseAloneKeeps

LEMMA NextKeeps ==
  ASSUME IInv, Next
  PROVE  IInv'
<1>1. CASE Host
  <2>1. UNCHANGED <<base, lift>> /\ DeviceType'
    BY <1>1 DEF Host, IInv, DeviceType
  <2>2. CASE Pump
    BY <2>1, <2>2, TakeKeeps, PortFailsKeeps DEF Pump
  <2>3. CASE Call
    BY <2>1, <2>3, ActivateKeeps, DeactivateKeeps, CleanupKeeps DEF Call
  <2>4. CASE Check
    <3>1. CASE Expires
      BY <2>1, <3>1, TimeOutKeeps DEF Expires
    <3>2. CASE Proceed \/ CannotProceed \/ ReadDone
      BY <2>1, <3>2, ProceedKeeps, CannotProceedKeeps, ReadDoneKeeps
    <3>3. QED
      BY <2>4, <3>1, <3>2 DEF Check
  <2>5. CASE Write
    BY <2>1, <2>5, WriteKeeps
  <2>6. QED
    BY <1>1, <2>2, <2>3, <2>4, <2>5 DEF Host
<1>2. CASE BaseStep
  BY <1>2, BaseReadsKeeps, BaseAloneStepKeeps, BaseReportsKeeps DEF BaseStep
<1>3. CASE LiftStep
  BY <1>3, LiftReadsKeeps, LiftAloneKeeps, LiftReportsKeeps DEF LiftStep
<1>4. CASE Fault
  BY <1>4, ResetsKeeps, DamageOutKeeps, DamageInKeeps, BreaksKeeps DEF Fault
<1>5. QED
  BY <1>1, <1>2, <1>3, <1>4, OpenKeeps, LateKeeps DEF Next

\* In every reachable state what the plug-in, its links and the two devices hold goes
\* together: in particular each line that starts the drive has a DISABLE behind it
\* once the plug-in is no longer active, and a software E-stop is never overtaken by
\* an activation.  This is what the following theorems rest on.
THEOREM Invariance == Spec => []IInv
<1>1. Init => IInv
  BY InitIInv
<1>2. IInv /\ [Next]_vars => IInv'
  BY StutterKeeps, NextKeeps
<1>3. QED
  BY <1>1, <1>2, PTL DEF Spec

\* Every part of the plug-in, its links and the devices has its type, active_ belongs
\* to the stages of a running plug-in, and the ports are closed exactly between
\* cleanup() and configure().
THEOREM TypeCorrect == Spec => []TypeOK
<1>1. IInv => TypeOK
  <2> SUFFICES ASSUME IInv PROVE TypeOK
    OBVIOUS
  <2>1. /\ stage \in Stages /\ active \in BOOLEAN /\ fatal \in BOOLEAN
        /\ attempts \in 0..StartAttempts + 1 /\ answer \in {"none", "ok", "no"}
        /\ hello_acked \in BOOLEAN /\ lift_session \in Sessions \cup {NoSession}
        /\ active => stage \in {"reading", "writing"}
    BY DEF IInv, ControlType, SessionIds
  <2>2. ASSUME NEW d \in Links
        PROVE  /\ port[d] \in {"closed", "open", "broken"} /\ stop_lost[d] \in BOOLEAN
               /\ port[d] = "closed" <=> stage = "closed"
               /\ stage = "closed" => inbox[d] = <<>>
    BY DEF IInv, LinkType
  <2>3. /\ base.enabled \in BOOLEAN /\ base.moving \in BOOLEAN /\ base.fresh \in BOOLEAN
        /\ base.fault \subseteq {"COMMAND_TIMEOUT", "SOFTWARE_ESTOP"}
        /\ {lift.session, lift.retired} \subseteq Sessions \cup {NoSession}
        /\ lift.homed \in BOOLEAN
        /\ lift.fault \in {"NONE", "COMM_TIMEOUT", "GEOMETRY"}
        /\ lift.mode \in {"idle", "homing", "armed"}
    BY DEF IInv, DeviceType, BaseStates, BaseFaults, LiftStates, SessionIds
  <2>4. /\ base.errors \in 0..MaxFailures /\ base.restarts \in 0..MaxFailures
        /\ failures \in 0..MaxFailures
    <3>1. /\ base.errors \in Nat /\ base.restarts \in Nat /\ failures \in 0..MaxFailures
          /\ base.errors + base.restarts <= failures
      BY DEF IInv, DeviceType, BaseStates
    <3>2. \A a, b, f : a \in Nat /\ b \in Nat /\ f \in 0..MaxFailures /\ a + b <= f
                       => a \in 0..MaxFailures /\ b \in 0..MaxFailures
      BY FailureAssumption
    <3>3. QED
      BY <3>1, <3>2
  <2>5. QED
    BY <2>1, <2>2, <2>3, <2>4 DEF TypeOK
<1>2. QED
  BY <1>1, Invariance, PTL

\* Whenever the plug-in is not active, after whatever failures, late lines, restarts and
\* retries, the drive is at rest or a DISABLE is on its way to it, unless the link lost
\* the DISABLE itself.
THEOREM DriveIsHeld == Spec => []DriveHeld
<1>1. IInv => DriveHeld
  <2>1. Stopping(outbox["base"]) => StopComing("base")
    BY DEF Stopping, StopComing
  <2>2. QED
    BY <2>1 DEF IInv, BaseHeld, AtRest, DriveHeld
<1>2. QED
  BY <1>1, Invariance, PTL

\* No step but a restart of the base takes a software E-stop away: no CLEAR of the
\* plug-in gets to a base that has latched one.
THEOREM EstopKept == Spec => EstopNeedsOperator
<1> DEFINE E == "SOFTWARE_ESTOP"
<1>1. IInv /\ [Next]_vars =>
        [(E \in base.fault => E \in base.fault' \/ base'.restarts > base.restarts)]_vars
  <2> SUFFICES ASSUME IInv, Next, E \in base.fault
               PROVE  E \in base.fault' \/ base'.restarts > base.restarts
    BY DEF vars
  <2>1. base \in BaseStates
    BY DEF IInv, DeviceType
  <2>2. CASE UNCHANGED base
    BY <2>2
  <2>3. CASE BaseReads
    <3> DEFINE q == outbox["base"]
               l == Head(q)
    <3>1. /\ q # <<>>
          /\ base' = IF BaseAccepts(base, l.command)
               THEN BaseAfter(base, l.command) ELSE base
      BY <2>3 DEF BaseReads, Reads
    <3>2. q \in Seq(LinesTo("base")) /\ ClearFree(q)
      BY BaseIsLink DEF IInv, LinkType, Outgoing, EstopKnown
    <3>3. l \in LinesTo("base") /\ l.command # "CLEAR"
      BY <3>1, <3>2, TailGuards
    <3>4. l.command \in BaseCommands
      BY <3>3 DEF LinesTo
    <3>5. base'.fault = base.fault
      BY <2>1, <3>1, <3>3, <3>4, BaseAfterType
    <3>6. QED
      BY <3>5
  <2>4. CASE BaseAges \/ BaseLapses \/ BaseWraps \/ EstopByHand
    BY <2>1, <2>4, BaseChangeType DEF BaseAges, BaseLapses, BaseWraps, EstopByHand
  <2>5. ASSUME NEW d \in Links, Resets(d)
        PROVE  E \in base.fault' \/ base'.restarts > base.restarts
    <3>1. CASE d = "base"
      <4>1. base'.restarts = base.restarts + 1 /\ base.restarts \in Nat
        BY <2>1, <2>5, <3>1 DEF Resets, BaseBoot, BaseStates
      <4>2. QED
        BY <4>1
    <3>2. CASE d # "base"
      BY <2>5, <3>2 DEF Resets
    <3>3. QED
      BY <3>1, <3>2
  <2>6. ASSUME NEW d \in Links, DamageOut(d)
        PROVE  E \in base.fault'
    BY <2>1, <2>6 DEF DamageOut, BaseStates
  <2>7. CASE \/ Open \/ Host \/ BaseReports \/ LiftStep \/ Late
             \/ \E d \in Links : DamageIn(d) \/ Breaks(d)
    <3>1. UNCHANGED base
      BY <2>7 DEF Open, Host, BaseReports, LiftStep, LiftReads, LiftLapses, LiftHomed,
                  LiftFails, LiftReports, Late, DamageIn, Breaks
    <3>2. QED
      BY <2>2, <3>1
  <2>8. QED
    BY <2>3, <2>4, <2>5, <2>6, <2>7 DEF Next, BaseStep, Fault
<1>2. QED
  BY <1>1, Invariance, PTL DEF Spec, EstopNeedsOperator

-----------------------------------------------------------------------------
(* The stop of the lift.                                                   *)

\* Of the lines q to the lift, and its state m: of the sessions in S, a STOP of the
\* same session stands behind every line that starts a motion, and one is on its way
\* to a lift that is moving or armed.
Covered(q, m, S) ==
  /\ \A i \in DOMAIN q :
       q[i].command \in {"HOME", "ARM"} /\ q[i].session \in S =>
         \E j \in DOMAIN q : j > i /\ q[j].command = "STOP" /\ q[j].session = q[i].session
  /\ m.mode # "idle" /\ m.session \in S =>
       \E j \in DOMAIN q : q[j].command = "STOP" /\ q[j].session = m.session

\* The sessions on whose behalf the lift must not be moved: of the plug-in's own one
\* only while it activates or is active.
Left == IF active \/ stage \in Activation THEN (SessionIds \ {lift_session}) ELSE SessionIds

\* What keeps LiftHeld.
LiftGuard ==
  "lift" \in Links => stop_lost["lift"] \/ Covered(outbox["lift"], lift, Left)

\* What is asked of fewer sessions is less.
LEMMA CoveredFewer ==
  ASSUME NEW q, NEW m, NEW S, NEW T, T \subseteq S, Covered(q, m, S)
  PROVE  Covered(q, m, T)
  BY DEF Covered

LEMMA ForgottenCovers ==
  ASSUME NEW q \in Seq(LinesTo("lift")), NEW m, NEW S, Covered(q, m, S)
  PROVE  Covered(Forgotten(q), m, S) /\ Forgotten(q) \in Seq(LinesTo("lift"))
<1>1. \A i \in DOMAIN q : q[i] \in LinesTo("lift")
  BY ElementOfSeq
<1>2. \A i \in DOMAIN q :
        /\ [q[i] EXCEPT !.awaited = FALSE] \in LinesTo("lift")
        /\ [q[i] EXCEPT !.awaited = FALSE].command = q[i].command
        /\ [q[i] EXCEPT !.awaited = FALSE].session = q[i].session
  BY <1>1 DEF LinesTo
<1>3. /\ DOMAIN Forgotten(q) = DOMAIN q
      /\ \A i \in DOMAIN q : /\ Forgotten(q)[i].command = q[i].command
                             /\ Forgotten(q)[i].session = q[i].session
  BY <1>2 DEF Forgotten
<1>4. Covered(Forgotten(q), m, S)
  BY <1>3 DEF Covered
<1>5. DOMAIN q = 1..Len(q) /\ Len(q) \in Nat
  OBVIOUS
<1>6. Forgotten(q) \in Seq(LinesTo("lift"))
  BY <1>2, <1>5 DEF Forgotten
<1>7. QED
  BY <1>4, <1>6

\* A line that starts no motion on behalf of S is added.
LEMMA AppendCovers ==
  ASSUME NEW q \in Seq(LinesTo("lift")), NEW m, NEW S, Covered(q, m, S),
         NEW l \in LinesTo("lift"),
         l.command \in {"HOME", "ARM"} => l.session \notin S
  PROVE  Covered(Append(q, l), m, S)
<1> DEFINE r == Append(q, l)
<1>1. /\ Len(q) \in Nat /\ DOMAIN q = 1..Len(q) /\ DOMAIN r = 1..Len(q) + 1
      /\ \A i \in 1..Len(q) : r[i] = q[i]
      /\ r[Len(q) + 1] = l
  BY AppendProperties, LenProperties
<1> HIDE DEF r
<1>2. QED
  BY <1>1 DEF Covered, r

\* A STOP is added: it covers what the own session has started.
LEMMA StopCovers ==
  ASSUME lift_session \in SessionIds, NEW q \in Seq(LinesTo("lift")), NEW m,
         m.session \in SessionIds,
         Covered(q, m, (SessionIds \ {lift_session}))
  PROVE  Covered(q \o StopLines["lift"], m, SessionIds)
<1> DEFINE l == Line("STOP", FALSE)
           r == Append(q, l)
<1>1. l \in LinesTo("lift") /\ l.command = "STOP" /\ l.session = lift_session
  BY LineType, OwnType DEF Line, LiftCommands
<1> HIDE DEF l
<1>2. /\ Len(q) \in Nat /\ DOMAIN q = 1..Len(q) /\ DOMAIN r = 1..Len(q) + 1
      /\ \A i \in 1..Len(q) : r[i] = q[i]
      /\ r[Len(q) + 1] = l
  BY <1>1, AppendProperties, LenProperties
<1>3. q \o StopLines["lift"] = r
  <2>1. StopLines["lift"] = <<l>>
    BY DEF StopLines, l
  <2>2. QED
    BY <1>1, <2>1, AppendIsConcat
<1>4. \A i \in DOMAIN q : q[i].session \in SessionIds
  <2>1. \A i \in DOMAIN q : q[i] \in LinesTo("lift")
    BY ElementOfSeq
  <2>2. QED
    BY <2>1 DEF LinesTo
<1> HIDE DEF r
<1>5. ASSUME NEW i \in DOMAIN r, r[i].command \in {"HOME", "ARM"}
      PROVE  \E j \in DOMAIN r : j > i /\ r[j].command = "STOP"
               /\ r[j].session = r[i].session
  <2>1. i \in DOMAIN q /\ r[i] = q[i]
    BY <1>1, <1>2, <1>5
  <2>2. CASE q[i].session = lift_session
    BY <1>1, <1>2, <2>1, <2>2
  <2>3. CASE q[i].session \in (SessionIds \ {lift_session})
    <3>1. PICK j \in DOMAIN q : j > i /\ q[j].command = "STOP"
                                  /\ q[j].session = q[i].session
      BY <1>5, <2>1, <2>3 DEF Covered
    <3>2. j \in DOMAIN r /\ r[j] = q[j]
      BY <1>2
    <3>3. QED
      BY <2>1, <3>1, <3>2
  <2>4. QED
    BY <1>4, <2>1, <2>2, <2>3
<1>6. ASSUME m.mode # "idle"
      PROVE  \E j \in DOMAIN r : r[j].command = "STOP" /\ r[j].session = m.session
  <2>1. CASE m.session = lift_session
    BY <1>1, <1>2, <2>1
  <2>2. CASE m.session \in (SessionIds \ {lift_session})
    <3>1. PICK j \in DOMAIN q : q[j].command = "STOP" /\ q[j].session = m.session
      BY <1>6, <2>2 DEF Covered
    <3>2. j \in DOMAIN r /\ r[j] = q[j]
      BY <1>2
    <3>3. QED
      BY <3>1, <3>2
  <2>3. QED
    BY <2>1, <2>2 DEF SessionIds
<1>7. QED
  BY <1>3, <1>5, <1>6 DEF Covered

\* The first line is read: as the lift answers it.
LEMMA ReadCovers ==
  ASSUME NEW q \in Seq(LinesTo("lift")), q # <<>>, NEW S, Covered(q, lift, S),
         lift \in LiftStates, Driven(lift), NEW ok \in BOOLEAN,
         ok => LiftAccepts(lift, Head(q)),
         ~ok => MayRefuse(lift, Head(q)),
         lift' = IF ok THEN LiftAfter(lift, Head(q)) ELSE LiftRefused(lift, Head(q))
  PROVE  /\ Covered(Tail(q), lift', S)
         /\ ok /\ Head(q).command \in {"STOP", "HELLO"} => lift'.mode = "idle"
<1> DEFINE r == Tail(q)
           l == Head(q)
<1>1. /\ Len(q) \in Nat \ {0} /\ DOMAIN q = 1..Len(q) /\ DOMAIN r = 1..Len(q) - 1
      /\ \A i \in 1..Len(q) - 1 : r[i] = q[i + 1]
      /\ l = q[1] /\ l \in LinesTo("lift")
  BY HeadTailProperties, LenProperties, EmptySeq
<1>2. /\ l.command \in {"HELLO", "STOP", "CLEAR", "HOME", "ARM", "SET"}
      /\ ok => LiftAccepts(lift, l)
      /\ ~ok => MayRefuse(lift, l)
      /\ lift' = IF ok THEN LiftAfter(lift, l) ELSE LiftRefused(lift, l)
  BY <1>1 DEF LinesTo, LiftCommands
<1> HIDE DEF r, l
<1>3. \A i \in DOMAIN r : i + 1 \in DOMAIN q /\ r[i] = q[i + 1]
  BY <1>1
<1>4. \A j \in DOMAIN q : j > 1 => j - 1 \in DOMAIN r /\ r[j - 1] = q[j]
  BY <1>1
<1>5. ASSUME NEW i \in DOMAIN r, r[i].command \in {"HOME", "ARM"}, r[i].session \in S
      PROVE  \E j \in DOMAIN r : j > i /\ r[j].command = "STOP"
               /\ r[j].session = r[i].session
  <2>1. PICK j \in DOMAIN q : j > i + 1 /\ q[j].command = "STOP"
                                /\ q[j].session = r[i].session
    BY <1>3, <1>5 DEF Covered
  <2>2. j > 1 /\ j - 1 > i
    BY <1>1, <2>1
  <2>3. j - 1 \in DOMAIN r /\ r[j - 1] = q[j]
    BY <1>4, <2>2
  <2>4. QED
    BY <2>1, <2>2, <2>3
<1>6. ASSUME lift'.mode # "idle", lift'.session \in S
      PROVE  \E j \in DOMAIN q : /\ j > 1 /\ q[j].command = "STOP"
                                 /\ q[j].session = lift'.session
  <2>1. CASE ok /\ l.command \in {"HOME", "ARM"}
    <3>1. lift'.session = lift.session /\ lift.session = l.session
      BY <1>2, <2>1 DEF LiftAfter, LiftAccepts, Current, LiftStates
    <3>2. 1 \in DOMAIN q /\ q[1].command \in {"HOME", "ARM"} /\ q[1].session \in S
      BY <1>1, <1>6, <2>1, <3>1
    <3>3. QED
      BY <1>1, <3>1, <3>2 DEF Covered
  <2>2. CASE ~(ok /\ l.command \in {"HOME", "ARM"})
    <3>1. lift' = lift
      <4>1. CASE ok
        <5>1. l.command \in {"HELLO", "STOP", "CLEAR", "SET"}
          BY <1>2, <2>2, <4>1
        <5>2. lift' = lift \/ lift'.mode = "idle"
          BY <1>2, <4>1, <5>1 DEF LiftAfter, Halted, LiftStates
        <5>3. QED
          BY <1>6, <5>2
      <4>2. CASE ~ok
        BY <1>2, <1>6, <4>2 DEF LiftRefused, Halted, LiftStates
      <4>3. QED
        BY <4>1, <4>2
    <3>2. ~(l.command = "STOP" /\ l.session = lift.session)
      <4>1. SUFFICES ASSUME l.command = "STOP", l.session = lift.session PROVE FALSE
        OBVIOUS
      <4>2. ok
        BY <1>2, <1>6, <3>1, <4>1 DEF LiftAccepts, MayRefuse, Current, Driven
      <4>3. lift'.mode = "idle"
        BY <1>2, <4>1, <4>2 DEF LiftAfter, Halted, LiftStates
      <4>4. QED
        BY <1>6, <4>3
    <3>3. PICK j \in DOMAIN q : q[j].command = "STOP" /\ q[j].session = lift.session
      BY <1>6, <3>1 DEF Covered
    <3>4. j # 1
      BY <1>1, <3>2, <3>3
    <3>5. j > 1
      BY <1>1, <3>4
    <3>6. QED
      BY <3>1, <3>3, <3>5
  <2>3. QED
    BY <2>1, <2>2
<1>7. lift'.mode # "idle" /\ lift'.session \in S =>
        \E j \in DOMAIN r : r[j].command = "STOP" /\ r[j].session = lift'.session
  BY <1>4, <1>6
<1>8. ok /\ l.command \in {"STOP", "HELLO"} => lift'.mode = "idle"
  BY <1>2 DEF LiftAfter, Halted, LiftStates
<1>9. QED
  BY <1>5, <1>7, <1>8 DEF Covered, r, l

\* Nothing is left to read by a lift that is idle.
LEMMA NothingToCover ==
  ASSUME NEW m, m.mode = "idle", NEW S
  PROVE  Covered(<<>>, m, S)
  BY DEF Covered

LEMMA LeftType == Left \subseteq SessionIds /\ (SessionIds \ {lift_session}) \subseteq Left
  BY DEF Left, SessionIds

\* What the lines to the lift are.
LEMMA LiftLines ==
  ASSUME IInv, "lift" \in Links
  PROVE  /\ outbox["lift"] \in Seq(LinesTo("lift"))
         /\ lift \in LiftStates /\ lift.session \in SessionIds /\ Driven(lift)
  BY DEF IInv, LinkType, Outgoing, DeviceType, LiftStates

\* A step that neither sends to the lift nor stops an activation.
LEMMA QuietGuards ==
  ASSUME LiftGuard, UNCHANGED lift, Left' \subseteq Left,
         "lift" \in Links => /\ outbox'["lift"] = outbox["lift"]
                             /\ stop_lost'["lift"] = stop_lost["lift"]
  PROVE  LiftGuard'
<1> SUFFICES ASSUME "lift" \in Links', ~stop_lost'["lift"]
             PROVE  Covered(outbox'["lift"], lift', Left')
  BY DEF LiftGuard
<1>1. "lift" \in Links
  BY DEF Links
<1>2. Covered(outbox["lift"], lift, Left)
  BY <1>1 DEF LiftGuard
<1>3. Covered(outbox["lift"], lift, Left')
  BY <1>2, CoveredFewer
<1>4. QED
  BY <1>1, <1>3

\* A stage is entered: a motion is only asked for in an activation.
LEMMA EnterGuards ==
  ASSUME IInv, LiftGuard, NEW s, NEW unread, Enter(s, unread),
         UNCHANGED <<lift_session, port, stop_lost, lift>>, Left' \subseteq Left
  PROVE  LiftGuard'
<1> SUFFICES ASSUME "lift" \in Links', ~stop_lost'["lift"]
             PROVE  Covered(outbox'["lift"], lift', Left')
  BY DEF LiftGuard
<1> DEFINE q == outbox["lift"]
           n == Line(Request[s].command, TRUE)
           asks == s \in DOMAIN Request /\ Request[s].to = "lift"
<1>1. "lift" \in Links /\ ~stop_lost["lift"]
  BY DEF Links
<1>2. /\ stage' = s
      /\ outbox'["lift"] = IF asks /\ port["lift"] = "open"
                           THEN Append(Forgotten(q), n) ELSE q
  BY <1>1 DEF Enter
<1>3. /\ q \in Seq(LinesTo("lift")) /\ Covered(q, lift, Left')
  BY <1>1, LiftLines, CoveredFewer DEF LiftGuard
<1>4. Covered(Forgotten(q), lift, Left') /\ Forgotten(q) \in Seq(LinesTo("lift"))
  BY <1>3, ForgottenCovers
<1>5. ASSUME asks
      PROVE  /\ n \in LinesTo("lift")
             /\ n.command \in {"HOME", "ARM"} => n.session \notin Left'
  <2>1. n \in LinesTo("lift") /\ n.command = Request[s].command /\ n.session = lift_session
    BY <1>5, RequestType, LineType, OwnType DEF Line
  <2>2. Request[s].command \in {"HOME", "ARM"} => s \in {"home", "arm"}
    BY <1>5 DEF Request, Ask
  <2>3. s \in {"home", "arm"} => Left' = (SessionIds \ {lift_session})
    BY <1>2 DEF Left, Activation
  <2>4. QED
    BY <2>1, <2>2, <2>3
<1> HIDE DEF q, n, asks
<1>6. asks => Covered(Append(Forgotten(q), n), lift, Left')
  BY <1>4, <1>5, AppendCovers
<1>7. QED
  BY <1>2, <1>3, <1>6

\* A stop is sent, if the port takes it.
LEMMA StopGuardsLift ==
  ASSUME IInv, LiftGuard, stage # "closed", NEW lines, SafeStop(lines),
         "lift" \in Links => lines["lift"] = outbox["lift"],
         UNCHANGED lift
  PROVE  LiftGuard'
<1> SUFFICES ASSUME "lift" \in Links', ~stop_lost'["lift"]
             PROVE  Covered(outbox'["lift"], lift', Left')
  BY DEF LiftGuard
<1> DEFINE q == outbox["lift"]
<1>1. "lift" \in Links
  BY DEF Links
<1>2. /\ ~stop_lost["lift"] /\ port["lift"] # "broken"
      /\ outbox'["lift"] = Forgotten(q) \o
           (IF port["lift"] = "open" THEN StopLines["lift"] ELSE <<>>)
  BY <1>1 DEF SafeStop
<1>3. port["lift"] = "open"
  BY <1>1, <1>2 DEF IInv, LinkType
<1>4. q \in Seq(LinesTo("lift")) /\ lift.session \in SessionIds
      /\ Covered(q, lift, (SessionIds \ {lift_session}))
  BY <1>1, <1>2, LiftLines, LeftType, CoveredFewer DEF LiftGuard
<1> HIDE DEF q
<1>5. Covered(Forgotten(q) \o StopLines["lift"], lift, SessionIds)
  BY <1>4, ForgottenCovers, StopCovers, OwnType
<1>6. Left' \subseteq SessionIds
  BY DEF Left, SessionIds
<1>7. QED
  BY <1>2, <1>3, <1>5, <1>6, CoveredFewer

LEMMA FailGuards ==
  ASSUME IInv, LiftGuard, stage # "closed", NEW lines, NEW unread,
         FailAfter(lines, unread), UNCHANGED lift,
         "lift" \in Links => lines["lift"] = outbox["lift"]
  PROVE  LiftGuard'
  BY StopGuardsLift DEF FailAfter

LEMMA AgainGuards ==
  ASSUME IInv, LiftGuard, stage \in Startup, NEW s, NEW unread,
         Again(s, unread), UNCHANGED lift
  PROVE  LiftGuard'
<1>1. stage # "closed" /\ ~active /\ stage \notin Activation
  BY StageType DEF IInv, ControlType
<1>2. CASE GiveUp
  BY <1>1, <1>2, StopGuardsLift DEF GiveUp
<1>3. CASE Enter(s, unread)
             /\ UNCHANGED <<active, hello_acked, lift_session, port, seen, stop_lost>>
  <2>1. Left' \subseteq Left
    BY <1>1, <1>3 DEF Left, SessionIds
  <2>2. QED
    BY <1>3, <2>1, EnterGuards
<1>4. QED
  BY <1>2, <1>3 DEF Again

LEMMA PumpFailsGuards ==
  ASSUME IInv, LiftGuard, Pumping, NEW unread, PumpFails(unread), UNCHANGED lift
  PROVE  LiftGuard'
<1>1. stage # "closed"
  BY StageType DEF Pumping
<1>2. CASE \/ stage \in {"disable", "base_seen"} /\ Again("disable", unread)
           \/ stage \in {"hello", "lift_seen"} /\ Again("hello", unread)
  BY <1>2, AgainGuards DEF Startup
<1>3. CASE stage \in Activation \cup {"reading"} /\ Fail(unread)
  BY <1>1, <1>3, FailGuards DEF Fail
<1>4. CASE UNCHANGED <<stage, active, lift_session, outbox, stop_lost>>
  BY <1>4, QuietGuards DEF Left
<1>5. QED
  BY <1>2, <1>3, <1>4 DEF PumpFails

LEMMA PumpGuards ==
  ASSUME IInv, LiftGuard, NEW d \in Links, Take(d) \/ PortFails(d), UNCHANGED lift
  PROVE  LiftGuard'
<1>1. Pumping
  BY DEF Take, PortFails
<1>2. CASE \E unread : PumpFails(unread)
  BY <1>1, <1>2, PumpFailsGuards
<1>3. CASE UNCHANGED <<stage, active, lift_session, outbox, stop_lost>>
  BY <1>3, QuietGuards DEF Left
<1>4. QED
  BY <1>2, <1>3 DEF Take, PortFails

LEMMA TimeOutGuards ==
  ASSUME IInv, LiftGuard, TimeOut, UNCHANGED lift
  PROVE  LiftGuard'
<1>1. CASE \/ stage \in {"disable", "base_seen"} /\ Again("disable", inbox)
           \/ stage \in {"hello", "lift_seen"} /\ Again("hello", inbox)
  BY <1>1, AgainGuards DEF Startup
<1>2. CASE stage \in Activation \cup {"reading"} /\ Fail(inbox)
  BY <1>2, StageType, FailGuards DEF Fail
<1>3. QED
  BY <1>1, <1>2 DEF TimeOut

LEMMA CheckGuards ==
  ASSUME IInv, LiftGuard, Proceed \/ CannotProceed \/ ReadDone, UNCHANGED lift
  PROVE  LiftGuard'
<1>1. CASE Proceed
  <2>1. /\ Done /\ Following # "fail" /\ Enter(Following, inbox)
        /\ active' = (stage \in Activation /\ Following = "reading")
        /\ UNCHANGED <<lift_session, port, stop_lost, lift>> /\ stage' = Following
    BY <1>1 DEF Proceed, Enter
  <2>2. /\ stage \notin {"reading", "writing"}
        /\ stage \in Activation => Following \in Activation \cup {"reading"}
    BY <2>1, FollowingType DEF IInv, ControlType
  <2>3. CASE stage \in Activation
    <3>1. active' \/ stage' \in Activation
      BY <2>1, <2>2, <2>3
    <3>2. Left' = (SessionIds \ {lift_session})
      BY <2>1, <3>1 DEF Left, SessionIds
    <3>3. QED
      BY <2>1, <3>2, LeftType, EnterGuards
  <2>4. CASE stage \notin Activation
    <3>1. ~active
      BY <2>2 DEF IInv, ControlType
    <3>2. Left = SessionIds /\ Left' \in {SessionIds, (SessionIds \ {lift_session})}
      BY <2>1, <2>4, <3>1 DEF Left, SessionIds
    <3>3. Left' \subseteq Left
      BY <3>2, LeftType
    <3>4. QED
      BY <2>1, <3>3, EnterGuards
  <2>5. QED
    BY <2>3, <2>4
<1>2. CASE CannotProceed
  <2>1. CASE stage \in Activation /\ Fail(inbox)
    BY <2>1, StageType, FailGuards DEF Fail
  <2>2. CASE stage = "disable" /\ Again("disable", inbox)
    BY <2>2, AgainGuards DEF Startup
  <2>3. QED
    BY <1>2, <2>1, <2>2 DEF CannotProceed
<1>3. CASE ReadDone
  <2>1. CASE Fail(inbox)
    BY <1>3, <2>1, FailGuards DEF Fail, ReadDone
  <2>2. CASE active /\ UNCHANGED <<active, lift_session, outbox, stop_lost>>
    BY <2>2, QuietGuards DEF Left
  <2>3. QED
    BY <1>3, <2>1, <2>2 DEF ReadDone
<1>4. QED
  BY <1>1, <1>2, <1>3

LEMMA CallGuards ==
  ASSUME IInv, LiftGuard, Call, UNCHANGED lift
  PROVE  LiftGuard'
<1>1. CASE Activate
  <2>1. /\ Enter("zero", inbox) /\ UNCHANGED <<lift_session, port, stop_lost, lift>>
        /\ stage' = "zero"
    BY <1>1 DEF Activate, Enter
  <2>2. Left' \subseteq Left
    BY <2>1, LeftType DEF Left, Activation
  <2>3. QED
    BY <2>1, <2>2, EnterGuards
<1>2. CASE Deactivate
  BY <1>2, StopGuardsLift DEF Deactivate
<1>3. CASE Cleanup
  BY <1>3, StopGuardsLift DEF Cleanup
<1>4. QED
  BY <1>1, <1>2, <1>3 DEF Call

LEMMA WriteGuards ==
  ASSUME IInv, LiftGuard, Write, UNCHANGED lift
  PROVE  LiftGuard'
<1>1. stage # "closed" /\ active
  BY DEF Write, IInv, ControlType
<1>2. CASE Fail(inbox)
  BY <1>1, <1>2, FailGuards DEF Fail
<1>3. CASE FailAfter([outbox EXCEPT !["base"] = Append(@, Line("CMDV", FALSE))], inbox)
  <2>1. "lift" \in Links =>
          [outbox EXCEPT !["base"] = Append(@, Line("CMDV", FALSE))]["lift"]
            = outbox["lift"]
    BY BaseIsLink DEF IInv, LinkType, Outgoing
  <2>2. QED
    BY <1>1, <1>3, <2>1, FailGuards
<1>4. ASSUME NEW v \in {"CMD0", "CMDV"},
             outbox' = [d \in Links |->
               Append(outbox[d], Line(IF d = "base" THEN v ELSE "SET", FALSE))],
             UNCHANGED <<active, lift_session, stop_lost, lift>>
      PROVE  LiftGuard'
  <2> SUFFICES ASSUME "lift" \in Links', ~stop_lost'["lift"]
               PROVE  Covered(outbox'["lift"], lift', Left')
    BY DEF LiftGuard
  <2> DEFINE n == Line("SET", FALSE)
  <2>1. /\ "lift" \in Links /\ ~stop_lost["lift"]
        /\ outbox'["lift"] = Append(outbox["lift"], n)
        /\ Left' = Left
    BY <1>1, <1>4 DEF Links, Left, SessionIds
  <2>2. n \in LinesTo("lift") /\ n.command = "SET"
    BY LineType, OwnType DEF LiftCommands
  <2> HIDE DEF n
  <2>3. outbox["lift"] \in Seq(LinesTo("lift")) /\ Covered(outbox["lift"], lift, Left)
    BY <2>1, LiftLines DEF LiftGuard
  <2>4. QED
    BY <2>1, <2>2, <2>3, AppendCovers
<1>5. QED
  BY <1>2, <1>3, <1>4 DEF Write

\* Opening the ports draws a new session; nothing is covered in its name yet.
LEMMA OpenGuards ==
  ASSUME IInv, LiftGuard, Open
  PROVE  LiftGuard'
<1> SUFFICES ASSUME "lift" \in Links', ~stop_lost'["lift"]
             PROVE  Covered(outbox'["lift"], lift', Left')
  BY DEF LiftGuard
<1>1. "lift" \in Links /\ "lift" # "base"
  BY DEF Links
<1>2. /\ ~stop_lost["lift"] /\ stage = "closed" /\ ~active /\ lift' = lift
      /\ outbox'["lift"] = Forgotten(outbox["lift"])
  BY <1>1 DEF Open, Configure, IInv, ControlType
<1>3. Left = SessionIds /\ Left' \subseteq SessionIds
  BY <1>2, StageType DEF Left, SessionIds
<1>4. Covered(Forgotten(outbox["lift"]), lift, SessionIds)
  BY <1>1, <1>2, <1>3, LiftLines, ForgottenCovers DEF LiftGuard
<1>5. QED
  BY <1>2, <1>3, <1>4, CoveredFewer

LEMMA LiftReadsGuards ==
  ASSUME IInv, LiftGuard, LiftReads
  PROVE  LiftGuard'
<1> SUFFICES ASSUME "lift" \in Links', ~stop_lost'["lift"]
             PROVE  Covered(outbox'["lift"], lift', Left')
  BY DEF LiftGuard
<1> DEFINE q == outbox["lift"]
           l == Head(q)
<1>1. PICK ok \in BOOLEAN :
        /\ ok => LiftAccepts(lift, l)
        /\ ~ok => MayRefuse(lift, l)
        /\ lift' = IF ok THEN LiftAfter(lift, l) ELSE LiftRefused(lift, l)
        /\ stop_lost' = [stop_lost EXCEPT
             !["lift"] = @ /\ ~(/\ ok /\ l.command \in {"STOP", "HELLO"}
                                /\ Len(q) = 1)]
  BY DEF LiftReads
<1>2. /\ "lift" \in Links /\ q # <<>> /\ q \in Seq(LinesTo("lift"))
      /\ lift \in LiftStates /\ Driven(lift)
      /\ outbox'["lift"] = Tail(q) /\ Left' = Left
  BY LiftLines DEF LiftReads, Reads, Consume, control, Left, IInv, LinkType, Outgoing
<1>3. \/ ~stop_lost["lift"]
      \/ ok /\ l.command \in {"STOP", "HELLO"} /\ Len(q) = 1
  BY <1>1, <1>2 DEF IInv, LinkType
<1>4. CASE ~stop_lost["lift"]
  <2>1. Covered(q, lift, Left)
    BY <1>2, <1>4 DEF LiftGuard
  <2>2. Covered(Tail(q), lift', Left)
    BY <1>1, <1>2, <2>1, ReadCovers
  <2>3. QED
    BY <1>2, <2>2
<1>5. CASE ok /\ l.command \in {"STOP", "HELLO"} /\ Len(q) = 1
  <2>1. lift'.mode = "idle"
    BY <1>1, <1>2, <1>5 DEF LiftAfter, Halted, LiftStates
  <2>2. Tail(q) = <<>>
    <3>1. Tail(q) \in Seq(LinesTo("lift")) /\ Len(Tail(q)) = 0
      BY <1>2, <1>5, HeadTailProperties
    <3>2. QED
      BY <3>1, EmptySeq
  <2>3. QED
    BY <1>2, <2>1, <2>2, NothingToCover
<1>6. QED
  BY <1>3, <1>4, <1>5

\* The lift changes by itself, to idle, or only reports.
LEMMA LiftAloneGuards ==
  ASSUME IInv, LiftGuard, LiftLapses \/ LiftHomed \/ LiftFails \/ LiftReports
  PROVE  LiftGuard'
<1> SUFFICES ASSUME "lift" \in Links', ~stop_lost'["lift"]
             PROVE  Covered(outbox'["lift"], lift', Left')
  BY DEF LiftGuard
<1>1. /\ "lift" \in Links /\ ~stop_lost["lift"] /\ lift \in LiftStates
      /\ outbox' = outbox /\ UNCHANGED <<stage, active, lift_session>>
  BY LiftLines
     DEF LiftLapses, LiftHomed, LiftFails, LiftReports, host, control, Links
<1>a. Left' = Left
  BY <1>1 DEF Left, SessionIds
<1>2. lift' = lift \/ lift'.mode = "idle"
  BY <1>1, LiftAloneType DEF LiftLapses, LiftHomed, LiftFails, LiftReports
<1>3. Covered(outbox["lift"], lift, Left)
  BY <1>1 DEF LiftGuard
<1>4. QED
  BY <1>1, <1>a, <1>2, <1>3 DEF Covered

LEMMA FaultGuards ==
  ASSUME IInv, LiftGuard, NEW d \in Links,
         Resets(d) \/ DamageOut(d) \/ DamageIn(d) \/ Breaks(d)
  PROVE  LiftGuard'
<1>1. Left' = Left
  BY DEF Resets, DamageOut, DamageIn, Breaks, control, Left
<1>2. CASE Resets(d) /\ d = "lift"
  <2>1. outbox'["lift"] = <<>> /\ lift'.mode = "idle"
    BY <1>2, BootType DEF Resets, IInv, LinkType, Outgoing
  <2>2. QED
    BY <2>1, NothingToCover DEF LiftGuard
<1>3. CASE DamageOut(d) /\ d = "lift"
  <2> SUFFICES ASSUME "lift" \in Links', ~stop_lost'["lift"]
               PROVE  Covered(outbox'["lift"], lift', Left')
    BY DEF LiftGuard
  <2> DEFINE q == outbox["lift"]
  <2>1. /\ "lift" \in Links /\ lift' = lift /\ q # <<>> /\ outbox'["lift"] = Tail(q)
        /\ ~stop_lost["lift"] /\ Head(q).command # "STOP"
        /\ q \in Seq(LinesTo("lift"))
    BY <1>3, LiftLines DEF DamageOut, Consume, IInv, LinkType, Outgoing
  <2>2. Covered(q, lift, Left)
    BY <2>1 DEF LiftGuard
  <2> HIDE DEF q
  <2> DEFINE r == Tail(q)
  <2>3. /\ Len(q) \in Nat \ {0} /\ DOMAIN q = 1..Len(q) /\ DOMAIN r = 1..Len(q) - 1
        /\ \A i \in 1..Len(q) - 1 : r[i] = q[i + 1]
        /\ Head(q) = q[1]
    BY <2>1, HeadTailProperties, LenProperties, EmptySeq
  <2> HIDE DEF r
  <2>4. \A j \in DOMAIN q : j > 1 => j - 1 \in DOMAIN r /\ r[j - 1] = q[j]
    BY <2>3
  <2>5. ASSUME NEW i \in DOMAIN r, r[i].command \in {"HOME", "ARM"}, r[i].session \in Left
        PROVE  \E j \in DOMAIN r : /\ j > i /\ r[j].command = "STOP"
                                   /\ r[j].session = r[i].session
    <3>1. i + 1 \in DOMAIN q /\ r[i] = q[i + 1] /\ i \in Nat
      BY <2>3
    <3>2. PICK j \in DOMAIN q : j > i + 1 /\ q[j].command = "STOP"
                                  /\ q[j].session = r[i].session
      BY <2>2, <2>5, <3>1 DEF Covered
    <3>3. j > 1 /\ j - 1 > i /\ j - 1 \in DOMAIN r /\ r[j - 1] = q[j]
      BY <2>3, <2>4, <3>1, <3>2
    <3>4. QED
      BY <3>2, <3>3
  <2>6. ASSUME lift.mode # "idle", lift.session \in Left
        PROVE  \E j \in DOMAIN r : r[j].command = "STOP" /\ r[j].session = lift.session
    <3>1. PICK j \in DOMAIN q : q[j].command = "STOP" /\ q[j].session = lift.session
      BY <2>2, <2>6 DEF Covered
    <3>2. j > 1
      BY <2>1, <2>3, <3>1
    <3>3. QED
      BY <2>4, <3>1, <3>2
  <2>7. Covered(r, lift, Left)
    BY <2>5, <2>6 DEF Covered
  <2>8. QED
    BY <1>1, <2>1, <2>7 DEF r, q
<1>4. CASE \/ (Resets(d) \/ DamageOut(d)) /\ d # "lift"
           \/ DamageIn(d) \/ Breaks(d)
  <2>1. /\ UNCHANGED lift
        /\ "lift" \in Links => /\ outbox'["lift"] = outbox["lift"]
                               /\ stop_lost'["lift"] = stop_lost["lift"]
    BY <1>4 DEF Resets, DamageOut, DamageIn, Breaks, Consume, IInv, LinkType, Outgoing
  <2>2. QED
    BY <1>1, <2>1, QuietGuards
<1>5. QED
  BY <1>2, <1>3, <1>4

LEMMA BaseGuards ==
  ASSUME IInv, LiftGuard, BaseStep
  PROVE  LiftGuard'
<1>1. CASE BaseReads
  <2>1. /\ UNCHANGED <<stage, active, lift_session, lift>>
        /\ "lift" \in Links => /\ outbox'["lift"] = outbox["lift"]
                               /\ stop_lost'["lift"] = stop_lost["lift"]
    BY <1>1, BaseIsLink DEF BaseReads, Consume, control, IInv, LinkType, Outgoing
  <2>2. QED
    BY <2>1, QuietGuards DEF Left
<1>2. CASE BaseAges \/ BaseLapses \/ BaseWraps \/ BaseReports \/ EstopByHand
  <2>1. UNCHANGED <<stage, active, lift_session, outbox, stop_lost, lift>>
    BY <1>2 DEF BaseAges, BaseLapses, BaseWraps, BaseReports, EstopByHand, host,
                control
  <2>2. QED
    BY <2>1, QuietGuards DEF Left
<1>3. QED
  BY <1>1, <1>2 DEF BaseStep

LEMMA NextGuards ==
  ASSUME IInv, LiftGuard, Next
  PROVE  LiftGuard'
<1>1. CASE Host
  <2>1. UNCHANGED lift
    BY <1>1 DEF Host
  <2>2. CASE Pump
    BY <2>1, <2>2, PumpGuards DEF Pump
  <2>3. CASE Call
    BY <2>1, <2>3, CallGuards
  <2>4. CASE Check
    BY <2>1, <2>4, CheckGuards, TimeOutGuards DEF Check, Expires
  <2>5. CASE Write
    BY <2>1, <2>5, WriteGuards
  <2>6. QED
    BY <1>1, <2>2, <2>3, <2>4, <2>5 DEF Host
<1>2. CASE LiftStep
  BY <1>2, LiftReadsGuards, LiftAloneGuards DEF LiftStep
<1>3. CASE Late
  BY <1>3, TimeOutGuards DEF Late
<1>4. QED
  BY <1>1, <1>2, <1>3, OpenGuards, BaseGuards, FaultGuards DEF Next, Fault

\* Whenever the plug-in is neither active nor activating, the lift is idle or a STOP of
\* its own session is on its way to it, whatever was still to be read of this or an
\* earlier session, unless the link lost the STOP itself.
THEOREM LiftIsHeld == Spec => []LiftHeld
<1>1. Init => LiftGuard
  BY BootType DEF Init, HostInit, LiftGuard, Covered
<1>2. IInv /\ LiftGuard /\ [Next]_vars => LiftGuard'
  <2>1. ASSUME LiftGuard, UNCHANGED vars PROVE LiftGuard'
    BY <2>1, QuietGuards DEF vars, host, control, Left
  <2>2. QED
    BY <2>1, NextGuards
<1>3. IInv /\ LiftGuard => LiftHeld
  <2> SUFFICES ASSUME IInv, LiftGuard, "lift" \in Links, ~active, stage \notin Activation,
                      ~stop_lost["lift"], lift.mode # "idle"
               PROVE  StopComing("lift")
    BY DEF LiftHeld
  <2>1. Covered(outbox["lift"], lift, SessionIds) /\ lift.session \in SessionIds
    BY LiftLines DEF LiftGuard, Left
  <2>2. QED
    BY <2>1 DEF Covered, StopComing
<1>4. QED
  BY <1>1, <1>2, <1>3, Invariance, PTL DEF Spec

-----------------------------------------------------------------------------
(* The base is disabled while the lift homes: the invariant.               *)

Configured == Activation \cup {"reading", "writing"}
Opened == Startup \cup Configured
Preparing == {"lift_clear", "lift_cleared", "home", "homing"}
Enabling == {"enable", "drive", "enabled", "arm", "hold", "armed"}

Carries(q, c) == \E i \in DOMAIN q : q[i].command = c
Owned(q, s) == \A i \in DOMAIN q : q[i].session = s

\* What the plug-in has accepted of the lift, and what it is about to be told.
ToldIn(q, s) ==
  {q[i].state : i \in {j \in DOMAIN q : q[j].kind = "STATE" /\ q[j].session = s}}
Seen == IF seen["lift"].seen THEN {seen["lift"].state} ELSE {}
Told == ToldIn(inbox["lift"], lift_session)

Ready(c) == c.homed /\ c.fault = "NONE"
Settled(c) == Ready(c) \/ c.fault = "GEOMETRY"

\* One answer at most is waited for, and one request on its way at most, which is
\* the last line of its link; where no request is waited for, there is neither.
AsksOf(d, s) == s \in DOMAIN Request /\ Request[s].to = d
Asked(l) == l.awaited /\ l.command # "HELLO"
Answers(m) == m.kind = "OK" /\ m.awaited
NoneAsked == \A d \in Links : \A i \in DOMAIN outbox[d] : ~Asked(outbox[d][i])
NoAnswer == \A d \in Links : \A i \in DOMAIN inbox[d] : ~Answers(inbox[d][i])
Acked == answer = "ok" \/ ~NoAnswer
Waits ==
  stage \in Opened =>
    /\ \A d \in Links : \A i \in DOMAIN outbox[d] :
         Asked(outbox[d][i]) =>
           /\ AsksOf(d, stage) /\ i = Len(outbox[d])
           /\ outbox[d][i].command = Request[stage].command
    /\ \A d \in Links : \A i \in DOMAIN inbox[d] :
         Answers(inbox[d][i]) => AsksOf(d, stage)
    /\ Acked => NoneAsked
    /\ stage \notin DOMAIN Request => NoneAsked /\ ~Acked

\* The lift is armed only with a reference and homes without one, and so it tells; at
\* most one STATE of it is on its way.
OneState(q) ==
  \A i, j \in DOMAIN q : q[i].kind = "STATE" /\ q[j].kind = "STATE" => i = j
Views ==
  /\ lift.mode = "armed" => Ready(lift)
  /\ lift.mode = "homing" => ~lift.homed
  /\ \A c \in Seen \cup Told : c.armed => Ready(c)
  /\ OneState(inbox["lift"])

\* The lift reads the lines of an old session before those of the own one, and its
\* HELLO before the rest.
Sequenced(q, s) ==
  \A i, j \in DOMAIN q : i < j /\ q[i].session = s =>
    /\ q[j].session = s
    /\ q[i].command = "ARM" => q[j].command # "HELLO"
OnlyHello(q, s) == \A i \in DOMAIN q : q[i].session = s => q[i].command = "HELLO"
Known == Current(lift, lift_session) \/ Seen \cup Told # {}
InSession ==
  /\ Sequenced(outbox["lift"], lift_session)
  /\ Known => Owned(outbox["lift"], lift_session)
  /\ stage \in Startup =>
       /\ OnlyHello(outbox["lift"], lift_session)
       /\ Known => lift.mode = "idle"
       /\ \A c \in Seen \cup Told : ~c.armed
  /\ stage \in Configured => Seen # {}

\* What was not so when the lift told it is not so now, unless it was homed or its
\* fault was cleared.
Order ==
  /\ stage \in Opened \ {"home", "homing"} =>
       /\ \A c \in Seen : ~c.homed => ~lift.homed /\ \A e \in Told : ~e.homed
       /\ \A c \in Told : ~c.homed => ~lift.homed
  /\ stage \in Opened \ Preparing =>
       /\ \A c \in Seen : ~Ready(c) => ~Ready(lift) /\ \A e \in Told : ~Ready(e)
       /\ \A c \in Told : ~Ready(c) => ~Ready(lift)

\* HOME and CLEAR are only on their way while they are waited for, and only to a lift
\* that needs them.
Requested ==
  LET q == outbox["lift"] IN
  stage \in Configured =>
    /\ Carries(q, "HOME") => stage = "home" /\ lift.mode # "homing"
    /\ Carries(q, "CLEAR") => stage = "lift_clear"
    /\ lift.mode = "homing" => stage \in {"home", "homing"}
    /\ \A i \in DOMAIN q : q[i].command \in {"HOME", "CLEAR"} => q[i].awaited
    /\ Carries(q, "HOME") \/ lift.mode = "homing" =>
         ~lift.homed /\ \A c \in Seen \cup Told : ~c.homed
    /\ Carries(q, "CLEAR") => ~Ready(lift) /\ \A c \in Seen \cup Told : ~Ready(c)

\* Once the lift was armed, no HELLO brings it back into the session that it loses
\* with its arming, and only its switches take its reference.
Armed ==
  LET q == outbox["lift"] IN
  stage \in Configured =>
    /\ lift.mode = "armed" /\ lift.session = lift_session => ~Carries(q, "HELLO")
    /\ \A c \in Told : c.armed =>
         ~Carries(q, "HELLO") /\ (lift.session = lift_session => Settled(lift))
    /\ \A c \in Seen : c.armed =>
         /\ ~Carries(q, "HELLO") /\ (lift.session = lift_session => Settled(lift))
         /\ \A e \in Told : Settled(e)

\* The base is not enabled and not to be: with a HOME on its way or a lift that homes,
\* from the acknowledged DISABLE to the end of the start, and after that until ENABLE
\* or after it with a lift that needs neither CLEAR nor HOME.
Enableable == base.enabled \/ Carries(outbox["base"], "ENABLE")
BaseStaysOff ==
  LET q == outbox["lift"] IN
  /\ Enableable => ~Carries(q, "HOME") /\ lift.mode # "homing"
  /\ stage \in Startup \ {"disable"} => ~Enableable
  /\ stage = "disable" /\ Acked => ~Enableable
  /\ stage \in Configured \ Enabling /\ Enableable =>
       /\ stage \notin Preparing
       /\ ~Carries(q, "HELLO") /\ (lift.session = lift_session => Settled(lift))
       /\ \A c \in Seen \cup Told : Settled(c)

LiftInv == Views /\ InSession /\ Order /\ Requested /\ Armed /\ BaseStaysOff

-----------------------------------------------------------------------------
(* The lines both ways.                                                    *)

\* The rest of a queue after its first line.
LEMMA TailIndices ==
  ASSUME NEW S, NEW q \in Seq(S), q # <<>>
  PROVE  /\ Len(q) \in Nat \ {0} /\ DOMAIN q = 1..Len(q) /\ 1 \in DOMAIN q
         /\ Tail(q) \in Seq(S) /\ Len(Tail(q)) = Len(q) - 1
         /\ DOMAIN Tail(q) = 1..Len(q) - 1
         /\ \A i \in DOMAIN Tail(q) : i + 1 \in DOMAIN q /\ Tail(q)[i] = q[i + 1]
         /\ Head(q) \in S /\ Head(q) = q[1]
<1> DEFINE t == Tail(q)
<1>1. /\ Len(q) \in Nat \ {0} /\ DOMAIN q = 1..Len(q)
      /\ t \in Seq(S) /\ Len(t) = Len(q) - 1 /\ DOMAIN t = 1..Len(t)
      /\ \A i \in DOMAIN t : t[i] = q[i + 1]
      /\ Head(q) \in S /\ Head(q) = q[1]
  BY HeadTailProperties, LenProperties, EmptySeq
<1> HIDE DEF t
<1>2. QED
  BY <1>1 DEF t

LEMMA AppendIndices ==
  ASSUME NEW S, NEW q \in Seq(S), NEW l \in S
  PROVE  /\ Len(q) \in Nat /\ DOMAIN q = 1..Len(q)
         /\ Append(q, l) \in Seq(S) /\ Len(Append(q, l)) = Len(q) + 1
         /\ DOMAIN Append(q, l) = 1..Len(q) + 1
         /\ \A i \in 1..Len(q) : Append(q, l)[i] = q[i]
         /\ Append(q, l)[Len(q) + 1] = l
  BY AppendProperties, LenProperties

\* Of two queues of lines from a device, one is what is left of the other.
Suffix(p, q) ==
  \E n \in Nat : \A i \in DOMAIN p : i + n \in DOMAIN q /\ p[i] = q[i + n]

LEMMA SuffixKeeps ==
  ASSUME NEW p \in Seq(Messages), NEW q \in Seq(Messages), Suffix(p, q)
  PROVE  /\ ToldIn(p, lift_session) \subseteq ToldIn(q, lift_session)
         /\ OneState(q) => OneState(p)
         /\ (\A i \in DOMAIN q : ~Answers(q[i])) => \A i \in DOMAIN p : ~Answers(p[i])
<1>1. PICK n \in Nat : \A i \in DOMAIN p : i + n \in DOMAIN q /\ p[i] = q[i + n]
  BY DEF Suffix
<1>2. ToldIn(p, lift_session) \subseteq ToldIn(q, lift_session)
  BY <1>1 DEF ToldIn
<1>3. (\A i \in DOMAIN q : ~Answers(q[i])) => \A i \in DOMAIN p : ~Answers(p[i])
  BY <1>1
<1>4. ASSUME OneState(q), NEW i \in DOMAIN p, NEW j \in DOMAIN p,
             p[i].kind = "STATE", p[j].kind = "STATE"
      PROVE  i = j
  <2>1. i + n = j + n
    BY <1>1, <1>4 DEF OneState
  <2>2. i \in Nat /\ j \in Nat
    BY LenProperties
  <2>3. QED
    BY <2>1, <2>2
<1>5. QED
  BY <1>2, <1>3, <1>4 DEF OneState

LEMMA SuffixRest ==
  ASSUME NEW q \in Seq(Messages), q # <<>>
  PROVE  /\ Suffix(q, q) /\ Suffix(Tail(q), q)
         /\ \A k \in 0..Len(Tail(q)) :
              /\ SubSeq(Tail(q), k + 1, Len(Tail(q))) \in Seq(Messages)
              /\ Suffix(SubSeq(Tail(q), k + 1, Len(Tail(q))), q)
<1> DEFINE t == Tail(q)
<1>1. /\ t \in Seq(Messages) /\ Len(t) \in Nat /\ DOMAIN t = 1..Len(t)
      /\ \A i \in DOMAIN t : i + 1 \in DOMAIN q /\ t[i] = q[i + 1]
      /\ DOMAIN q = 1..Len(q) /\ Len(q) \in Nat
  BY TailIndices
<1> HIDE DEF t
<1>2. Suffix(q, q)
  <2>1. \A i \in DOMAIN q : i + 0 \in DOMAIN q /\ q[i] = q[i + 0]
    BY <1>1
  <2>2. QED
    BY <2>1 DEF Suffix
<1>3. Suffix(t, q)
  BY <1>1 DEF Suffix
<1>4. ASSUME NEW k \in 0..Len(t)
      PROVE  /\ SubSeq(t, k + 1, Len(t)) \in Seq(Messages)
             /\ Suffix(SubSeq(t, k + 1, Len(t)), q)
  <2> DEFINE r == SubSeq(t, k + 1, Len(t))
             n == Len(t)
  <2>1. n \in Nat /\ k \in Nat /\ k <= n /\ \A i \in (k + 1)..n : t[i] \in Messages
    BY <1>1, ElementOfSeq
  <2>2. /\ r \in Seq(Messages)
        /\ Len(r) = IF k + 1 <= n THEN n - (k + 1) + 1 ELSE 0
        /\ \A i \in 1..(n - (k + 1) + 1) : r[i] = t[k + 1 + i - 1]
    BY <2>1, SubSeqProperties
  <2> HIDE DEF r
  <2>3. DOMAIN r = 1..Len(r)
    BY <2>2, LenProperties
  <2>4. Len(r) = n - k
    BY <2>1, <2>2
  <2> HIDE DEF n
  <2>5. ASSUME NEW i \in DOMAIN r
        PROVE  i + (k + 1) \in DOMAIN q /\ r[i] = q[i + (k + 1)]
    <3>1. i \in 1..(n - k)
      BY <2>3, <2>4
    <3>2. /\ i \in 1..(n - (k + 1) + 1) /\ k + i \in 1..n /\ k + 1 + i - 1 = k + i
          /\ (k + i) + 1 = i + (k + 1)
      <4>1. \A a, b \in Nat : \A c \in 1..(a - b) :
              /\ c \in 1..(a - (b + 1) + 1) /\ b + c \in 1..a /\ b + 1 + c - 1 = b + c
              /\ (b + c) + 1 = c + (b + 1)
        OBVIOUS
      <4>2. n \in Nat /\ k \in Nat
        BY <2>1
      <4>3. QED
        BY <3>1, <4>1, <4>2
    <3>3. r[i] = t[k + i] /\ k + i \in DOMAIN t
      BY <1>1, <2>2, <3>2 DEF n
    <3>4. QED
      BY <1>1, <3>2, <3>3
  <2>6. k + 1 \in Nat
    BY <2>1
  <2>7. QED
    BY <2>2, <2>5, <2>6 DEF Suffix, r
<1>5. QED
  BY <1>2, <1>3, <1>4 DEF t

LEMMA ForgottenTold ==
  ASSUME NEW q \in Seq(Messages)
  PROVE  /\ ToldIn(Forgotten(q), lift_session) = ToldIn(q, lift_session)
         /\ OneState(q) => OneState(Forgotten(q))
         /\ \A i \in DOMAIN Forgotten(q) : ~Answers(Forgotten(q)[i])
<1>1. \A i \in DOMAIN q : q[i] \in Messages
  BY ElementOfSeq
<1>2. \A i \in DOMAIN q :
        /\ [q[i] EXCEPT !.awaited = FALSE].kind = q[i].kind
        /\ [q[i] EXCEPT !.awaited = FALSE].session = q[i].session
        /\ [q[i] EXCEPT !.awaited = FALSE].awaited = FALSE
        /\ q[i].kind = "STATE" => [q[i] EXCEPT !.awaited = FALSE].state = q[i].state
  BY <1>1 DEF Messages
<1>3. DOMAIN Forgotten(q) = DOMAIN q
      /\ \A i \in DOMAIN q :
           /\ Forgotten(q)[i].kind = q[i].kind
           /\ Forgotten(q)[i].session = q[i].session
           /\ Forgotten(q)[i].awaited = FALSE
           /\ q[i].kind = "STATE" => Forgotten(q)[i].state = q[i].state
  BY <1>2 DEF Forgotten
<1>4. ToldIn(Forgotten(q), lift_session) = ToldIn(q, lift_session)
  BY <1>3 DEF ToldIn
<1>5. OneState(q) => OneState(Forgotten(q))
  BY <1>3 DEF OneState
<1>6. \A i \in DOMAIN Forgotten(q) : ~Answers(Forgotten(q)[i])
  BY <1>3 DEF Answers
<1>7. QED
  BY <1>4, <1>5, <1>6

\* Lines to a device that nobody waits for any more.
LEMMA ForgottenLines ==
  ASSUME NEW d, NEW q \in Seq(LinesTo(d))
  PROVE  /\ Forgotten(q) \in Seq(LinesTo(d)) /\ DOMAIN Forgotten(q) = DOMAIN q
         /\ \A i \in DOMAIN q : /\ Forgotten(q)[i].command = q[i].command
                                /\ Forgotten(q)[i].session = q[i].session
                                /\ Forgotten(q)[i].awaited = FALSE
<1>1. \A i \in DOMAIN q : q[i] \in LinesTo(d)
  BY ElementOfSeq
<1>2. \A i \in DOMAIN q :
        /\ [q[i] EXCEPT !.awaited = FALSE] \in LinesTo(d)
        /\ [q[i] EXCEPT !.awaited = FALSE].command = q[i].command
        /\ [q[i] EXCEPT !.awaited = FALSE].session = q[i].session
        /\ [q[i] EXCEPT !.awaited = FALSE].awaited = FALSE
  BY <1>1 DEF LinesTo
<1>3. DOMAIN q = 1..Len(q) /\ Len(q) \in Nat
  OBVIOUS
<1>4. Forgotten(q) \in Seq(LinesTo(d))
  BY <1>2, <1>3 DEF Forgotten
<1>5. QED
  BY <1>2, <1>4 DEF Forgotten

LEMMA LinksType ==
  ASSUME IInv, NEW d \in Links
  PROVE  /\ outbox[d] \in Seq(LinesTo(d)) /\ inbox[d] \in Seq(Messages)
         /\ d = "base" \/ d = "lift"
         /\ DOMAIN inbox = Links /\ DOMAIN outbox = Links
<1>1. DOMAIN outbox = Links
  BY DEF IInv, LinkType, Outgoing
<1>2. QED
  BY <1>1, BaseIsLink DEF IInv, LinkType, Outgoing, Incoming

-----------------------------------------------------------------------------
(* What is waited for.                                                     *)

\* Nothing is sent that is waited for, and no answer comes that was not there.
LEMMA FewerWait ==
  ASSUME Waits, stage' = stage, answer' = "ok" => Acked \/ stage = "hello",
         \A d \in Links : \A i \in DOMAIN inbox'[d] :
           Answers(inbox'[d][i]) => \E j \in DOMAIN inbox[d] : Answers(inbox[d][j]),
         \A d \in Links : \A i \in DOMAIN outbox'[d] :
           Asked(outbox'[d][i]) =>
             i = Len(outbox'[d]) /\ \E j \in DOMAIN outbox[d] : outbox[d][j] = outbox'[d][i]
  PROVE  Waits'
<1> SUFFICES ASSUME stage \in Opened PROVE Waits'
  BY DEF Waits, Opened, Configured
<1>1. NoneAsked => NoneAsked'
  BY DEF NoneAsked, Links
<1>2. NoAnswer => NoAnswer'
  BY DEF NoAnswer, Links
<1>3. Acked' => Acked \/ stage = "hello"
  BY <1>2 DEF Acked
<1>4. stage = "hello" => NoneAsked
  <2> SUFFICES ASSUME stage = "hello", NEW d \in Links, NEW i \in DOMAIN outbox[d],
                      Asked(outbox[d][i])
               PROVE  FALSE
    BY DEF NoneAsked
  <2>1. outbox[d][i].command = Request["hello"].command
    BY DEF Waits
  <2>2. QED
    BY <2>1 DEF Request, Ask, Asked
<1>5. "hello" \in DOMAIN Request
  BY DEF Request
<1>6. \A d \in Links : \A i \in DOMAIN outbox'[d] :
        Asked(outbox'[d][i]) =>
          /\ AsksOf(d, stage) /\ i = Len(outbox'[d])
          /\ outbox'[d][i].command = Request[stage].command
  BY DEF Waits
<1>7. \A d \in Links : \A i \in DOMAIN inbox'[d] : Answers(inbox'[d][i]) => AsksOf(d, stage)
  BY DEF Waits
<1>8. Links' = Links
  BY DEF Links
<1>9. Acked' => NoneAsked'
  BY <1>1, <1>3, <1>4 DEF Waits
<1>10. stage \notin DOMAIN Request => NoneAsked' /\ ~Acked'
  BY <1>1, <1>3, <1>5 DEF Waits
<1>11. QED
  BY <1>6, <1>7, <1>8, <1>9, <1>10 DEF Waits

\* Nothing is waited for.
LEMMA IdleWaits ==
  ASSUME NoneAsked', ~Acked', stage' \notin DOMAIN Request
  PROVE  Waits'
  BY DEF Waits, NoneAsked, Acked, NoAnswer

\* A request is made, or a state waited for.
LEMMA EnterWaits ==
  ASSUME IInv, Waits, stage \in Opened, NEW s \in Stages, NEW unread, Incoming(unread),
         Enter(s, unread),
         s = stage \/ NoneAsked,
         \A d \in Links : ~AsksOf(d, s)
           => \A i \in DOMAIN unread[d] : ~Answers(unread[d][i])
  PROVE  Waits'
<1> DEFINE n == Line(Request[s].command, TRUE)
<1>1. /\ stage' = s /\ answer' = "none"
      /\ \A d \in Links :
           /\ inbox'[d] = IF AsksOf(d, s) THEN Forgotten(unread[d]) ELSE unread[d]
           /\ outbox'[d] = IF AsksOf(d, s) /\ port[d] = "open"
                           THEN Append(Forgotten(outbox[d]), n) ELSE outbox[d]
  BY DEF Enter, AsksOf
<1>2. ASSUME NEW d \in Links PROVE \A i \in DOMAIN inbox'[d] : ~Answers(inbox'[d][i])
  <2>1. CASE AsksOf(d, s)
    <3>1. unread[d] \in Seq(Messages)
      BY DEF Incoming
    <3>2. inbox'[d] = Forgotten(unread[d])
      BY <1>1, <2>1
    <3>3. QED
      BY <3>1, <3>2, ForgottenTold
  <2>2. CASE ~AsksOf(d, s)
    BY <1>1, <2>2
  <2>3. QED
    BY <2>1, <2>2
<1>3. Links' = Links
  BY DEF Links
<1>4. ~Acked'
  BY <1>1, <1>2, <1>3 DEF Acked, NoAnswer
<1>5. ASSUME NEW d \in Links, NEW i \in DOMAIN outbox'[d], Asked(outbox'[d][i])
      PROVE  /\ AsksOf(d, s) /\ i = Len(outbox'[d])
             /\ outbox'[d][i].command = Request[s].command
  <2>1. CASE AsksOf(d, s) /\ port[d] = "open"
    <3> DEFINE f == Forgotten(outbox[d])
    <3>1. outbox'[d] = Append(f, n)
      BY <1>1, <2>1
    <3>2. /\ f \in Seq(LinesTo(d)) /\ \A j \in DOMAIN f : ~Asked(f[j])
      BY LinksType, ForgottenLines DEF Asked
    <3>3. n \in LinesTo(d) /\ n.command = Request[s].command
      BY <2>1, RequestType, LineType, OwnType, LinksType DEF AsksOf
    <3> HIDE DEF f, n
    <3>4. i = Len(outbox'[d])
      BY <1>5, <3>1, <3>2, <3>3, AppendIndices
    <3>5. outbox'[d][i] = n
      BY <3>1, <3>2, <3>3, <3>4, AppendIndices
    <3>6. QED
      BY <2>1, <3>3, <3>4, <3>5
  <2>2. CASE ~(AsksOf(d, s) /\ port[d] = "open")
    <3>1. outbox'[d] = outbox[d]
      BY <1>1, <2>2
    <3>2. s = stage
      BY <1>5, <3>1 DEF NoneAsked
    <3>3. QED
      BY <1>5, <3>1, <3>2 DEF Waits
  <2>3. QED
    BY <2>1, <2>2
<1>6. s \notin DOMAIN Request => NoneAsked'
  BY <1>3, <1>5 DEF NoneAsked, AsksOf
<1>7. QED
  BY <1>1, <1>2, <1>3, <1>4, <1>5, <1>6 DEF Waits

LEMMA AgainWaits ==
  ASSUME IInv, Waits, NEW unread, Incoming(unread), NEW s,
         \/ stage \in {"disable", "base_seen"} /\ s = "disable"
         \/ stage \in {"hello", "lift_seen"} /\ s = "hello",
         \A d \in Links : NoAnswer \/ ~AsksOf(d, stage) =>
           \A i \in DOMAIN unread[d] : ~Answers(unread[d][i]),
         Again(s, unread)
  PROVE  Waits'
<1>1. CASE GiveUp
  BY <1>1, StageType DEF GiveUp, ClosePorts, Waits, Opened, Configured
<1>2. CASE Enter(s, unread)
  <2>1. s \in Stages /\ stage \in Opened
    BY DEF Stages, Startup, Opened
  <2>2. stage \in {"base_seen", "lift_seen"} => NoneAsked /\ NoAnswer
    BY <2>1 DEF Waits, Request, Acked
  <2>3. s = stage \/ NoneAsked
    BY <2>2
  <2>4. \A d \in Links : ~AsksOf(d, s) => \A i \in DOMAIN unread[d] : ~Answers(unread[d][i])
    BY <2>2
  <2>5. QED
    BY <1>2, <2>1, <2>3, <2>4, EnterWaits
<1>3. QED
  BY <1>1, <1>2 DEF Again

LEMMA PumpFailsWaits ==
  ASSUME IInv, Waits, NEW unread, Incoming(unread), PumpFails(unread),
         \A d \in Links : Suffix(unread[d], inbox[d])
  PROVE  Waits'
<1>1. \A d \in Links : /\ unread[d] \in Seq(Messages) /\ inbox[d] \in Seq(Messages)
  BY LinksType DEF Incoming
<1>2. \A d \in Links : (\A i \in DOMAIN inbox[d] : ~Answers(inbox[d][i])) =>
                       \A i \in DOMAIN unread[d] : ~Answers(unread[d][i])
  BY <1>1, SuffixKeeps
<1>3. CASE \/ stage \in {"disable", "base_seen"} /\ Again("disable", unread)
           \/ stage \in {"hello", "lift_seen"} /\ Again("hello", unread)
  <2>1. \A d \in Links : NoAnswer \/ ~AsksOf(d, stage) =>
           \A i \in DOMAIN unread[d] : ~Answers(unread[d][i])
    BY <1>2, <1>3 DEF Waits, NoAnswer, Opened, Startup
  <2>2. QED
    BY <1>3, <2>1, AgainWaits
<1>4. CASE Fail(unread)
  BY <1>4, StageType DEF Fail, FailAfter, Waits, Opened, Configured
<1>5. CASE stage = "lift_seen" /\ inbox' = unread /\ UNCHANGED <<stage, answer, outbox>>
  <2>1. /\ NoneAsked /\ ~Acked /\ "lift_seen" \notin DOMAIN Request
    BY <1>5 DEF Waits, Opened, Startup, Request
  <2>2. Links' = Links
    BY DEF Links
  <2>3. NoneAsked' /\ ~Acked'
    BY <1>2, <1>5, <2>1, <2>2 DEF NoneAsked, Acked, NoAnswer
  <2>4. QED
    BY <1>5, <2>1, <2>3, IdleWaits
<1>6. QED
  BY <1>3, <1>4, <1>5 DEF PumpFails

\* What is left of one link beside the other one.
LEMMA UnreadSuffix ==
  ASSUME IInv, NEW d \in Links, NEW r \in Seq(Messages), Suffix(r, inbox[d])
  PROVE  \A e \in Links : Suffix([inbox EXCEPT ![d] = r][e], inbox[e])
<1>1. \A e \in Links : Suffix(inbox[e], inbox[e])
  <2>1. \A q \in Seq(Messages) : \A i \in DOMAIN q : i + 0 \in DOMAIN q /\ q[i] = q[i + 0]
    OBVIOUS
  <2>2. \A e \in Links : inbox[e] \in Seq(Messages)
    BY LinksType
  <2>3. QED
    BY <2>1, <2>2 DEF Suffix
<1>2. QED
  BY <1>1, LinksType

LEMMA TakeWaits ==
  ASSUME IInv, Waits, NEW d \in Links, Take(d)
  PROVE  Waits'
<1> DEFINE l == Head(inbox[d])
           rest == Tail(inbox[d])
<1>1. inbox[d] \in Seq(Messages) /\ inbox[d] # <<>> /\ DOMAIN inbox = Links
  BY LinksType DEF Take
<1>2. /\ rest \in Seq(Messages) /\ Suffix(rest, inbox[d])
      /\ \A k \in 0..Len(rest) :
           /\ SubSeq(rest, k + 1, Len(rest)) \in Seq(Messages)
           /\ Suffix(SubSeq(rest, k + 1, Len(rest)), inbox[d])
  BY <1>1, SuffixRest, TailIndices
<1>3. CASE \E k \in 0..Len(rest) :
             PumpFails([inbox EXCEPT ![d] = SubSeq(rest, k + 1, Len(rest))])
  <2>1. PICK k \in 0..Len(rest) :
          PumpFails([inbox EXCEPT ![d] = SubSeq(rest, k + 1, Len(rest))])
    BY <1>3
  <2> DEFINE r == SubSeq(rest, k + 1, Len(rest))
             unread == [inbox EXCEPT ![d] = r]
  <2>2. r \in Seq(Messages) /\ Suffix(r, inbox[d])
    BY <1>2
  <2> HIDE DEF r
  <2>3. Incoming(unread) /\ \A e \in Links : Suffix(unread[e], inbox[e])
    BY <2>2, UnreadSuffix DEF Incoming, IInv, LinkType
  <2> HIDE DEF unread
  <2>4. PumpFails(unread)
    BY <2>1 DEF unread, r
  <2>5. QED
    BY <2>3, <2>4, PumpFailsWaits
<1>4. CASE /\ inbox' = [inbox EXCEPT ![d] = rest]
           /\ answer' = CASE l.kind = "HELLO" /\ stage = "hello" -> "ok"
                          [] l.kind = "OK" /\ l.awaited -> "ok"
                          [] l.kind = "NO" /\ l.awaited -> "no"
                          [] OTHER -> answer
           /\ UNCHANGED <<stage, outbox>>
  <2>1. 1 \in DOMAIN inbox[d] /\ inbox[d][1] = l
    BY <1>1, TailIndices
  <2>2. \A e \in Links : \A i \in DOMAIN inbox'[e] :
          \E j \in DOMAIN inbox[e] : inbox[e][j] = inbox'[e][i]
    <3>1. \A i \in DOMAIN rest : i + 1 \in DOMAIN inbox[d] /\ rest[i] = inbox[d][i + 1]
      BY <1>1, TailIndices
    <3> HIDE DEF rest
    <3>2. QED
      BY <1>1, <1>4, <3>1
  <2>3. l.kind = "OK" /\ l.awaited => Acked
    BY <2>1 DEF Acked, NoAnswer, Answers
  <2>4. answer' = "ok" => Acked \/ stage = "hello"
    <3> HIDE DEF l
    <3>1. QED
      BY <1>4, <2>3 DEF Acked
  <2>5. \A e \in Links : \A i \in DOMAIN outbox'[e] :
          Asked(outbox'[e][i]) =>
            i = Len(outbox'[e]) /\ \E j \in DOMAIN outbox[e] : outbox[e][j] = outbox'[e][i]
    BY <1>4 DEF Waits, Take, Pumping, Opened, Configured
  <2>6. QED
    BY <1>4, <2>2, <2>4, <2>5, FewerWait
<1>5. QED
  BY <1>3, <1>4 DEF Take

LEMMA CheckWaits ==
  ASSUME IInv, Waits, TimeOut \/ Proceed \/ CannotProceed \/ ReadDone
  PROVE  Waits'
<1>1. Incoming(inbox)
  BY DEF IInv, LinkType
<1>2. ASSUME Fail(inbox) PROVE Waits'
  BY <1>2, StageType DEF Fail, FailAfter, Waits, Opened, Configured
<1>3. ASSUME NEW s, Again(s, inbox),
             \/ stage \in {"disable", "base_seen"} /\ s = "disable"
             \/ stage \in {"hello", "lift_seen"} /\ s = "hello"
      PROVE  Waits'
  <2>1. \A d \in Links : NoAnswer \/ ~AsksOf(d, stage) =>
          \A i \in DOMAIN inbox[d] : ~Answers(inbox[d][i])
    BY <1>3 DEF Waits, NoAnswer, Opened, Startup
  <2>2. QED
    BY <1>1, <1>3, <2>1, AgainWaits
<1>4. CASE TimeOut
  BY <1>2, <1>3, <1>4 DEF TimeOut
<1>5. CASE CannotProceed
  BY <1>2, <1>3, <1>5 DEF CannotProceed
<1>6. CASE ReadDone
  <2>1. CASE /\ stage' = "writing"
             /\ UNCHANGED <<answer, outbox, inbox>>
    <3>1. stage = "reading" /\ stage \notin DOMAIN Request /\ stage' \notin DOMAIN Request
      BY <1>6, <2>1 DEF ReadDone, Request
    <3>2. NoneAsked /\ ~Acked
      BY <3>1 DEF Waits, Opened, Configured
    <3>3. QED
      BY <2>1, <3>1, <3>2, IdleWaits DEF NoneAsked, Acked, NoAnswer, Links
  <2>2. QED
    BY <1>2, <1>6, <2>1 DEF ReadDone
<1>7. CASE Proceed
  <2>1. /\ AllRead /\ Done /\ Following # "fail" /\ Enter(Following, inbox)
    BY <1>7 DEF Proceed
  <2>2. /\ stage \in Opened /\ Following \in Stages
    BY <2>1, FollowingType DEF IInv, ControlType, Stages, Opened, Configured
  <2>3. \A d \in Links : \A i \in DOMAIN inbox[d] : ~Answers(inbox[d][i])
    BY <2>1 DEF AllRead
  <2>4. NoneAsked
    <3>1. CASE stage \in DOMAIN Request
      <4>1. answer = "ok"
        BY <2>1, <3>1 DEF Done, Request
      <4>2. QED
        BY <2>2, <4>1 DEF Waits, Acked
    <3>2. CASE stage \notin DOMAIN Request
      BY <2>2, <3>2 DEF Waits
    <3>3. QED
      BY <3>1, <3>2
  <2>5. QED
    BY <1>1, <2>1, <2>2, <2>3, <2>4, EnterWaits
<1>8. QED
  BY <1>4, <1>5, <1>6, <1>7

LEMMA CallWaits ==
  ASSUME IInv, Waits, Call
  PROVE  Waits'
<1>1. CASE Activate
  <2>1. stage = "reading" /\ Enter("zero", inbox) /\ Incoming(inbox) /\ "zero" \in Stages
    BY <1>1 DEF Activate, IInv, LinkType, Stages, Activation
  <2>2. NoneAsked /\ NoAnswer /\ stage \in Opened
    BY <2>1 DEF Waits, Opened, Configured, Request, Acked
  <2>3. QED
    BY <2>1, <2>2, EnterWaits DEF NoAnswer
<1>2. CASE Deactivate
  <2>1. /\ stage = "reading" /\ SafeStop(outbox) /\ stage' = "reading"
        /\ UNCHANGED <<answer, inbox>>
    BY <1>2 DEF Deactivate
  <2>2. ~Acked /\ stage' \notin DOMAIN Request
    BY <2>1 DEF Waits, Opened, Configured, Request
  <2>3. ASSUME NEW d \in Links, NEW i \in DOMAIN outbox'[d] PROVE ~Asked(outbox'[d][i])
    <3> DEFINE f == Forgotten(outbox[d])
               t == IF port[d] = "open" THEN StopLines[d] ELSE <<>>
    <3>1. outbox'[d] = f \o t
      BY <2>1 DEF SafeStop
    <3>2. f \in Seq(LinesTo(d)) /\ \A j \in DOMAIN f : ~f[j].awaited
      BY LinksType, ForgottenLines
    <3>3. t \in Seq(LinesTo(d)) /\ \A j \in DOMAIN t : ~t[j].awaited
      <4>1. StopLines[d] \in Seq(LinesTo(d))
            /\ \A j \in DOMAIN StopLines[d] : ~StopLines[d][j].awaited
        <5>1. ~Line("CMD0", FALSE).awaited /\ ~Line("DISABLE", FALSE).awaited
              /\ ~Line("STOP", FALSE).awaited
          BY DEF Line
        <5>2. /\ d = "base" \/ d = "lift"
              /\ StopLines["base"] = <<Line("CMD0", FALSE), Line("DISABLE", FALSE)>>
              /\ StopLines["lift"] = <<Line("STOP", FALSE)>>
          BY LinksType DEF StopLines
        <5>3. ASSUME NEW a, NEW b, ~a.awaited, ~b.awaited
              PROVE  /\ \A j \in DOMAIN <<a, b>> : ~<<a, b>>[j].awaited
                     /\ \A j \in DOMAIN <<a>> : ~<<a>>[j].awaited
          <6>1. \A x, y : DOMAIN <<x, y>> = {1, 2} /\ <<x, y>>[1] = x /\ <<x, y>>[2] = y
            OBVIOUS
          <6>2. \A x : DOMAIN <<x>> = {1} /\ <<x>>[1] = x
            OBVIOUS
          <6>3. \A j \in DOMAIN <<a, b>> : <<a, b>>[j] = a \/ <<a, b>>[j] = b
            BY <6>1
          <6>4. \A j \in DOMAIN <<a>> : <<a>>[j] = a
            BY <6>2
          <6>5. QED
            BY <5>3, <6>3, <6>4, Zenon
        <5>4. /\ \A j \in DOMAIN StopLines["base"] : ~StopLines["base"][j].awaited
              /\ \A j \in DOMAIN StopLines["lift"] : ~StopLines["lift"][j].awaited
          BY <5>1, <5>2, <5>3, Zenon
        <5>5. QED
          BY <5>2, <5>4, StopLinesType, OwnType
      <4>2. QED
        BY <4>1, EmptySeq
    <3> HIDE DEF f, t
    <3>4. \E x \in {f[j] : j \in DOMAIN f} \cup {t[j] : j \in DOMAIN t} : outbox'[d][i] = x
      <4>1. /\ Len(f) \in Nat /\ Len(t) \in Nat /\ Len(f \o t) = Len(f) + Len(t)
            /\ DOMAIN f = 1..Len(f) /\ DOMAIN t = 1..Len(t)
            /\ DOMAIN (f \o t) = 1..(Len(f) + Len(t))
            /\ \A j \in 1..(Len(f) + Len(t)) :
                 (f \o t)[j] = IF j <= Len(f) THEN f[j] ELSE t[j - Len(f)]
        BY <3>2, <3>3, ConcatProperties, LenProperties
      <4>2. i \in 1..(Len(f) + Len(t))
        BY <2>3, <3>1, <4>1
      <4>3. CASE i <= Len(f)
        BY <3>1, <4>1, <4>2, <4>3
      <4>4. CASE ~(i <= Len(f))
        <5>1. i - Len(f) \in DOMAIN t
          BY <4>1, <4>2, <4>4
        <5>2. QED
          BY <3>1, <4>1, <4>2, <4>4, <5>1
      <4>5. QED
        BY <4>3, <4>4
    <3>5. QED
      BY <3>2, <3>3, <3>4 DEF Asked
  <2>4. Links' = Links
    BY DEF Links
  <2>5. NoneAsked' /\ ~Acked'
    BY <2>1, <2>2, <2>3, <2>4 DEF NoneAsked, Acked, NoAnswer
  <2>6. QED
    BY <2>1, <2>2, <2>5, IdleWaits
<1>3. CASE Cleanup
  BY <1>3, StageType DEF Cleanup, ClosePorts, Waits, Opened, Configured
<1>4. QED
  BY <1>1, <1>2, <1>3 DEF Call

LEMMA WriteWaits ==
  ASSUME IInv, Waits, Write
  PROVE  Waits'
<1>1. CASE \E lines : FailAfter(lines, inbox)
  BY <1>1, StageType DEF FailAfter, Waits, Opened, Configured
<1>2. ASSUME NEW v \in {"CMD0", "CMDV"},
             outbox' = [d \in Links |->
               Append(outbox[d], Line(IF d = "base" THEN v ELSE "SET", FALSE))],
             stage' = "reading", UNCHANGED <<answer, inbox>>
      PROVE  Waits'
  <2>1. NoneAsked /\ ~Acked /\ stage' \notin DOMAIN Request
    BY <1>2 DEF Write, Waits, Opened, Configured, Request
  <2>2. ASSUME NEW d \in Links, NEW i \in DOMAIN outbox'[d] PROVE ~Asked(outbox'[d][i])
    <3> DEFINE q == outbox[d]
               n == Line(IF d = "base" THEN v ELSE "SET", FALSE)
    <3>1. outbox'[d] = Append(q, n) /\ q \in Seq(LinesTo(d)) /\ ~n.awaited
      BY <1>2, LinksType DEF Line
    <3>2. n \in LinesTo(d)
      BY LinksType, LineType, OwnType DEF BaseCommands, LiftCommands
    <3> HIDE DEF n
    <3>3. i \in 1..Len(q) + 1 /\ Len(q) \in Nat /\ DOMAIN q = 1..Len(q)
      BY <2>2, <3>1, <3>2, AppendIndices
    <3>4. CASE i \in 1..Len(q)
      <4>1. outbox'[d][i] = q[i]
        BY <3>1, <3>2, <3>4, AppendIndices
      <4>2. QED
        BY <2>1, <3>3, <3>4, <4>1 DEF NoneAsked
    <3>5. CASE i = Len(q) + 1
      <4>1. outbox'[d][i] = n
        BY <3>1, <3>2, <3>5, AppendIndices
      <4>2. QED
        BY <3>1, <4>1 DEF Asked
    <3>6. QED
      BY <3>3, <3>4, <3>5
  <2>3. Links' = Links
    BY DEF Links
  <2>4. NoneAsked' /\ ~Acked'
    BY <1>2, <2>1, <2>2, <2>3 DEF NoneAsked, Acked, NoAnswer
  <2>5. QED
    BY <2>1, <2>4, IdleWaits
<1>3. QED
  BY <1>1, <1>2 DEF Write, Fail

\* configure() forgets all that was waited for, and waits for DISABLE.
LEMMA OpenWaits ==
  ASSUME IInv, Open
  PROVE  Waits'
<1> DEFINE f == Forgotten(outbox["base"])
           n == Line("DISABLE", TRUE)
<1>1. /\ stage' = "disable" /\ answer' = "none"
      /\ inbox' = [d \in Links |-> <<>>]
      /\ outbox' = [d \in Links |->
           IF d = "base" THEN Append(f, n)
           ELSE Forgotten(outbox[d])]
  BY DEF Open, Configure, ResetRuntimeState
<1>2. Links' = Links /\ ~Acked'
  <2>1. Links' = Links
    BY DEF Links
  <2>2. \A d \in Links : inbox'[d] = <<>>
    BY <1>1
  <2>3. NoAnswer'
    BY <2>1, <2>2 DEF NoAnswer
  <2>4. QED
    BY <1>1, <2>1, <2>3 DEF Acked
<1>3. "disable" \in DOMAIN Request /\ AsksOf("base", "disable")
      /\ Request["disable"].command = "DISABLE"
  BY DEF Request, Ask, AsksOf
<1>4. ASSUME NEW d \in Links, NEW i \in DOMAIN outbox'[d], Asked(outbox'[d][i])
      PROVE  /\ AsksOf(d, "disable") /\ i = Len(outbox'[d])
             /\ outbox'[d][i].command = "DISABLE"
  <2>1. CASE d = "base"
    <3>1. f \in Seq(LinesTo("base")) /\ \A j \in DOMAIN f : ~Asked(f[j])
      BY LinksType, ForgottenLines, BaseIsLink DEF Asked
    <3>2. n \in LinesTo("base") /\ n.command = "DISABLE"
      BY LineType, OwnType DEF BaseCommands
    <3>3. outbox'["base"] = Append(f, n)
      BY <1>1, BaseIsLink
    <3> HIDE DEF f, n
    <3>4. i = Len(outbox'[d])
      BY <1>4, <2>1, <3>1, <3>2, <3>3, AppendIndices
    <3>5. outbox'[d][i] = n
      BY <2>1, <3>1, <3>2, <3>3, <3>4, AppendIndices
    <3>6. QED
      BY <1>3, <2>1, <3>2, <3>4, <3>5
  <2>2. CASE d # "base"
    <3>1. outbox'[d] = Forgotten(outbox[d]) /\ outbox[d] \in Seq(LinesTo(d))
      BY <1>1, <2>2, LinksType
    <3>2. \A j \in DOMAIN Forgotten(outbox[d]) : ~Forgotten(outbox[d])[j].awaited
      BY <3>1, ForgottenLines
    <3>3. QED
      BY <1>4, <3>1, <3>2 DEF Asked
  <2>3. QED
    BY <2>1, <2>2
<1>5. QED
  BY <1>1, <1>2, <1>3, <1>4 DEF Waits, Acked, NoAnswer

\* A device reads a line, and may answer.
LEMMA ReadWaits ==
  ASSUME IInv, Waits, NEW d \in Links, outbox[d] # <<>>, Consume(d),
         NEW ok, Respond(d, ok, Head(outbox[d])), UNCHANGED <<stage, answer>>
  PROVE  Waits'
<1> DEFINE q == outbox[d]
           r == Tail(q)
           l == Head(q)
<1>1. /\ q \in Seq(LinesTo(d)) /\ inbox[d] \in Seq(Messages) /\ outbox'[d] = r
      /\ \A e \in Links \ {d} : outbox'[e] = outbox[e]
      /\ DOMAIN inbox = Links /\ l \in LinesTo(d)
  BY LinksType, ConsumeType
<1>2. /\ Len(q) \in Nat \ {0} /\ DOMAIN q = 1..Len(q) /\ l = q[1] /\ 1 \in DOMAIN q
      /\ r \in Seq(LinesTo(d)) /\ Len(r) = Len(q) - 1 /\ DOMAIN r = 1..Len(q) - 1
      /\ \A i \in DOMAIN r : i + 1 \in DOMAIN q /\ r[i] = q[i + 1]
  BY <1>1, TailIndices
<1>3. \/ UNCHANGED inbox
      \/ /\ inbox' = [inbox EXCEPT ![d] = Append(inbox[d], Reply("OK", l))]
         /\ l.command # "HELLO"
      \/ \E k \in {"NO", "HELLO"} :
           inbox' = [inbox EXCEPT ![d] = Append(inbox[d], Reply(k, l))]
  BY DEF Respond, Emit
<1>4. ASSUME NEW m \in Messages, inbox' = [inbox EXCEPT ![d] = Append(inbox[d], m)]
      PROVE  \A e \in Links : \A i \in DOMAIN inbox'[e] :
               \/ inbox'[e][i] = m /\ e = d
               \/ \E j \in DOMAIN inbox[e] : inbox[e][j] = inbox'[e][i]
  <2>1. \A e \in Links \ {d} : inbox'[e] = inbox[e]
    BY <1>1, <1>4
  <2>2. inbox'[d] = Append(inbox[d], m)
    BY <1>1, <1>4
  <2>3. \A i \in DOMAIN inbox'[d] :
          inbox'[d][i] = m \/ \E j \in DOMAIN inbox[d] : inbox[d][j] = inbox'[d][i]
    BY <1>1, <2>2, AppendIndices
  <2>4. QED
    BY <2>1, <2>3
<1> HIDE DEF l, r, q
<1>5. \A k \in {"OK", "NO", "HELLO"} :
        Reply(k, l) \in Messages /\ (Answers(Reply(k, l)) => k = "OK" /\ l.awaited)
  BY <1>1, MessageType DEF Reply, Answers
<1>6. \A e \in Links : \A i \in DOMAIN outbox'[e] :
          Asked(outbox'[e][i]) /\ stage \in Opened =>
            /\ i = Len(outbox'[e])
            /\ \E j \in DOMAIN outbox[e] : outbox[e][j] = outbox'[e][i]
            /\ ~Asked(l)
  <2> SUFFICES ASSUME NEW e \in Links, NEW i \in DOMAIN outbox'[e], Asked(outbox'[e][i]),
                      stage \in Opened
               PROVE  /\ i = Len(outbox'[e])
                      /\ \E j \in DOMAIN outbox[e] : outbox[e][j] = outbox'[e][i]
                      /\ ~Asked(l)
    OBVIOUS
  <2>1. CASE e = d
    <3>1. i \in DOMAIN r /\ outbox'[e][i] = q[i + 1] /\ i + 1 \in DOMAIN q
      BY <1>1, <1>2, <2>1
    <3>2. i + 1 = Len(q)
      BY <2>1, <3>1 DEF Waits, q
    <3>3. ~Asked(l)
      <4>1. Asked(q[1]) => 1 = Len(q)
        BY <1>2 DEF Waits, q
      <4>2. QED
        BY <1>2, <3>1, <3>2, <4>1
    <3>4. QED
      BY <1>1, <1>2, <2>1, <3>1, <3>2, <3>3 DEF q
  <2>2. CASE e # d
    <3>1. outbox'[e] = outbox[e] /\ i \in DOMAIN outbox[e]
      BY <1>1, <2>2
    <3>2. AsksOf(e, stage) /\ i = Len(outbox[e])
      BY <3>1 DEF Waits
    <3>3. Asked(l) => AsksOf(d, stage)
      BY <1>2 DEF Waits, q
    <3>4. QED
      BY <2>2, <3>1, <3>2, <3>3 DEF AsksOf
  <2>3. QED
    BY <2>1, <2>2
<1>7. CASE Answers(Reply("OK", l)) /\ l.command # "HELLO" /\ stage \in Opened
           /\ inbox' = [inbox EXCEPT ![d] = Append(inbox[d], Reply("OK", l))]
  <2>1. Asked(l) /\ AsksOf(d, stage)
    <3>1. Asked(l)
      BY <1>5, <1>7 DEF Asked
    <3>2. QED
      BY <1>2, <1>7, <3>1 DEF Waits, q
  <2>2. NoneAsked'
    BY <1>6, <1>7, <2>1 DEF NoneAsked, Links
  <2>3. \A e \in Links : \A i \in DOMAIN inbox'[e] :
          Answers(inbox'[e][i]) => AsksOf(e, stage)
    BY <1>4, <1>5, <1>7, <2>1 DEF Waits
  <2>4. stage \in DOMAIN Request /\ Links' = Links
    BY <2>1 DEF AsksOf, Links
  <2>5. QED
    BY <2>2, <2>3, <2>4 DEF Waits, NoneAsked
<1>8. CASE ~(Answers(Reply("OK", l)) /\ l.command # "HELLO" /\ stage \in Opened
             /\ inbox' = [inbox EXCEPT ![d] = Append(inbox[d], Reply("OK", l))])
  <2> SUFFICES ASSUME stage \in Opened PROVE Waits'
    BY DEF Waits, Opened, Configured
  <2>1. \A e \in Links : \A i \in DOMAIN inbox'[e] :
          Answers(inbox'[e][i]) => \E j \in DOMAIN inbox[e] : Answers(inbox[e][j])
    <3>1. CASE UNCHANGED inbox
      BY <3>1
    <3>2. ASSUME NEW k \in {"OK", "NO", "HELLO"}, ~Answers(Reply(k, l)),
                 inbox' = [inbox EXCEPT ![d] = Append(inbox[d], Reply(k, l))]
          PROVE  \A e \in Links : \A i \in DOMAIN inbox'[e] :
                   Answers(inbox'[e][i]) => \E j \in DOMAIN inbox[e] : Answers(inbox[e][j])
      BY <1>4, <1>5, <3>2
    <3>3. QED
      BY <1>3, <1>5, <1>8, <3>1, <3>2
  <2>2. answer' = "ok" => Acked
    BY DEF Acked
  <2>3. QED
    BY <1>6, <2>1, <2>2, FewerWait
<1>9. QED
  BY <1>7, <1>8

\* The lines to the devices are fewer or the same, and no answer comes.
LEMMA ShorterWaits ==
  ASSUME IInv, Waits, UNCHANGED <<stage, answer>>,
         \A d \in Links : \A i \in DOMAIN inbox'[d] :
           Answers(inbox'[d][i]) => \E j \in DOMAIN inbox[d] : Answers(inbox[d][j]),
         \A d \in Links : \/ outbox'[d] = outbox[d]
                          \/ outbox'[d] = <<>>
                          \/ outbox[d] # <<>> /\ outbox'[d] = Tail(outbox[d])
  PROVE  Waits'
<1> SUFFICES ASSUME stage \in Opened PROVE Waits'
  BY DEF Waits, Opened, Configured
<1>1. ASSUME NEW d \in Links, NEW i \in DOMAIN outbox'[d], Asked(outbox'[d][i])
      PROVE  i = Len(outbox'[d]) /\ \E j \in DOMAIN outbox[d] : outbox[d][j] = outbox'[d][i]
  <2>1. CASE outbox'[d] = outbox[d]
    BY <1>1, <2>1 DEF Waits
  <2>2. CASE outbox'[d] = <<>>
    BY <1>1, <2>2
  <2>3. CASE outbox[d] # <<>> /\ outbox'[d] = Tail(outbox[d])
    <3> DEFINE q == outbox[d]
               r == Tail(q)
    <3>1. q \in Seq(LinesTo(d))
      BY LinksType
    <3>2. /\ Len(q) \in Nat \ {0} /\ Len(r) = Len(q) - 1 /\ DOMAIN r = 1..Len(q) - 1
          /\ \A j \in DOMAIN r : j + 1 \in DOMAIN q /\ r[j] = q[j + 1]
      BY <2>3, <3>1, TailIndices
    <3> HIDE DEF q, r
    <3>3. i \in DOMAIN r /\ i + 1 \in DOMAIN q /\ outbox'[d][i] = q[i + 1]
      BY <1>1, <2>3, <3>2 DEF r, q
    <3>4. i + 1 = Len(q)
      BY <1>1, <3>3 DEF Waits, q
    <3>5. i = Len(r)
      BY <3>2, <3>3, <3>4
    <3>6. QED
      BY <2>3, <3>3, <3>5 DEF q, r
  <2>4. QED
    BY <2>1, <2>2, <2>3
<1>2. answer' = "ok" => Acked
  BY DEF Acked
<1>3. QED
  BY <1>1, <1>2, FewerWait

\* A device writes what is no answer.
LEMMA EmitFewer ==
  ASSUME IInv, NEW d \in Links, NEW m \in Messages, m.kind # "OK", Emit(d, m)
  PROVE  \A e \in Links : \A i \in DOMAIN inbox'[e] :
           Answers(inbox'[e][i]) => \E j \in DOMAIN inbox[e] : Answers(inbox[e][j])
<1>1. inbox[d] \in Seq(Messages) /\ DOMAIN inbox = Links
  BY LinksType
<1>2. CASE inbox' = inbox
  BY <1>2
<1>3. CASE inbox' = [inbox EXCEPT ![d] = Append(inbox[d], m)]
  <2>1. \A e \in Links \ {d} : inbox'[e] = inbox[e]
    BY <1>1, <1>3
  <2>2. inbox'[d] = Append(inbox[d], m)
    BY <1>1, <1>3
  <2>3. \A i \in DOMAIN inbox'[d] :
          Answers(inbox'[d][i]) => \E j \in DOMAIN inbox[d] : Answers(inbox[d][j])
    BY <1>1, <2>2, AppendIndices DEF Answers
  <2>4. QED
    BY <2>1, <2>3
<1>4. QED
  BY <1>2, <1>3 DEF Emit

LEMMA DeviceWaits ==
  ASSUME IInv, Waits, BaseStep \/ LiftStep
  PROVE  Waits'
<1>1. CASE BaseReads
  <2>1. "base" \in Links /\ outbox["base"] # <<>> /\ Consume("base")
        /\ UNCHANGED <<stage, answer>>
        /\ \E ok : Respond("base", ok, Head(outbox["base"]))
    BY <1>1 DEF BaseReads, Reads, control
  <2>2. QED
    BY <2>1, ReadWaits
<1>2. CASE LiftReads
  <2>1. "lift" \in Links /\ outbox["lift"] # <<>> /\ Consume("lift")
        /\ UNCHANGED <<stage, answer>>
        /\ \E ok : Respond("lift", ok, Head(outbox["lift"]))
    BY <1>2 DEF LiftReads, Reads, control
  <2>2. QED
    BY <2>1, ReadWaits
<1>3. CASE BaseAges \/ BaseLapses \/ BaseWraps \/ EstopByHand \/ LiftHomed
  <2>1. UNCHANGED <<stage, answer, outbox, inbox>>
    BY <1>3
       DEF BaseAges, BaseLapses, BaseWraps, EstopByHand, LiftHomed, host, control
  <2>2. QED
    BY <2>1, ShorterWaits
<1>4. CASE LiftLapses \/ LiftFails
  <2>1. UNCHANGED <<stage, answer, outbox>>
        /\ (UNCHANGED inbox \/ ("lift" \in Links /\ Emit("lift", Plain("BAD"))))
    BY <1>4 DEF LiftLapses, LiftFails, control, IInv, DeviceType, Driven
  <2>2. QED
    BY <2>1, MessageType, EmitFewer, ShorterWaits
<1>5. CASE BaseReports
  <2> DEFINE r == [enabled |-> base.enabled, fault |-> base.fault,
                   errors |-> base.errors, restarts |-> base.restarts]
  <2>1. UNCHANGED <<stage, answer, outbox>> /\ Emit("base", State(NoSession, r))
    BY <1>5 DEF BaseReports, control
  <2>2. r \in BaseReport
    BY DEF IInv, DeviceType, BaseStates, BaseReport
  <2> HIDE DEF r
  <2>3. State(NoSession, r) \in Messages /\ State(NoSession, r).kind # "OK"
    BY <2>2, MessageType DEF State, SessionIds
  <2>4. QED
    BY <2>1, <2>3, BaseIsLink, EmitFewer, ShorterWaits
<1>6. CASE LiftReports
  <2> DEFINE r == [fault |-> lift.fault, homed |-> lift.homed,
                   armed |-> lift.mode = "armed"]
  <2>1. /\ UNCHANGED <<stage, answer, outbox>> /\ Emit("lift", State(lift.session, r))
        /\ "lift" \in Links
    BY <1>6 DEF LiftReports, Reports, control
  <2>2. r \in LiftReport /\ lift.session \in SessionIds
    BY DEF IInv, DeviceType, LiftStates, LiftReport
  <2> HIDE DEF r
  <2>3. State(lift.session, r) \in Messages /\ State(lift.session, r).kind # "OK"
    BY <2>2, MessageType DEF State
  <2>4. QED
    BY <2>1, <2>3, EmitFewer, ShorterWaits
<1>7. QED
  BY <1>1, <1>2, <1>3, <1>4, <1>5, <1>6 DEF BaseStep, LiftStep

\* A damaged line is BAD, and the rest stays where it is.
LEMMA DamagedLines ==
  ASSUME NEW q \in Seq(Messages), q # <<>>
  PROVE  LET r == <<Plain("BAD")>> \o Tail(q) IN
         \A i \in DOMAIN r : r[i] = Plain("BAD") \/ (i \in DOMAIN q /\ r[i] = q[i])
<1> DEFINE t == Tail(q)
           b == <<Plain("BAD")>>
           r == b \o t
<1>1. b \in Seq(Messages) /\ Len(b) = 1 /\ b[1] = Plain("BAD")
  BY MessageType
<1>2. /\ Len(q) \in Nat \ {0} /\ DOMAIN q = 1..Len(q)
      /\ t \in Seq(Messages) /\ Len(t) = Len(q) - 1
      /\ \A j \in DOMAIN t : j + 1 \in DOMAIN q /\ t[j] = q[j + 1]
      /\ DOMAIN t = 1..Len(q) - 1
  BY TailIndices
<1> HIDE DEF t, b
<1>3. /\ Len(r) = Len(b) + Len(t) /\ r \in Seq(Messages)
      /\ \A j \in 1..(Len(b) + Len(t)) :
           r[j] = IF j <= Len(b) THEN b[j] ELSE t[j - Len(b)]
  BY <1>1, <1>2, ConcatProperties
<1> HIDE DEF r
<1>4. ASSUME NEW i \in DOMAIN r
      PROVE  r[i] = Plain("BAD") \/ (i \in DOMAIN q /\ r[i] = q[i])
  <2>1. i \in 1..Len(q)
    <3>1. DOMAIN r = 1..Len(r)
      BY <1>3, LenProperties
    <3>2. Len(r) = Len(q)
      BY <1>1, <1>2, <1>3
    <3>3. QED
      BY <3>1, <3>2
  <2>2. r[i] = IF i <= 1 THEN b[i] ELSE t[i - 1]
    BY <1>1, <1>2, <1>3, <2>1
  <2>3. CASE i = 1
    BY <1>1, <2>2, <2>3
  <2>4. CASE i # 1
    <3>1. i - 1 \in 1..Len(q) - 1 /\ ~(i <= 1) /\ (i - 1) + 1 = i
      BY <1>2, <2>1, <2>4
    <3>2. i - 1 \in DOMAIN t /\ r[i] = t[i - 1]
      BY <1>2, <2>2, <3>1
    <3>3. i \in DOMAIN q /\ t[i - 1] = q[i]
      BY <1>2, <3>1, <3>2
    <3>4. QED
      BY <3>2, <3>3
  <2>5. QED
    BY <2>3, <2>4
<1>5. QED
  BY <1>4 DEF r, b, t

LEMMA FaultWaits ==
  ASSUME IInv, Waits, NEW d \in Links,
         Resets(d) \/ DamageOut(d) \/ DamageIn(d) \/ Breaks(d)
  PROVE  Waits'
<1>1. UNCHANGED <<stage, answer>> /\ DOMAIN outbox = Links /\ DOMAIN inbox = Links
  BY LinksType DEF Resets, DamageOut, DamageIn, Breaks, control
<1>2. \A e \in Links : \/ outbox'[e] = outbox[e]
                       \/ outbox'[e] = <<>>
                       \/ outbox[e] # <<>> /\ outbox'[e] = Tail(outbox[e])
  <2>1. CASE Resets(d)
    BY <1>1, <2>1 DEF Resets
  <2>2. CASE DamageOut(d)
    BY <1>1, <2>2 DEF DamageOut, Consume
  <2>3. CASE DamageIn(d) \/ Breaks(d)
    BY <2>3 DEF DamageIn, Breaks
  <2>4. QED
    BY <2>1, <2>2, <2>3
<1>3. \A e \in Links : \A i \in DOMAIN inbox'[e] :
        Answers(inbox'[e][i]) => \E j \in DOMAIN inbox[e] : Answers(inbox[e][j])
  <2>1. CASE Resets(d)
    BY <2>1, MessageType, EmitFewer DEF Resets
  <2>2. CASE DamageOut(d)
    BY <2>2, MessageType, EmitFewer DEF DamageOut
  <2>3. CASE Breaks(d)
    BY <2>3 DEF Breaks
  <2>4. CASE DamageIn(d)
    <3> DEFINE q == inbox[d]
               r == <<Plain("BAD")>> \o Tail(q)
    <3>1. q \in Seq(Messages) /\ q # <<>> /\ inbox' = [inbox EXCEPT ![d] = r]
      BY <2>4, LinksType DEF DamageIn
    <3>2. ~Answers(Plain("BAD"))
      BY MessageType DEF Answers
    <3>3. \A i \in DOMAIN r : r[i] = Plain("BAD") \/ (i \in DOMAIN q /\ r[i] = q[i])
      BY <3>1, DamagedLines
    <3> HIDE DEF r
    <3>4. inbox'[d] = r /\ \A e \in Links \ {d} : inbox'[e] = inbox[e]
      BY <1>1, <3>1
    <3>5. QED
      BY <3>2, <3>3, <3>4
  <2>5. QED
    BY <2>1, <2>2, <2>3, <2>4
<1>4. QED
  BY <1>1, <1>2, <1>3, ShorterWaits

LEMMA NextWaits ==
  ASSUME IInv, Waits, Next
  PROVE  Waits'
<1>1. CASE Host
  <2>1. CASE Pump
    <3>1. PICK d \in Links : Take(d) \/ PortFails(d)
      BY <2>1 DEF Pump
    <3>2. CASE PortFails(d)
      <4>1. Incoming(inbox) /\ PumpFails(inbox)
        BY <3>2 DEF PortFails, IInv, LinkType
      <4>2. \A e \in Links : Suffix(inbox[e], inbox[e])
        <5>1. \A q \in Seq(Messages) : \A i \in DOMAIN q : i + 0 \in DOMAIN q
                /\ q[i] = q[i + 0]
          OBVIOUS
        <5>2. QED
          BY <5>1, LinksType DEF Suffix
      <4>3. QED
        BY <4>1, <4>2, PumpFailsWaits
    <3>3. QED
      BY <3>1, <3>2, TakeWaits
  <2>2. CASE Call
    BY <2>2, CallWaits
  <2>3. CASE Check
    BY <2>3, CheckWaits DEF Check, Expires
  <2>4. CASE Write
    BY <2>4, WriteWaits
  <2>5. QED
    BY <1>1, <2>1, <2>2, <2>3, <2>4 DEF Host
<1>2. CASE Fault
  BY <1>2, FaultWaits DEF Fault
<1>3. CASE Late
  BY <1>3, CheckWaits DEF Late
<1>4. QED
  BY <1>1, <1>2, <1>3, OpenWaits, DeviceWaits DEF Next

-----------------------------------------------------------------------------
(* The lines to the lift, and the ENABLE on its way to the base.           *)

\* Somebody waits for every HOME and every CLEAR.
AllAwaited(q) == \A i \in DOMAIN q : q[i].command \in {"HOME", "CLEAR"} => q[i].awaited

LEMMA TailLines ==
  ASSUME NEW d, NEW q \in Seq(LinesTo(d)), q # <<>>
  PROVE  /\ Head(q) \in LinesTo(d) /\ Carries(q, Head(q).command)
         /\ \A c : Carries(Tail(q), c) => Carries(q, c)
         /\ Sequenced(q, lift_session) =>
              /\ Sequenced(Tail(q), lift_session)
              /\ Head(q).session = lift_session => Owned(Tail(q), lift_session)
              /\ Head(q).session = lift_session /\ Head(q).command = "ARM"
                   => ~Carries(Tail(q), "HELLO")
         /\ Owned(q, lift_session)
              => Owned(Tail(q), lift_session) /\ Head(q).session = lift_session
         /\ OnlyHello(q, lift_session) =>
              /\ OnlyHello(Tail(q), lift_session)
              /\ Head(q).session = lift_session => Head(q).command = "HELLO"
         /\ AllAwaited(q) =>
              /\ AllAwaited(Tail(q))
              /\ Head(q).command \in {"HOME", "CLEAR"} => Head(q).awaited
<1> DEFINE t == Tail(q)
<1>1. /\ DOMAIN q = 1..Len(q) /\ Len(q) \in Nat /\ 1 \in DOMAIN q
      /\ DOMAIN t = 1..Len(q) - 1
      /\ \A i \in DOMAIN t : i + 1 \in DOMAIN q /\ t[i] = q[i + 1]
      /\ Head(q) \in LinesTo(d) /\ Head(q) = q[1]
  BY TailIndices
<1> DEFINE h == Head(q)
<1> HIDE DEF t, h
<1>2. h = q[1] /\ h \in LinesTo(d)
  BY <1>1 DEF h
<1>3. Carries(q, h.command) /\ \A c : Carries(t, c) => Carries(q, c)
  BY <1>1, <1>2 DEF Carries
<1>4. ASSUME Sequenced(q, lift_session)
      PROVE  /\ Sequenced(t, lift_session)
             /\ (h.session = lift_session => Owned(t, lift_session))
             /\ h.session = lift_session /\ h.command = "ARM" => ~Carries(t, "HELLO")
  <2>1. \A i \in DOMAIN t : i + 1 \in DOMAIN q /\ t[i] = q[i + 1] /\ 1 < i + 1
    BY <1>1
  <2>2. \A i, j \in DOMAIN t : i < j => i + 1 < j + 1
    BY <1>1
  <2>3. Sequenced(t, lift_session)
    BY <1>4, <2>1, <2>2 DEF Sequenced
  <2>4. \A i \in DOMAIN t : h.session = lift_session =>
          t[i].session = lift_session /\ (h.command = "ARM" => t[i].command # "HELLO")
    BY <1>1, <1>2, <1>4, <2>1 DEF Sequenced
  <2>5. QED
    BY <2>3, <2>4 DEF Owned, Carries
<1>5. Owned(q, lift_session) => Owned(t, lift_session) /\ h.session = lift_session
  BY <1>1, <1>2 DEF Owned
<1>6. OnlyHello(q, lift_session)
        => OnlyHello(t, lift_session) /\ (h.session = lift_session => h.command = "HELLO")
  BY <1>1, <1>2 DEF OnlyHello
<1>7. AllAwaited(q) => AllAwaited(t) /\ (h.command \in {"HOME", "CLEAR"} => h.awaited)
  BY <1>1, <1>2 DEF AllAwaited
<1>8. QED
  BY <1>2, <1>3, <1>4, <1>5, <1>6, <1>7 DEF t, h

\* Who waits does not matter for the rest.
LEMMA SameLines ==
  ASSUME NEW q, NEW r, DOMAIN r = DOMAIN q,
         \A i \in DOMAIN q : r[i].command = q[i].command /\ r[i].session = q[i].session
  PROVE  /\ \A c : Carries(r, c) <=> Carries(q, c)
         /\ Sequenced(q, lift_session) => Sequenced(r, lift_session)
         /\ Owned(q, lift_session) => Owned(r, lift_session)
         /\ OnlyHello(q, lift_session) => OnlyHello(r, lift_session)
<1>1. \A c : Carries(r, c) <=> Carries(q, c)
  BY DEF Carries
<1>2. Sequenced(q, lift_session) => Sequenced(r, lift_session)
  BY DEF Sequenced
<1>3. Owned(q, lift_session) => Owned(r, lift_session)
  BY DEF Owned
<1>4. OnlyHello(q, lift_session) => OnlyHello(r, lift_session)
  BY DEF OnlyHello
<1>5. QED
  BY <1>1, <1>2, <1>3, <1>4

LEMMA AppendLines ==
  ASSUME NEW d, NEW q \in Seq(LinesTo(d)), NEW c, NEW b \in BOOLEAN,
         Line(c, b) \in LinesTo(d)
  PROVE  LET r == Append(q, Line(c, b)) IN
         /\ r \in Seq(LinesTo(d))
         /\ \A e : Carries(r, e) <=> Carries(q, e) \/ e = c
         /\ Sequenced(q, lift_session) /\ (c = "HELLO" => OnlyHello(q, lift_session))
              => Sequenced(r, lift_session)
         /\ Owned(q, lift_session) => Owned(r, lift_session)
         /\ OnlyHello(q, lift_session) /\ c = "HELLO" => OnlyHello(r, lift_session)
         /\ AllAwaited(q) /\ (c \in {"HOME", "CLEAR"} => b) => AllAwaited(r)
<1> DEFINE l == Line(c, b)
           r == Append(q, l)
           n == Len(q)
<1>1. l.command = c /\ l.session = lift_session /\ l.awaited = b
  BY DEF Line
<1>2. /\ n \in Nat /\ DOMAIN q = 1..n /\ DOMAIN r = 1..n + 1 /\ r \in Seq(LinesTo(d))
      /\ \A i \in 1..n : r[i] = q[i]
      /\ r[n + 1] = l
  BY AppendIndices
<1> HIDE DEF l, r, n
<1>3. /\ \A i \in DOMAIN r : i = n + 1 \/ (i \in DOMAIN q /\ r[i] = q[i] /\ i < n + 1)
      /\ n + 1 \in DOMAIN r
      /\ \A i \in DOMAIN q : i \in DOMAIN r /\ r[i] = q[i]
      /\ \A i \in DOMAIN r : ~(n + 1 < i)
  BY <1>2
<1>4. \A e : Carries(r, e) <=> Carries(q, e) \/ e = c
  BY <1>1, <1>2, <1>3 DEF Carries
<1>5. ASSUME Sequenced(q, lift_session), c = "HELLO" => OnlyHello(q, lift_session)
      PROVE  Sequenced(r, lift_session)
  <2> SUFFICES ASSUME NEW i \in DOMAIN r, NEW j \in DOMAIN r, i < j,
                      r[i].session = lift_session
               PROVE  r[j].session = lift_session
                        /\ (r[i].command = "ARM" => r[j].command # "HELLO")
    BY DEF Sequenced
  <2>1. i \in DOMAIN q /\ r[i] = q[i]
    <3>1. i # n + 1
      BY <1>3
    <3>2. QED
      BY <1>3, <3>1
  <2>2. CASE j = n + 1
    <3>1. r[j].session = lift_session /\ r[j].command = c
      BY <1>1, <1>2, <2>2
    <3>2. c = "HELLO" => r[i].command = "HELLO"
      BY <1>5, <2>1 DEF OnlyHello
    <3>3. QED
      BY <3>1, <3>2
  <2>3. CASE j # n + 1
    BY <1>3, <1>5, <2>1, <2>3 DEF Sequenced
  <2>4. QED
    BY <2>2, <2>3
<1>6. Owned(q, lift_session) => Owned(r, lift_session)
  BY <1>1, <1>2, <1>3 DEF Owned
<1>7. OnlyHello(q, lift_session) /\ c = "HELLO" => OnlyHello(r, lift_session)
  BY <1>1, <1>2, <1>3 DEF OnlyHello
<1>8. AllAwaited(q) /\ (c \in {"HOME", "CLEAR"} => b) => AllAwaited(r)
  BY <1>1, <1>2, <1>3 DEF AllAwaited
<1>9. QED
  BY <1>2, <1>4, <1>5, <1>6, <1>7, <1>8 DEF r, l

\* The STOP of the lift comes behind the rest; the stop of the base holds no ENABLE.
LEMMA StopAppends ==
  ASSUME lift_session \in SessionIds, NEW q \in Seq(LinesTo("lift"))
  PROVE  q \o StopLines["lift"] = Append(q, Line("STOP", FALSE))
<1> DEFINE l == Line("STOP", FALSE)
<1>1. l \in LinesTo("lift")
  BY LineType, OwnType DEF LiftCommands
<1>2. StopLines["lift"] = <<l>>
  BY DEF StopLines
<1> HIDE DEF l
<1>3. q \o StopLines["lift"] = Append(q, l)
  BY <1>1, <1>2, AppendIsConcat
<1>4. QED
  BY <1>3 DEF l

LEMMA StopCarries ==
  ASSUME lift_session \in SessionIds, NEW q \in Seq(LinesTo("base")),
         Carries(q \o StopLines["base"], "ENABLE")
  PROVE  Carries(q, "ENABLE")
<1> DEFINE b == StopLines["base"]
           r == q \o b
<1>1. /\ b \in Seq(LinesTo("base")) /\ Len(b) = 2
      /\ b[1].command # "ENABLE" /\ b[2].command # "ENABLE"
  BY StopLinesType, OwnType, BaseIsLink
<1>2. /\ Len(r) = Len(q) + Len(b) /\ r \in Seq(LinesTo("base"))
      /\ \A i \in 1..(Len(q) + Len(b)) : r[i] = IF i <= Len(q) THEN q[i] ELSE b[i - Len(q)]
  BY <1>1, ConcatProperties
<1>3. PICK i \in DOMAIN r : r[i].command = "ENABLE"
  BY DEF Carries
<1> HIDE DEF b, r
<1>4. /\ Len(q) \in Nat /\ DOMAIN q = 1..Len(q) /\ DOMAIN r = 1..Len(r)
  BY <1>2, LenProperties
<1>5. i \in 1..(Len(q) + 2) /\ r[i] = IF i <= Len(q) THEN q[i] ELSE b[i - Len(q)]
  BY <1>1, <1>2, <1>3, <1>4
<1>6. CASE i <= Len(q)
  <2>1. i \in DOMAIN q /\ q[i].command = "ENABLE"
    BY <1>3, <1>4, <1>5, <1>6
  <2>2. QED
    BY <2>1 DEF Carries
<1>7. CASE ~(i <= Len(q))
  <2>1. i - Len(q) \in {1, 2}
    BY <1>4, <1>5, <1>7
  <2>2. r[i] = b[i - Len(q)]
    BY <1>5, <1>7
  <2>3. QED
    BY <1>1, <1>3, <2>1, <2>2
<1>8. QED
  BY <1>6, <1>7

-----------------------------------------------------------------------------
(* The invariant is kept where less is on its way.                         *)

\* Of two queues of lines to the lift, the first holds nothing to worry about that
\* the second does not hold.
Fewer(p, q, s) ==
  /\ \A c \in {"HELLO", "HOME", "CLEAR"} : Carries(p, c) => Carries(q, c)
  /\ Sequenced(q, s) => Sequenced(p, s)
  /\ Owned(q, s) => Owned(p, s)

LEMMA FewerLines ==
  ASSUME lift_session \in SessionIds, NEW q \in Seq(LinesTo("lift"))
  PROVE  /\ Fewer(q, q, lift_session) /\ Fewer(Forgotten(q), q, lift_session)
         /\ Fewer(<<>>, q, lift_session)
         /\ q # <<>> => Fewer(Tail(q), q, lift_session)
         /\ Fewer(Append(q, Line("STOP", FALSE)), q, lift_session)
         /\ Fewer(Append(Forgotten(q), Line("STOP", FALSE)), q, lift_session)
         /\ Fewer(Append(q, Line("SET", FALSE)), q, lift_session)
<1>1. Fewer(q, q, lift_session) /\ Fewer(<<>>, q, lift_session)
  BY DEF Fewer, Carries, Sequenced, Owned
<1>2. Fewer(Forgotten(q), q, lift_session) /\ Forgotten(q) \in Seq(LinesTo("lift"))
  <2> DEFINE r == Forgotten(q)
  <2>1. /\ r \in Seq(LinesTo("lift")) /\ DOMAIN r = DOMAIN q
        /\ \A i \in DOMAIN q : r[i].command = q[i].command /\ r[i].session = q[i].session
    BY ForgottenLines
  <2> HIDE DEF r
  <2>2. Fewer(r, q, lift_session)
    BY <2>1, SameLines DEF Fewer
  <2>3. QED
    BY <2>1, <2>2 DEF r
<1>3. q # <<>> => Fewer(Tail(q), q, lift_session)
  BY TailLines DEF Fewer
<1>4. ASSUME NEW p \in Seq(LinesTo("lift")), Fewer(p, q, lift_session),
             NEW c \in {"STOP", "SET"}
      PROVE  Fewer(Append(p, Line(c, FALSE)), q, lift_session)
  <2>1. Line(c, FALSE) \in LinesTo("lift") /\ c \notin {"HELLO", "HOME", "CLEAR"}
    BY LineType, OwnType DEF LiftCommands
  <2>2. LET r == Append(p, Line(c, FALSE)) IN
        /\ \A e : Carries(r, e) <=> Carries(p, e) \/ e = c
        /\ Sequenced(p, lift_session) => Sequenced(r, lift_session)
        /\ Owned(p, lift_session) => Owned(r, lift_session)
    BY <2>1, AppendLines
  <2>3. QED
    BY <1>4, <2>1, <2>2 DEF Fewer
<1>5. QED
  BY <1>1, <1>2, <1>3, <1>4

\* The views of the plug-in only come nearer, and the lift stays as it is.
Nearer ==
  /\ OneState(inbox'["lift"])
  /\ \/ Seen' = Seen /\ Told' \subseteq Told
     \/ Seen' \subseteq Told /\ Seen' # {} /\ Told' = {}

LEMMA LessLift ==
  ASSUME LiftInv, UNCHANGED <<lift, lift_session>>,
         stage' = stage \/ (stage \in {"reading", "writing"} /\ stage' \in {"reading", "writing"}),
         Fewer(outbox'["lift"], outbox["lift"], lift_session),
         stage \in Startup => OnlyHello(outbox'["lift"], lift_session),
         stage \in Configured => AllAwaited(outbox'["lift"]),
         Nearer,
         Enableable' => Enableable,
         stage = "disable" /\ Acked' => Acked \/ ~Enableable'
  PROVE  LiftInv'
<1> DEFINE q == outbox["lift"]
           p == outbox'["lift"]
<1>1. /\ stage' \in Startup <=> stage \in Startup
      /\ stage' \in Configured <=> stage \in Configured
      /\ stage' \in Opened \ {"home", "homing"} <=> stage \in Opened \ {"home", "homing"}
      /\ stage' \in Opened \ Preparing <=> stage \in Opened \ Preparing
      /\ stage' \in Startup \ {"disable"} <=> stage \in Startup \ {"disable"}
      /\ stage' \in Configured \ Enabling <=> stage \in Configured \ Enabling
      /\ stage' \in Preparing <=> stage \in Preparing
      /\ \A s \in {"home", "homing", "lift_clear", "disable"} : stage' = s <=> stage = s
  BY DEF Startup, Configured, Opened, Preparing, Enabling, Activation
<1>2. /\ Seen' \cup Told' \subseteq Seen \cup Told /\ OneState(inbox'["lift"])
      /\ Told' \subseteq Told /\ (Seen # {} => Seen' # {})
      /\ Seen' = Seen \/ (Seen' \subseteq Told /\ Told' = {})
  BY DEF Nearer
<1>3. Known' => Known
  BY <1>2 DEF Known, Current
<1>4. Views /\ InSession /\ Order /\ Requested /\ Armed /\ BaseStaysOff
  BY DEF LiftInv
<1>5. /\ \A c \in {"HELLO", "HOME", "CLEAR"} : Carries(p, c) => Carries(q, c)
      /\ Sequenced(q, lift_session) => Sequenced(p, lift_session)
      /\ Owned(q, lift_session) => Owned(p, lift_session)
  BY DEF Fewer
<1>6. Views'
  BY <1>2, <1>4 DEF Views
<1>7. InSession'
  BY <1>1, <1>2, <1>3, <1>4, <1>5 DEF InSession
<1>8. Order'
  BY <1>1, <1>2, <1>4 DEF Order, Ready
<1>9. Requested'
  <2>1. stage \in Configured => \A i \in DOMAIN p : p[i].command \in {"HOME", "CLEAR"}
          => p[i].awaited
    BY DEF AllAwaited
  <2>2. QED
    BY <1>1, <1>2, <1>4, <1>5, <2>1 DEF Requested, Ready
<1>10. Armed'
  BY <1>1, <1>2, <1>4, <1>5 DEF Armed, Settled, Ready
<1>11. BaseStaysOff'
  BY <1>1, <1>2, <1>4, <1>5 DEF BaseStaysOff, Settled, Ready
<1>12. QED
  BY <1>6, <1>7, <1>8, <1>9, <1>10, <1>11 DEF LiftInv

\* A call that fails or ends leaves little to keep.
LEMMA LeaveLift ==
  ASSUME LiftInv, UNCHANGED <<lift, lift_session>>, stage' \notin Opened,
         Fewer(outbox'["lift"], outbox["lift"], lift_session),
         OneState(inbox'["lift"]), Seen' \cup Told' \subseteq Seen \cup Told,
         Enableable' => Enableable
  PROVE  LiftInv'
<1>1. stage' \notin Startup /\ stage' \notin Configured /\ stage' # "disable"
  BY DEF Opened, Startup
<1>2. Views /\ InSession /\ BaseStaysOff
  BY DEF LiftInv
<1>3. Views'
  BY <1>2 DEF Views
<1>4. Known' => Known
  BY DEF Known, Current
<1>5. InSession'
  BY <1>1, <1>2, <1>4 DEF InSession, Fewer
<1>6. Order' /\ Requested' /\ Armed'
  BY <1>1 DEF Order, Requested, Armed
<1>7. BaseStaysOff'
  BY <1>1, <1>2 DEF BaseStaysOff, Fewer
<1>8. QED
  BY <1>3, <1>5, <1>6, <1>7 DEF LiftInv

-----------------------------------------------------------------------------
(* The invariant is kept where the plug-in goes on to another stage.        *)

\* A request of the lift comes behind the rest, of which nobody waits for anything.
LEMMA AskLines ==
  ASSUME lift_session \in SessionIds, NEW q \in Seq(LinesTo("lift")), NEW c \in LiftCommands
  PROVE  LET r == Append(Forgotten(q), Line(c, TRUE)) IN
         /\ \A e : Carries(r, e) <=> Carries(q, e) \/ e = c
         /\ Sequenced(q, lift_session) /\ (c = "HELLO" => OnlyHello(q, lift_session))
              => Sequenced(r, lift_session)
         /\ Owned(q, lift_session) => Owned(r, lift_session)
         /\ OnlyHello(q, lift_session) /\ c = "HELLO" => OnlyHello(r, lift_session)
         /\ ~Carries(q, "HOME") /\ ~Carries(q, "CLEAR") => AllAwaited(r)
<1> DEFINE f == Forgotten(q)
<1>1. /\ f \in Seq(LinesTo("lift")) /\ DOMAIN f = DOMAIN q
      /\ \A i \in DOMAIN q : f[i].command = q[i].command /\ f[i].session = q[i].session
  BY ForgottenLines
<1> HIDE DEF f
<1>2. /\ \A e : Carries(f, e) <=> Carries(q, e)
      /\ Sequenced(q, lift_session) => Sequenced(f, lift_session)
      /\ Owned(q, lift_session) => Owned(f, lift_session)
      /\ OnlyHello(q, lift_session) => OnlyHello(f, lift_session)
  BY <1>1, SameLines
<1>3. ~Carries(q, "HOME") /\ ~Carries(q, "CLEAR") => AllAwaited(f)
  BY <1>2 DEF AllAwaited, Carries
<1>4. Line(c, TRUE) \in LinesTo("lift")
  BY LineType, OwnType
<1>5. LET r == Append(f, Line(c, TRUE)) IN
      /\ \A e : Carries(r, e) <=> Carries(f, e) \/ e = c
      /\ Sequenced(f, lift_session) /\ (c = "HELLO" => OnlyHello(f, lift_session))
           => Sequenced(r, lift_session)
      /\ Owned(f, lift_session) => Owned(r, lift_session)
      /\ OnlyHello(f, lift_session) /\ c = "HELLO" => OnlyHello(r, lift_session)
      /\ AllAwaited(f) => AllAwaited(r)
  BY <1>1, <1>4, AppendLines
<1>6. QED
  BY <1>2, <1>3, <1>5 DEF f

\* What is left to read tells no more of the lift.
ToRead(unread) ==
  /\ Incoming(unread)
  /\ ToldIn(unread["lift"], lift_session) \subseteq Told /\ OneState(unread["lift"])

LEMMA EnterLines ==
  ASSUME IInv, "lift" \in Links, NEW s, NEW unread, ToRead(unread), Enter(s, unread),
         UNCHANGED lift_session
  PROVE  /\ stage' = s /\ answer' = "none"
         /\ Told' \subseteq Told /\ OneState(inbox'["lift"])
         /\ \/ outbox'["lift"] = outbox["lift"]
            \/ /\ AsksOf("lift", s) /\ Request[s].command \in LiftCommands
               /\ outbox'["lift"] =
                    Append(Forgotten(outbox["lift"]), Line(Request[s].command, TRUE))
         /\ Carries(outbox'["base"], "ENABLE")
              => Carries(outbox["base"], "ENABLE") \/ s = "enable"
         /\ (s = "disable" /\ \A i \in DOMAIN unread["lift"] : ~Answers(unread["lift"][i]))
              => ~Acked'
<1> DEFINE n == Line(Request[s].command, TRUE)
<1>1. /\ stage' = s /\ answer' = "none"
      /\ \A d \in Links :
           /\ inbox'[d] = IF AsksOf(d, s) THEN Forgotten(unread[d]) ELSE unread[d]
           /\ outbox'[d] = IF AsksOf(d, s) /\ port[d] = "open"
                           THEN Append(Forgotten(outbox[d]), n) ELSE outbox[d]
  BY DEF Enter, AsksOf
<1>2. Links = {"base", "lift"} /\ Links' = Links
  BY DEF Links
<1>3. unread["lift"] \in Seq(Messages) /\ unread["base"] \in Seq(Messages)
  BY <1>2 DEF ToRead, Incoming
<1>4. Told' \subseteq Told /\ OneState(inbox'["lift"])
  BY <1>1, <1>3, ForgottenTold DEF ToRead, Told
<1>5. AsksOf("lift", s) => Request[s].command \in LiftCommands
  BY RequestType DEF AsksOf
<1>6. ASSUME Carries(outbox'["base"], "ENABLE"), s # "enable"
      PROVE  Carries(outbox["base"], "ENABLE")
  <2>1. CASE outbox'["base"] = outbox["base"]
    BY <1>6, <2>1
  <2>2. CASE AsksOf("base", s) /\ outbox'["base"] = Append(Forgotten(outbox["base"]), n)
    <3> DEFINE q == outbox["base"]
               f == Forgotten(q)
    <3>1. q \in Seq(LinesTo("base"))
      BY <1>2, LinksType
    <3> HIDE DEF q
    <3>2. f \in Seq(LinesTo("base")) /\ (Carries(f, "ENABLE") => Carries(q, "ENABLE"))
      <4>1. /\ f \in Seq(LinesTo("base")) /\ DOMAIN f = DOMAIN q
            /\ \A i \in DOMAIN q : f[i].command = q[i].command
                 /\ f[i].session = q[i].session
        BY <3>1, ForgottenLines
      <4> HIDE DEF f
      <4>2. Carries(f, "ENABLE") <=> Carries(q, "ENABLE")
        BY <4>1, SameLines
      <4>3. QED
        BY <4>1, <4>2
    <3>3. Request[s].command \in BaseCommands /\ Request[s].command # "ENABLE"
      BY <1>6, <2>2, RequestType DEF AsksOf
    <3>4. n \in LinesTo("base")
      BY <3>3, LineType, OwnType
    <3> HIDE DEF f
    <3>5. \A e : Carries(Append(f, n), e) <=> Carries(f, e) \/ e = Request[s].command
      <4>1. ASSUME NEW c, Line(c, TRUE) \in LinesTo("base")
            PROVE  \A e : Carries(Append(f, Line(c, TRUE)), e) <=> Carries(f, e) \/ e = c
        BY <3>2, <4>1, AppendLines
      <4>2. QED
        BY <3>4, <4>1
    <3> HIDE DEF n
    <3>6. Carries(Append(f, n), "ENABLE")
      BY <1>6, <2>2 DEF f, q
    <3>7. QED
      BY <3>2, <3>3, <3>5, <3>6 DEF q
  <2>3. QED
    BY <1>1, <1>2, <2>1, <2>2
<1>7. ASSUME s = "disable", \A i \in DOMAIN unread["lift"] : ~Answers(unread["lift"][i])
      PROVE  ~Acked'
  <2>1. AsksOf("base", s) /\ ~AsksOf("lift", s)
    BY <1>7 DEF AsksOf, Request, Ask
  <2>2. /\ inbox'["base"] = Forgotten(unread["base"])
        /\ inbox'["lift"] = unread["lift"]
    BY <1>1, <1>2, <2>1
  <2>3. \A d \in Links : \A i \in DOMAIN inbox'[d] : ~Answers(inbox'[d][i])
    BY <1>2, <1>3, <1>7, <2>2, ForgottenTold
  <2>4. QED
    BY <1>1, <1>2, <2>3 DEF Acked, NoAnswer
<1>8. QED
  BY <1>1, <1>2, <1>4, <1>5, <1>6, <1>7

\* A stage of the start.
LEMMA EnterStartup ==
  ASSUME IInv, LiftInv, "lift" \in Links, stage \in Startup, NEW s \in Startup,
         NEW unread, ToRead(unread), Enter(s, unread),
         UNCHANGED <<lift, lift_session, base, seen>>,
         s # "disable" /\ stage = "disable" => Acked,
         s = "disable" => \A i \in DOMAIN unread["lift"] : ~Answers(unread["lift"][i])
  PROVE  LiftInv'
<1> DEFINE q == outbox["lift"]
           p == outbox'["lift"]
<1>1. /\ stage' = s /\ Told' \subseteq Told /\ OneState(inbox'["lift"])
      /\ Carries(outbox'["base"], "ENABLE") => Carries(outbox["base"], "ENABLE")
      /\ s = "disable" => ~Acked'
    BY EnterLines DEF Startup
<1>2. Seen' = Seen
  BY DEF Seen
<1>3. Views /\ InSession /\ Order /\ BaseStaysOff
  BY DEF LiftInv
<1>4. q \in Seq(LinesTo("lift"))
  BY LinksType
<1>5. /\ Sequenced(p, lift_session) /\ (Owned(q, lift_session) => Owned(p, lift_session))
           /\ OnlyHello(p, lift_session)
      /\ Carries(p, "HOME") => Carries(q, "HOME")
  <2>1. Sequenced(q, lift_session) /\ OnlyHello(q, lift_session)
    BY <1>3 DEF InSession
  <2>2. CASE p = q
    BY <2>1, <2>2
  <2>3. CASE /\ AsksOf("lift", s) /\ Request[s].command \in LiftCommands
             /\ p = Append(Forgotten(q), Line(Request[s].command, TRUE))
    <3>1. Request[s].command = "HELLO"
      BY <2>3 DEF AsksOf, Request, Ask, Startup
    <3>2. LET r == Append(Forgotten(q), Line("HELLO", TRUE)) IN
          /\ \A e : Carries(r, e) <=> Carries(q, e) \/ e = "HELLO"
          /\ Sequenced(r, lift_session)
          /\ (Owned(q, lift_session) => Owned(r, lift_session)) /\ OnlyHello(r, lift_session)
      BY <1>4, <2>1, OwnType, AskLines DEF LiftCommands
    <3>3. QED
      BY <2>3, <3>1, <3>2
  <2>4. QED
    BY <2>2, <2>3, EnterLines
<1>6. /\ stage' \in Startup /\ stage' \notin Configured /\ stage' \in Opened \ Preparing
      /\ stage \in Opened \ {"home", "homing"} /\ stage \in Opened \ Preparing
  BY <1>1, StageType DEF Startup, Configured, Opened, Preparing, Activation
<1>7. Views'
  BY <1>1, <1>2, <1>3 DEF Views
<1>8. InSession'
  <2>1. Known' => Known
    BY <1>1, <1>2 DEF Known
  <2>2. QED
    BY <1>1, <1>2, <1>3, <1>5, <1>6, <2>1 DEF InSession
<1>9. Order'
  BY <1>1, <1>2, <1>3, <1>6 DEF Order, Ready
<1>10. Requested' /\ Armed'
  BY <1>6 DEF Requested, Armed
<1>11. BaseStaysOff'
  <2>1. Enableable' => Enableable
    BY <1>1 DEF Enableable
  <2>2. s # "disable" => ~Enableable
    BY <1>3 DEF BaseStaysOff
  <2>3. QED
    BY <1>1, <1>3, <1>5, <1>6, <2>1, <2>2 DEF BaseStaysOff
<1>12. QED
  BY <1>7, <1>8, <1>9, <1>10, <1>11 DEF LiftInv

\* The end of the start.
LEMMA EnterReading ==
  ASSUME IInv, LiftInv, "lift" \in Links, stage = "lift_seen", Seen # {},
         NEW unread, ToRead(unread), Enter("reading", unread),
         UNCHANGED <<lift, lift_session, base, seen>>
  PROVE  LiftInv'
<1> DEFINE q == outbox["lift"]
           p == outbox'["lift"]
<1>1. /\ stage' = "reading" /\ Told' \subseteq Told /\ OneState(inbox'["lift"])
      /\ Carries(outbox'["base"], "ENABLE") =>
           Carries(outbox["base"], "ENABLE") \/ "reading" = "enable"
  BY EnterLines
<1>2. p = q
  <2>1. ~AsksOf("lift", "reading")
    BY DEF AsksOf, Request
  <2>2. QED
    BY <2>1, EnterLines
<1>3. Seen' = Seen
  BY DEF Seen
<1>4. Views /\ InSession /\ Order /\ BaseStaysOff
  BY DEF LiftInv
<1>5. /\ stage \in Startup /\ stage \in Opened \ {"home", "homing"}
      /\ stage \in Opened \ Preparing /\ stage \in Startup \ {"disable"}
      /\ stage' \notin Startup /\ stage' \notin Preparing /\ stage' # "disable"
  BY <1>1 DEF Startup, Configured, Opened, Preparing
<1>6. /\ Known /\ Sequenced(q, lift_session) /\ Owned(q, lift_session)
      /\ OnlyHello(q, lift_session) /\ lift.mode = "idle"
      /\ \A c \in Seen \cup Told : ~c.armed
  BY <1>4, <1>5 DEF InSession, Known
<1>7. ~Carries(q, "HOME") /\ ~Carries(q, "CLEAR") /\ ~Enableable
  <2>1. \A i \in DOMAIN q : q[i].command = "HELLO"
    BY <1>6 DEF Owned, OnlyHello
  <2>2. QED
    BY <1>4, <1>5, <2>1 DEF Carries, BaseStaysOff
<1>8. Views'
  BY <1>1, <1>3, <1>4 DEF Views
<1>9. InSession'
  BY <1>2, <1>3, <1>5, <1>6 DEF InSession
<1>10. Order'
  BY <1>1, <1>3, <1>4, <1>5 DEF Order, Ready
<1>11. Requested'
  BY <1>2, <1>6, <1>7 DEF Requested, Carries
<1>12. Armed'
  BY <1>1, <1>3, <1>6 DEF Armed
<1>13. BaseStaysOff'
  <2>1. ~Enableable'
    BY <1>1, <1>7 DEF Enableable
  <2>2. QED
    BY <1>5, <2>1 DEF BaseStaysOff
<1>14. QED
  BY <1>8, <1>9, <1>10, <1>11, <1>12, <1>13 DEF LiftInv

\* What holds where an active or activating plug-in goes on to stage s.
GoesOn(s) ==
  /\ ~Carries(outbox["lift"], "HOME") /\ ~Carries(outbox["lift"], "CLEAR")
  /\ stage \in Preparing /\ s \notin Preparing => Told = {} /\ \A c \in Seen : Ready(c)
  /\ stage \in {"home", "homing"} /\ s \in Preparing => s = "homing"
  /\ stage \in Enabling /\ s \notin Enabling => Told = {} /\ \A c \in Seen : c.armed
  /\ stage \in Enabling => s \notin Preparing
  /\ stage \notin Enabling /\ s \in Enabling => stage = "renew" /\ s = "enable"
  /\ s = "home" => \A c \in Seen : ~c.homed /\ c.fault = "NONE"
  /\ s = "lift_clear" => stage \notin Preparing /\ \A c \in Seen : c.fault = "COMM_TIMEOUT"
  /\ s = "homing" => stage = "home"
  /\ s = "lift_cleared" => stage = "lift_clear"
  /\ s = "enable" => stage = "renew"

LEMMA EnterConfigured ==
  ASSUME IInv, LiftInv, "lift" \in Links, stage \in Configured,
         NEW s \in Activation \cup {"reading"}, NEW unread, ToRead(unread),
         Enter(s, unread), UNCHANGED <<lift, lift_session, base, seen>>, GoesOn(s)
  PROVE  LiftInv'
<1> DEFINE q == outbox["lift"]
           p == outbox'["lift"]
<1>1. /\ stage' = s /\ Told' \subseteq Told /\ OneState(inbox'["lift"])
      /\ Carries(outbox'["base"], "ENABLE")
           => Carries(outbox["base"], "ENABLE") \/ s = "enable"
  BY EnterLines
<1>2. Seen' = Seen
  BY DEF Seen
<1>3. Views /\ InSession /\ Order /\ Requested /\ Armed /\ BaseStaysOff
  BY DEF LiftInv
<1>4. q \in Seq(LinesTo("lift"))
  BY LinksType
<1>5. /\ s \in Configured /\ s \notin Startup /\ stage \notin Startup /\ stage \in Opened
      /\ s # "disable" /\ stage # "disable" /\ s \in Opened
  BY StageType DEF Configured, Opened, Startup
<1>6. Seen # {} /\ Known /\ Owned(q, lift_session) /\ Sequenced(q, lift_session)
  BY <1>3, <1>5 DEF InSession, Known
<1>7. ~Carries(q, "HOME") /\ ~Carries(q, "CLEAR")
  BY DEF GoesOn
<1>8. /\ Sequenced(p, lift_session) /\ Owned(p, lift_session) /\ AllAwaited(p)
      /\ Carries(p, "HOME") => s = "home"
      /\ Carries(p, "CLEAR") => s = "lift_clear"
      /\ Carries(p, "HELLO") => Carries(q, "HELLO")
  <2>1. CASE p = q
    <3>1. AllAwaited(q)
      BY <1>7 DEF AllAwaited, Carries
    <3>2. QED
      BY <1>6, <1>7, <2>1, <3>1
  <2>2. CASE /\ AsksOf("lift", s) /\ Request[s].command \in LiftCommands
             /\ p = Append(Forgotten(q), Line(Request[s].command, TRUE))
    <3>1. /\ s \in {"lift_clear", "home", "arm", "hold"}
          /\ Request[s].command = "HOME" => s = "home"
          /\ Request[s].command = "CLEAR" => s = "lift_clear"
          /\ Request[s].command # "HELLO"
      <4>1. s \in DOMAIN Request /\ s # "hello"
        BY <1>5, <2>2 DEF AsksOf, Startup
      <4>2. QED
        BY <2>2, <4>1 DEF AsksOf, Request, Ask
    <3>2. \A c \in LiftCommands \ {"HELLO"} :
            LET r == Append(Forgotten(q), Line(c, TRUE)) IN
            /\ \A e : Carries(r, e) <=> Carries(q, e) \/ e = c
            /\ Sequenced(r, lift_session) /\ Owned(r, lift_session) /\ AllAwaited(r)
      BY <1>4, <1>6, <1>7, OwnType, AskLines
    <3>3. LET r == Append(Forgotten(q), Line(Request[s].command, TRUE)) IN
            /\ \A e : Carries(r, e) <=> Carries(q, e) \/ e = Request[s].command
            /\ Sequenced(r, lift_session) /\ Owned(r, lift_session) /\ AllAwaited(r)
      BY <2>2, <3>1, <3>2
    <3>4. QED
      BY <1>7, <2>2, <3>1, <3>3
  <2>3. QED
    BY <2>1, <2>2, EnterLines
\* What the stages have to do with the lift.
<1>9. s \notin {"home", "homing"} => lift.mode # "homing"
  <2>1. CASE stage \in {"home", "homing"}
    <3>1. ASSUME s \notin {"home", "homing"} PROVE \A c \in Seen : c.homed
      BY <2>1, <3>1 DEF GoesOn, Preparing, Ready
    <3>2. QED
      BY <1>3, <1>6, <3>1 DEF Requested
  <2>2. CASE stage \notin {"home", "homing"}
    BY <1>3, <2>2 DEF Requested
  <2>3. QED
    BY <2>1, <2>2
<1>10. ASSUME s = "home"
       PROVE  /\ lift.mode # "homing" /\ ~lift.homed /\ \A c \in Seen \cup Told : ~c.homed
              /\ ~Enableable
  <2>1. stage \notin {"home", "homing"} /\ stage \notin Enabling
    BY <1>10 DEF GoesOn, Preparing
  <2>2. \A c \in Seen : ~c.homed /\ c.fault = "NONE"
    BY <1>10 DEF GoesOn
  <2>3. lift.mode # "homing"
    BY <1>3, <2>1 DEF Requested
  <2>4. ~lift.homed /\ \A c \in Told : ~c.homed
    BY <1>3, <1>5, <1>6, <2>1, <2>2 DEF Order
  <2>5. ~Enableable
    <3>1. \A c \in Seen : ~Settled(c)
      BY <2>2 DEF Settled, Ready
    <3>2. QED
      BY <1>3, <1>6, <2>1, <3>1 DEF BaseStaysOff
  <2>6. QED
    BY <2>2, <2>3, <2>4, <2>5
<1>11. ASSUME s = "lift_clear"
       PROVE  /\ ~Ready(lift) /\ \A c \in Seen \cup Told : ~Ready(c)
              /\ ~Enableable
  <2>1. stage \notin Preparing /\ stage \notin Enabling
    BY <1>11 DEF GoesOn, Preparing
  <2>2. \A c \in Seen : c.fault = "COMM_TIMEOUT"
    BY <1>11 DEF GoesOn
  <2>3. \A c \in Seen : ~Ready(c) /\ ~Settled(c)
    BY <2>2 DEF Settled, Ready
  <2>4. ~Ready(lift) /\ \A c \in Told : ~Ready(c)
    BY <1>3, <1>5, <1>6, <2>1, <2>3 DEF Order
  <2>5. ~Enableable
    BY <1>3, <1>6, <2>1, <2>3 DEF BaseStaysOff
  <2>6. QED
    BY <2>3, <2>4, <2>5
<1>12. Views'
  BY <1>1, <1>2, <1>3 DEF Views
<1>13. InSession'
  BY <1>1, <1>2, <1>5, <1>6, <1>8 DEF InSession
<1>14. Order'
  <2>1. ASSUME s \notin {"home", "homing"}
        PROVE  /\ \A c \in Seen : ~c.homed => ~lift.homed /\ \A e \in Told' : ~e.homed
               /\ \A c \in Told' : ~c.homed => ~lift.homed
    <3>1. CASE stage \in {"home", "homing"}
      <4>1. s \notin Preparing
        BY <2>1, <3>1 DEF GoesOn
      <4>2. Told = {} /\ \A c \in Seen : c.homed
        BY <3>1, <4>1 DEF GoesOn, Preparing, Ready
      <4>3. QED
        BY <1>1, <4>2
    <3>2. CASE stage \notin {"home", "homing"}
      BY <1>1, <1>3, <1>5, <3>2 DEF Order
    <3>3. QED
      BY <3>1, <3>2
  <2>2. ASSUME s \notin Preparing
        PROVE  /\ \A c \in Seen : ~Ready(c) => ~Ready(lift) /\ \A e \in Told' : ~Ready(e)
               /\ \A c \in Told' : ~Ready(c) => ~Ready(lift)
    <3>1. CASE stage \in Preparing
      <4>1. Told = {} /\ \A c \in Seen : Ready(c)
        BY <2>2, <3>1 DEF GoesOn
      <4>2. QED
        BY <1>1, <4>1
    <3>2. CASE stage \notin Preparing
      BY <1>1, <1>3, <1>5, <3>2 DEF Order
    <3>3. QED
      BY <3>1, <3>2
  <2>3. QED
    BY <1>1, <1>2, <2>1, <2>2 DEF Order, Ready
<1>15. Requested'
  <2>1. Carries(p, "HOME") => s = "home" /\ lift.mode # "homing"
    BY <1>8, <1>10
  <2>2. \A i \in DOMAIN p : p[i].command \in {"HOME", "CLEAR"} => p[i].awaited
    BY <1>8 DEF AllAwaited
  <2>3. Carries(p, "HOME") \/ lift.mode = "homing" =>
          ~lift.homed /\ \A c \in Seen \cup Told' : ~c.homed
    <3>1. CASE s = "home"
      BY <1>1, <1>10, <3>1
    <3>2. CASE s # "home"
      <4>1. ASSUME lift.mode = "homing" PROVE ~lift.homed
                     /\ \A c \in Seen \cup Told : ~c.homed
        BY <1>3, <4>1 DEF Requested
      <4>2. QED
        BY <1>1, <1>8, <3>2, <4>1
    <3>3. QED
      BY <3>1, <3>2
  <2>4. Carries(p, "CLEAR") => ~Ready(lift) /\ \A c \in Seen \cup Told' : ~Ready(c)
    BY <1>1, <1>8, <1>11
  <2>5. QED
    BY <1>1, <1>2, <1>8, <1>9, <2>1, <2>2, <2>3, <2>4 DEF Requested, Ready
<1>16. Armed'
  BY <1>1, <1>2, <1>3, <1>8 DEF Armed, Settled, Ready
<1>17. BaseStaysOff'
  <2>1. Enableable' => Enableable \/ s = "enable"
    BY <1>1 DEF Enableable
  <2>2. s = "enable" => s \notin {"home", "homing"} /\ s \in Enabling
    BY DEF Enabling
  <2>3. Enableable' => ~Carries(p, "HOME") /\ lift.mode # "homing"
    <3>1. CASE s = "enable"
      BY <1>8, <1>9, <2>2, <3>1
    <3>2. CASE s # "enable"
      BY <1>3, <1>8, <1>10, <2>1, <3>2 DEF BaseStaysOff
    <3>3. QED
      BY <3>1, <3>2
  <2>4. ASSUME s \notin Enabling, Enableable'
        PROVE  /\ s \notin Preparing
               /\ ~Carries(p, "HELLO") /\ (lift.session = lift_session => Settled(lift))
               /\ \A c \in Seen \cup Told' : Settled(c)
    <3>1. Enableable
      BY <2>1, <2>2, <2>4
    <3>2. CASE stage \in Enabling
      <4>1. s \notin Preparing /\ Told = {} /\ \A c \in Seen : c.armed
        BY <2>4, <3>2 DEF GoesOn
      <4>2. ~Carries(q, "HELLO") /\ (lift.session = lift_session => Settled(lift))
        BY <1>3, <1>6, <4>1 DEF Armed
      <4>3. \A c \in Seen : Settled(c)
        BY <1>3, <4>1 DEF Views, Settled
      <4>4. QED
        BY <1>1, <1>8, <4>1, <4>2, <4>3
    <3>3. CASE stage \notin Enabling
      <4>1. /\ stage \notin Preparing
            /\ ~Carries(q, "HELLO") /\ (lift.session = lift_session => Settled(lift))
            /\ \A c \in Seen \cup Told : Settled(c)
        BY <1>3, <3>1, <3>3 DEF BaseStaysOff
      <4>2. s \notin Preparing
        BY <1>10, <1>11, <3>1, <4>1 DEF GoesOn, Preparing
      <4>3. QED
        BY <1>1, <1>8, <4>1, <4>2
    <3>4. QED
      BY <3>2, <3>3
  <2>5. QED
    BY <1>1, <1>2, <1>5, <2>3, <2>4 DEF BaseStaysOff, Settled, Ready
<1>18. QED
  BY <1>12, <1>13, <1>14, <1>15, <1>16, <1>17 DEF LiftInv

\* The stages that follow one another, and what the plug-in has seen of the lift by then.
LEMMA FollowingLift ==
  ASSUME UseLift, Done, Following # "fail", stage \in Activation
  PROVE  LET c == seen["lift"].state IN
         /\ Following \in
              {"check", "zero2", "clear", "cleared", "lift_clear", "lift_cleared", "home",
               "homing", "renew", "enable", "drive", "enabled", "arm", "hold", "armed",
               "reading"}
         /\ stage \in Preparing /\ Following \notin Preparing => Ready(c)
         /\ stage \in {"home", "homing"} /\ Following \in Preparing => Following = "homing"
         /\ stage \in Enabling /\ Following \notin Enabling => c.armed
         /\ stage \in Enabling => Following \notin Preparing
         /\ stage \notin Enabling /\ Following \in Enabling
              => stage = "renew" /\ Following = "enable"
         /\ Following = "home" => ~c.homed /\ c.fault = "NONE"
         /\ Following = "lift_clear" => stage \notin Preparing /\ c.fault = "COMM_TIMEOUT"
         /\ Following = "homing" => stage = "home"
         /\ Following = "lift_cleared" => stage = "lift_clear"
         /\ Following = "enable" => stage = "renew"
<1> DEFINE c == seen["lift"].state
<1>1. /\ LiftFirst \in {"renew", "home", "lift_clear", "fail"}
      /\ LiftFirst = "home" => ~c.homed /\ c.fault = "NONE"
      /\ LiftFirst = "lift_clear" => c.fault = "COMM_TIMEOUT"
  BY DEF LiftFirst, HomeFirst, Homed
<1>2. CASE stage \in {"check", "cleared"}
  <2>1. Following \in {"zero2", "renew", "home", "lift_clear"}
        /\ (Following \in {"home", "lift_clear"} => Following = LiftFirst)
    BY <1>1, <1>2 DEF Following
  <2>2. QED
    BY <1>1, <1>2, <2>1 DEF Preparing, Enabling
<1>3. CASE stage = "lift_cleared"
  <2>1. c.fault = "NONE"
    BY <1>3 DEF Done, NoLiftFault, Request
  <2>2. /\ Following \in {"renew", "home"} /\ (Following = "renew" => c.homed)
        /\ (Following = "home" => ~c.homed)
    BY <1>3 DEF Following, HomeFirst, Homed
  <2>3. QED
    BY <1>3, <2>1, <2>2 DEF Preparing, Enabling, Ready
<1>4. CASE stage = "homing"
  <2>1. Ready(c) /\ Following = "renew"
    BY <1>4 DEF Done, HomingDone, NoLiftFault, Homed, Request, Ready, Following
  <2>2. QED
    BY <1>4, <2>1 DEF Preparing, Enabling
<1>5. CASE stage = "armed"
  <2>1. c.armed /\ Following = "reading"
    BY <1>5 DEF Done, Request, Following
  <2>2. QED
    BY <1>5, <2>1 DEF Preparing, Enabling
<1>6. CASE stage \in {"zero", "zero2", "clear"}
  <2>1. Following \in {"check", "clear", "cleared"}
    BY <1>6 DEF Following
  <2>2. QED
    BY <1>6, <2>1 DEF Preparing, Enabling
<1>7. CASE stage \in {"lift_clear", "home"}
  <2>1. Following = IF stage = "home" THEN "homing" ELSE "lift_cleared"
    BY <1>7 DEF Following
  <2>2. QED
    BY <1>7, <2>1 DEF Preparing, Enabling
<1>8. CASE stage = "renew"
  <2>1. Following = "enable"
    BY <1>8 DEF Following
  <2>2. QED
    BY <1>8, <2>1 DEF Preparing, Enabling
<1>9. CASE stage \in {"enable", "drive", "enabled", "arm", "hold"}
  <2>1. Following \in {"drive", "enabled", "arm", "hold", "armed"}
    BY <1>9 DEF Following
  <2>2. QED
    BY <1>9, <2>1 DEF Preparing, Enabling
<1>10. QED
  BY <1>2, <1>3, <1>4, <1>5, <1>6, <1>7, <1>8, <1>9 DEF Activation

LEMMA ProceedLift ==
  ASSUME IInv, Waits, LiftInv, "lift" \in Links, Proceed, UNCHANGED <<base, lift>>
  PROVE  LiftInv'
<1>1. /\ AllRead /\ Done /\ Following # "fail" /\ Enter(Following, inbox)
      /\ UNCHANGED <<lift_session, seen>>
  BY DEF Proceed
<1>2. /\ stage \in Stages /\ stage \in Startup \cup Activation
  BY <1>1, FollowingType DEF IInv, ControlType, Stages
<1>3. inbox["lift"] = <<>> /\ Told = {} /\ UseLift
  BY <1>1 DEF AllRead, Told, ToldIn, Links
<1>4. ToRead(inbox)
  BY <1>3 DEF ToRead, IInv, LinkType, LiftInv, Views, Told
<1>5. CASE stage \in Startup
  <2>1. Following \in Startup \cup {"reading"}
    BY <1>1, <1>2, <1>5, FollowingType
  <2>2. CASE Following \in Startup
    <3>1. stage = "disable" => Acked
      BY <1>1 DEF Done, Request, Acked
    <3>2. QED
      BY <1>1, <1>3, <1>4, <1>5, <2>2, <3>1, EnterStartup
  <2>3. CASE Following = "reading"
    <3>1. stage = "lift_seen"
      BY <1>3, <1>5, <2>3 DEF Following, Startup
    <3>2. Seen # {}
      BY <1>1, <3>1 DEF Done, Request, Seen
    <3>3. QED
      BY <1>1, <1>4, <2>3, <3>1, <3>2, EnterReading
  <2>4. QED
    BY <2>1, <2>2, <2>3
<1>6. CASE stage \in Activation
  <2>1. /\ Following \in Activation \cup {"reading"} /\ stage \in Configured
        /\ stage \in Opened
    BY <1>1, <1>2, <1>6, FollowingType DEF Configured, Opened
  <2>2. NoneAsked
    <3>1. CASE stage \in DOMAIN Request
      <4>1. answer = "ok"
        BY <1>1, <3>1 DEF Done, Request
      <4>2. QED
        BY <2>1, <4>1 DEF Waits, Acked
    <3>2. CASE stage \notin DOMAIN Request
      BY <2>1, <3>2 DEF Waits
    <3>3. QED
      BY <3>1, <3>2
  <2>3. ~Carries(outbox["lift"], "HOME") /\ ~Carries(outbox["lift"], "CLEAR")
    <3>1. \A i \in DOMAIN outbox["lift"] :
            outbox["lift"][i].command \in {"HOME", "CLEAR"} => outbox["lift"][i].awaited
      BY <2>1 DEF LiftInv, Requested
    <3>2. QED
      BY <2>2, <3>1 DEF NoneAsked, Asked, Carries
  <2>4. \A c \in Seen : c = seen["lift"].state
    BY DEF Seen
  <2>5. GoesOn(Following)
    BY <1>1, <1>3, <1>6, <2>3, <2>4, FollowingLift DEF GoesOn
  <2>6. QED
    BY <1>1, <1>4, <2>1, <2>5, EnterConfigured
<1>7. QED
  BY <1>2, <1>5, <1>6

LEMMA ActivateLift ==
  ASSUME IInv, LiftInv, "lift" \in Links, Activate, UNCHANGED <<base, lift>>
  PROVE  LiftInv'
<1>1. stage = "reading" /\ Enter("zero", inbox) /\ UNCHANGED <<lift_session, seen>>
  BY DEF Activate
<1>2. ToRead(inbox)
  BY DEF ToRead, IInv, LinkType, LiftInv, Views, Told
<1>3. stage \in Configured /\ "zero" \in Activation \cup {"reading"}
  BY <1>1 DEF Configured, Activation
<1>4. ~Carries(outbox["lift"], "HOME") /\ ~Carries(outbox["lift"], "CLEAR")
  BY <1>1, <1>3 DEF LiftInv, Requested
<1>5. GoesOn("zero")
  BY <1>1, <1>4 DEF GoesOn, Preparing, Enabling
<1>6. QED
  BY <1>1, <1>2, <1>3, <1>5, EnterConfigured

-----------------------------------------------------------------------------
(* The invariant is kept by the other steps of the plug-in.                 *)

\* A stop adds nothing to worry about.
LEMMA StopFewer ==
  ASSUME IInv, "lift" \in Links, NEW lines, SafeStop(lines),
         lines["lift"] = outbox["lift"], lines["base"] \in Seq(LinesTo("base")),
         Carries(lines["base"], "ENABLE") => Carries(outbox["base"], "ENABLE")
  PROVE  /\ Fewer(outbox'["lift"], outbox["lift"], lift_session)
         /\ Carries(outbox'["base"], "ENABLE") => Carries(outbox["base"], "ENABLE")
<1> DEFINE q == outbox["lift"]
           b == lines["base"]
           f == Forgotten(b)
<1>1. Links = {"base", "lift"} /\ q \in Seq(LinesTo("lift"))
  BY LinksType DEF Links
<1>2. outbox'["lift"] = Forgotten(q) \o (IF port["lift"] = "open" THEN StopLines["lift"] ELSE <<>>)
  BY DEF SafeStop
<1>3. Fewer(outbox'["lift"], q, lift_session)
  <2> DEFINE g == Forgotten(q)
  <2>1. g \in Seq(LinesTo("lift"))
    BY <1>1, ForgottenLines
  <2>2. g \o <<>> = g /\ g \o StopLines["lift"] = Append(g, Line("STOP", FALSE))
    BY <2>1, StopAppends, OwnType, ConcatEmptySeq
  <2>3. QED
    BY <1>1, <1>2, <2>2, OwnType, FewerLines
<1>4. /\ f \in Seq(LinesTo("base")) /\ (Carries(f, "ENABLE") => Carries(b, "ENABLE"))
  <2>1. /\ f \in Seq(LinesTo("base")) /\ DOMAIN f = DOMAIN b
        /\ \A i \in DOMAIN b : f[i].command = b[i].command /\ f[i].session = b[i].session
    BY ForgottenLines
  <2> HIDE DEF f, b
  <2>2. Carries(f, "ENABLE") <=> Carries(b, "ENABLE")
    BY <2>1, SameLines
  <2>3. QED
    BY <2>1, <2>2
<1>5. outbox'["base"] = f \o StopLines["base"] \/ outbox'["base"] = f
  <2>1. outbox'["base"] = f \o (IF port["base"] = "open" THEN StopLines["base"] ELSE <<>>)
    BY <1>1 DEF SafeStop
  <2>2. f \o <<>> = f
    BY <1>4, ConcatEmptySeq
  <2>3. QED
    BY <2>1, <2>2
<1>6. Carries(outbox'["base"], "ENABLE") => Carries(f, "ENABLE")
  <2> HIDE DEF f
  <2>1. QED
    BY <1>4, <1>5, StopCarries, OwnType
<1>7. QED
  BY <1>3, <1>4, <1>6

LEMMA FailLift ==
  ASSUME IInv, LiftInv, "lift" \in Links, UNCHANGED <<base, lift>>,
         NEW lines, NEW unread, ToRead(unread), FailAfter(lines, unread),
         lines["lift"] = outbox["lift"], lines["base"] \in Seq(LinesTo("base")),
         Carries(lines["base"], "ENABLE") => Carries(outbox["base"], "ENABLE")
  PROVE  LiftInv'
<1>1. /\ SafeStop(lines) /\ stage' = "error" /\ inbox' = unread
      /\ UNCHANGED <<lift_session, seen>>
  BY DEF FailAfter
<1>2. stage' \notin Opened
  BY <1>1, StageType DEF Opened, Configured
<1>3. Seen' = Seen /\ Told' \subseteq Told /\ OneState(inbox'["lift"])
  BY <1>1 DEF Seen, Told, ToRead
<1>4. Fewer(outbox'["lift"], outbox["lift"], lift_session) /\ (Enableable' => Enableable)
  BY <1>1, StopFewer DEF Enableable
<1>5. QED
  BY <1>1, <1>2, <1>3, <1>4, LeaveLift

LEMMA CloseLift ==
  ASSUME IInv, LiftInv, "lift" \in Links, UNCHANGED <<base, lift>>,
         SafeStop(outbox), ClosePorts
  PROVE  LiftInv'
<1>1. /\ stage' = "closed" /\ seen'["lift"] = Unseen /\ inbox'["lift"] = <<>>
      /\ UNCHANGED lift_session
  BY DEF ClosePorts, ResetRuntimeState
<1>2. stage' \notin Opened
  BY <1>1, StageType DEF Opened, Configured
<1>3. Seen' = {} /\ Told' = {} /\ OneState(inbox'["lift"])
  BY <1>1 DEF Seen, Unseen, Told, ToldIn, OneState
<1>4. outbox["base"] \in Seq(LinesTo("base"))
  BY BaseIsLink, LinksType
<1>5. Fewer(outbox'["lift"], outbox["lift"], lift_session) /\ (Enableable' => Enableable)
  BY <1>4, StopFewer DEF Enableable
<1>6. QED
  BY <1>1, <1>2, <1>3, <1>5, LeaveLift

LEMMA AgainLift ==
  ASSUME IInv, LiftInv, "lift" \in Links, UNCHANGED <<base, lift>>,
         NEW s, NEW unread, ToRead(unread), Again(s, unread),
         \/ /\ stage \in {"disable", "base_seen"} /\ s = "disable"
            /\ \A i \in DOMAIN unread["lift"] : ~Answers(unread["lift"][i])
         \/ stage \in {"hello", "lift_seen"} /\ s = "hello"
  PROVE  LiftInv'
<1>1. CASE Enter(s, unread) /\ UNCHANGED <<lift_session, seen>>
  <2>1. stage \in Startup /\ s \in Startup
    BY DEF Startup
  <2>2. QED
    BY <1>1, <2>1, EnterStartup
<1>2. CASE GiveUp
  BY <1>2, CloseLift DEF GiveUp
<1>3. QED
  BY <1>1, <1>2 DEF Again

\* Nothing is written, and the lift does not move.
LEMMA QuietLift ==
  ASSUME IInv, LiftInv, "lift" \in Links, UNCHANGED <<lift, lift_session>>,
         stage' = stage \/ (stage \in {"reading", "writing"} /\ stage' \in {"reading", "writing"}),
         outbox'["lift"] = outbox["lift"], Nearer, Enableable' => Enableable,
         stage = "disable" /\ Acked' => Acked \/ ~Enableable'
  PROVE  LiftInv'
<1>1. Fewer(outbox'["lift"], outbox["lift"], lift_session)
  BY LinksType, OwnType, FewerLines
<1>2. /\ stage \in Startup => OnlyHello(outbox'["lift"], lift_session)
      /\ stage \in Configured => AllAwaited(outbox'["lift"])
  BY DEF LiftInv, InSession, Requested, AllAwaited
<1>3. QED
  BY <1>1, <1>2, LessLift

\* What is left to read of both links.
LEMMA SuffixRead ==
  ASSUME IInv, LiftInv, "lift" \in Links, NEW unread, Incoming(unread),
         \A d \in Links : Suffix(unread[d], inbox[d])
  PROVE  /\ ToRead(unread)
         /\ \A d \in Links : \A i \in DOMAIN unread[d] :
              Answers(unread[d][i]) => \E j \in DOMAIN inbox[d] : Answers(inbox[d][j])
<1>1. \A d \in Links : unread[d] \in Seq(Messages) /\ inbox[d] \in Seq(Messages)
  BY LinksType DEF Incoming
<1>2. ToRead(unread)
  BY <1>1, SuffixKeeps DEF ToRead, Told, LiftInv, Views
<1>3. \A d \in Links : (\A i \in DOMAIN inbox[d] : ~Answers(inbox[d][i])) =>
                       \A i \in DOMAIN unread[d] : ~Answers(unread[d][i])
  BY <1>1, SuffixKeeps
<1>4. QED
  BY <1>2, <1>3

LEMMA PumpFailsLift ==
  ASSUME IInv, Waits, LiftInv, "lift" \in Links, UNCHANGED <<base, lift>>,
         NEW unread, Incoming(unread), PumpFails(unread),
         \A d \in Links : Suffix(unread[d], inbox[d])
  PROVE  LiftInv'
<1>1. /\ ToRead(unread)
      /\ \A d \in Links : \A i \in DOMAIN unread[d] :
           Answers(unread[d][i]) => \E j \in DOMAIN inbox[d] : Answers(inbox[d][j])
  BY SuffixRead
<1>2. CASE stage \in {"disable", "base_seen"} /\ Again("disable", unread)
  <2>1. ~AsksOf("lift", stage) /\ stage \in Opened
    BY <1>2 DEF AsksOf, Request, Ask, Opened, Startup
  <2>2. \A i \in DOMAIN unread["lift"] : ~Answers(unread["lift"][i])
    BY <1>1, <2>1 DEF Waits
  <2>3. QED
    BY <1>1, <1>2, <2>2, AgainLift
<1>3. CASE stage \in {"hello", "lift_seen"} /\ Again("hello", unread)
  BY <1>1, <1>3, AgainLift
<1>4. CASE Fail(unread)
  <2>1. outbox["base"] \in Seq(LinesTo("base"))
    BY BaseIsLink, LinksType
  <2>2. QED
    BY <1>1, <1>4, <2>1, FailLift DEF Fail
<1>5. CASE stage = "lift_seen" /\ inbox' = unread
             /\ UNCHANGED <<stage, lift_session, outbox, seen>>
  <2>1. Nearer
    BY <1>1, <1>5 DEF Nearer, ToRead, Seen, Told
  <2>2. Enableable' => Enableable
    BY <1>5 DEF Enableable
  <2>3. QED
    BY <1>5, <2>1, <2>2, QuietLift
<1>6. QED
  BY <1>2, <1>3, <1>4, <1>5 DEF PumpFails

LEMMA TakeLift ==
  ASSUME IInv, Waits, LiftInv, "lift" \in Links, UNCHANGED <<base, lift>>,
         NEW d \in Links, Take(d)
  PROVE  LiftInv'
<1> DEFINE l == Head(inbox[d])
           rest == Tail(inbox[d])
<1>1. inbox[d] \in Seq(Messages) /\ inbox[d] # <<>> /\ DOMAIN inbox = Links
  BY LinksType DEF Take
<1>2. /\ rest \in Seq(Messages) /\ Suffix(rest, inbox[d])
      /\ \A k \in 0..Len(rest) :
           /\ SubSeq(rest, k + 1, Len(rest)) \in Seq(Messages)
           /\ Suffix(SubSeq(rest, k + 1, Len(rest)), inbox[d])
  BY <1>1, SuffixRest, TailIndices
<1>3. CASE \E k \in 0..Len(rest) :
             PumpFails([inbox EXCEPT ![d] = SubSeq(rest, k + 1, Len(rest))])
  <2>1. PICK k \in 0..Len(rest) :
          PumpFails([inbox EXCEPT ![d] = SubSeq(rest, k + 1, Len(rest))])
    BY <1>3
  <2> DEFINE r == SubSeq(rest, k + 1, Len(rest))
             unread == [inbox EXCEPT ![d] = r]
  <2>2. r \in Seq(Messages) /\ Suffix(r, inbox[d])
    BY <1>2
  <2> HIDE DEF r
  <2>3. Incoming(unread) /\ \A e \in Links : Suffix(unread[e], inbox[e])
    BY <2>2, UnreadSuffix DEF Incoming, IInv, LinkType
  <2> HIDE DEF unread
  <2>4. PumpFails(unread)
    BY <2>1 DEF unread, r
  <2>5. QED
    BY <2>3, <2>4, PumpFailsLift
<1>4. CASE /\ inbox' = [inbox EXCEPT ![d] = rest]
           /\ seen' = IF l.kind = "STATE" /\ (d = "lift" => l.session = lift_session)
                      THEN [seen EXCEPT ![d] = [seen |-> TRUE, state |-> l.state]]
                      ELSE seen
           /\ answer' = CASE l.kind = "HELLO" /\ stage = "hello" -> "ok"
                          [] l.kind = "OK" /\ l.awaited -> "ok"
                          [] l.kind = "NO" /\ l.awaited -> "no"
                          [] OTHER -> answer
           /\ UNCHANGED <<stage, lift_session, outbox>>
  <2>1. 1 \in DOMAIN inbox[d] /\ inbox[d][1] = l
        /\ \A i \in DOMAIN rest : i + 1 \in DOMAIN inbox[d] /\ rest[i] = inbox[d][i + 1]
        /\ DOMAIN rest = 1..Len(inbox[d]) - 1 /\ Len(inbox[d]) \in Nat
    BY <1>1, TailIndices
  <2>2. inbox'[d] = rest /\ \A e \in Links \ {d} : inbox'[e] = inbox[e]
    BY <1>1, <1>4
  <2>3. /\ ToldIn(rest, lift_session) \subseteq ToldIn(inbox[d], lift_session)
        /\ (OneState(inbox[d]) => OneState(rest))
    BY <1>1, <1>2, SuffixKeeps
  <2>4. OneState(inbox["lift"])
    BY DEF LiftInv, Views
  <2> HIDE DEF l, rest
  <2>5. Told' \subseteq Told /\ OneState(inbox'["lift"])
    BY <1>4, <2>2, <2>3, <2>4 DEF Told
  <2>6. Nearer
    <3>1. CASE d = "lift" /\ l.kind = "STATE" /\ l.session = lift_session
      <4>1. Seen' = {l.state}
        <5>1. seen'["lift"] = [seen |-> TRUE, state |-> l.state]
          BY <1>4, <3>1 DEF IInv, LinkType
        <5>2. QED
          BY <5>1 DEF Seen
      <4>2. l.state \in Told
        BY <2>1, <3>1 DEF Told, ToldIn
      <4>3. \A i \in DOMAIN rest : rest[i].kind # "STATE"
        <5>1. \A i \in DOMAIN rest : i + 1 # 1
          BY <2>1
        <5>2. QED
          BY <2>1, <2>4, <3>1, <5>1 DEF OneState
      <4>4. Told' = {}
        BY <1>4, <2>2, <3>1, <4>3 DEF Told, ToldIn
      <4>5. QED
        BY <2>5, <4>1, <4>2, <4>4 DEF Nearer
    <3>2. CASE ~(d = "lift" /\ l.kind = "STATE" /\ l.session = lift_session)
      <4>1. seen'["lift"] = seen["lift"]
        BY <1>4, <3>2 DEF IInv, LinkType
      <4>2. QED
        BY <2>5, <4>1 DEF Nearer, Seen
    <3>3. QED
      BY <3>1, <3>2
  <2>7. Enableable' => Enableable
    BY <1>4 DEF Enableable
  <2>8. ASSUME stage = "disable", Acked' PROVE Acked
    <3>1. Links' = Links
      BY DEF Links
    <3>2. l.kind = "OK" /\ l.awaited => Acked
      BY <2>1 DEF Acked, NoAnswer, Answers
    <3>3. answer' = "ok" => Acked
      BY <1>4, <2>8, <3>2 DEF Acked
    <3>4. \A e \in Links : \A i \in DOMAIN inbox'[e] :
            \E j \in DOMAIN inbox[e] : inbox[e][j] = inbox'[e][i]
      BY <2>1, <2>2
    <3>5. ~NoAnswer' => Acked
      BY <3>1, <3>4 DEF Acked, NoAnswer
    <3>6. QED
      BY <2>8, <3>3, <3>5 DEF Acked
  <2>9. QED
    BY <1>4, <2>6, <2>7, <2>8, QuietLift
<1>5. QED
  BY <1>3, <1>4 DEF Take

LEMMA CheckLift ==
  ASSUME IInv, Waits, LiftInv, "lift" \in Links, UNCHANGED <<base, lift>>,
         TimeOut \/ Proceed \/ CannotProceed \/ ReadDone
  PROVE  LiftInv'
<1>1. Incoming(inbox) /\ ToRead(inbox)
  BY DEF ToRead, IInv, LinkType, LiftInv, Views, Told
<1>2. ASSUME Fail(inbox) PROVE LiftInv'
  <2>1. outbox["base"] \in Seq(LinesTo("base"))
    BY BaseIsLink, LinksType
  <2>2. QED
    BY <1>1, <1>2, <2>1, FailLift DEF Fail
<1>3. ASSUME NEW s, Again(s, inbox),
             \/ stage \in {"disable", "base_seen"} /\ s = "disable"
             \/ stage \in {"hello", "lift_seen"} /\ s = "hello"
      PROVE  LiftInv'
  <2>1. s = "disable" => \A i \in DOMAIN inbox["lift"] : ~Answers(inbox["lift"][i])
    <3>1. s = "disable" => ~AsksOf("lift", stage) /\ stage \in Opened
      BY <1>3 DEF AsksOf, Request, Ask, Opened, Startup
    <3>2. QED
      BY <3>1 DEF Waits
  <2>2. QED
    BY <1>1, <1>3, <2>1, AgainLift
<1>4. CASE TimeOut
  BY <1>2, <1>3, <1>4 DEF TimeOut
<1>5. CASE CannotProceed
  BY <1>2, <1>3, <1>5 DEF CannotProceed
<1>6. CASE ReadDone
  <2>1. CASE stage' = "writing" /\ UNCHANGED <<lift_session, outbox, inbox, seen>>
    <3>1. Nearer
      BY <1>1, <2>1 DEF Nearer, ToRead, Seen, Told
    <3>2. Enableable' => Enableable
      BY <2>1 DEF Enableable
    <3>3. stage = "reading"
      BY <1>6 DEF ReadDone
    <3>4. QED
      BY <2>1, <3>1, <3>2, <3>3, QuietLift
  <2>2. QED
    BY <1>2, <1>6, <2>1 DEF ReadDone
<1>7. QED
  BY <1>4, <1>5, <1>6, ProceedLift

LEMMA CallLift ==
  ASSUME IInv, LiftInv, "lift" \in Links, UNCHANGED <<base, lift>>, Call
  PROVE  LiftInv'
<1>1. CASE Deactivate
  <2>1. /\ stage = "reading" /\ SafeStop(outbox)
        /\ UNCHANGED <<stage, lift_session, inbox, seen>>
        /\ outbox["base"] \in Seq(LinesTo("base"))
    BY <1>1, BaseIsLink, LinksType DEF Deactivate
  <2>2. Fewer(outbox'["lift"], outbox["lift"], lift_session) /\ (Enableable' => Enableable)
    BY <2>1, StopFewer DEF Enableable
  <2>3. AllAwaited(outbox'["lift"])
    <3>1. ~Carries(outbox["lift"], "HOME") /\ ~Carries(outbox["lift"], "CLEAR")
      BY <2>1 DEF LiftInv, Requested, Configured
    <3>2. QED
      BY <2>2, <3>1 DEF Fewer, AllAwaited, Carries
  <2>4. Nearer
    BY <2>1 DEF Nearer, Seen, Told, LiftInv, Views
  <2>5. stage \notin Startup
    BY <2>1 DEF Startup
  <2>6. QED
    BY <2>1, <2>2, <2>3, <2>4, <2>5, LessLift
<1>2. QED
  BY <1>1, ActivateLift, CloseLift DEF Call, Cleanup

LEMMA WriteLift ==
  ASSUME IInv, LiftInv, "lift" \in Links, UNCHANGED <<base, lift>>, Write
  PROVE  LiftInv'
<1> DEFINE q == outbox["lift"]
           b == outbox["base"]
<1>1. /\ q \in Seq(LinesTo("lift")) /\ b \in Seq(LinesTo("base"))
      /\ Links = {"base", "lift"} /\ stage = "writing"
      /\ DOMAIN outbox = Links
  BY LinksType DEF Links, Write
<1>2. ToRead(inbox)
  BY DEF ToRead, IInv, LinkType, LiftInv, Views, Told
<1>3. ASSUME NEW c \in {"CMD0", "CMDV"}
      PROVE  /\ Carries(Append(b, Line(c, FALSE)), "ENABLE") => Carries(b, "ENABLE")
             /\ Append(b, Line(c, FALSE)) \in Seq(LinesTo("base"))
  <2>1. Line(c, FALSE) \in LinesTo("base") /\ c # "ENABLE"
    BY LineType, OwnType DEF BaseCommands
  <2> HIDE DEF b
  <2>2. /\ \A e : Carries(Append(b, Line(c, FALSE)), e) <=> Carries(b, e) \/ e = c
        /\ Append(b, Line(c, FALSE)) \in Seq(LinesTo("base"))
    BY <1>1, <2>1, AppendLines
  <2>3. QED
    BY <2>1, <2>2
<1>4. CASE Fail(inbox)
  BY <1>1, <1>2, <1>4, FailLift DEF Fail
<1>5. CASE FailAfter([outbox EXCEPT !["base"] = Append(@, Line("CMDV", FALSE))], inbox)
  <2> DEFINE lines == [outbox EXCEPT !["base"] = Append(b, Line("CMDV", FALSE))]
  <2>1. lines["lift"] = q /\ lines["base"] = Append(b, Line("CMDV", FALSE))
    BY <1>1
  <2>2. FailAfter(lines, inbox)
    BY <1>5
  <2> HIDE DEF lines
  <2>3. QED
    BY <1>2, <1>3, <2>1, <2>2, FailLift
<1>6. ASSUME NEW v \in {"CMD0", "CMDV"},
             outbox' = [d \in Links |->
               Append(outbox[d], Line(IF d = "base" THEN v ELSE "SET", FALSE))],
             stage' = "reading", UNCHANGED <<lift_session, inbox, seen>>
      PROVE  LiftInv'
  <2>1. /\ outbox'["lift"] = Append(q, Line("SET", FALSE))
        /\ outbox'["base"] = Append(b, Line(v, FALSE))
    BY <1>1, <1>6
  <2>2. Fewer(outbox'["lift"], q, lift_session) /\ (Enableable' => Enableable)
    BY <1>1, <1>3, <2>1, OwnType, FewerLines DEF Enableable
  <2>3. AllAwaited(outbox'["lift"])
    <3>1. ~Carries(q, "HOME") /\ ~Carries(q, "CLEAR")
      BY <1>1 DEF LiftInv, Requested, Configured
    <3>2. QED
      BY <2>2, <3>1 DEF Fewer, AllAwaited, Carries
  <2>4. Nearer
    BY <1>6 DEF Nearer, Seen, Told, LiftInv, Views
  <2>5. stage \notin Startup
    BY <1>1 DEF Startup
  <2>6. QED
    BY <1>1, <1>6, <2>2, <2>3, <2>4, <2>5, LessLift
<1>7. QED
  BY <1>4, <1>5, <1>6 DEF Write

\* configure() ends the session of all that is on its way, and nothing is known any more.
LEMMA OpenLift ==
  ASSUME IInv, LiftInv, "lift" \in Links, Open
  PROVE  LiftInv'
<1> DEFINE q == outbox["lift"]
           r == outbox'["lift"]
           b == outbox["base"]
           f == Forgotten(b)
<1>1. Links = {"base", "lift"} /\ Links' = Links
  BY DEF Links
<1>2. /\ stage' = "disable" /\ answer' = "none" /\ UNCHANGED base
      /\ inbox'["lift"] = <<>> /\ inbox'["base"] = <<>> /\ seen'["lift"] = Unseen
      /\ r = Forgotten(q) /\ outbox'["base"] = Append(f, Line("DISABLE", TRUE))
      /\ UNCHANGED lift
  BY <1>1 DEF Open, Configure, ResetRuntimeState
<1>3. Seen' = {} /\ Told' = {} /\ OneState(inbox'["lift"])
  <2>1. seen'["lift"] = Unseen /\ inbox'["lift"] = <<>>
    BY <1>2
  <2>2. QED
    BY <2>1 DEF Seen, Unseen, Told, ToldIn, OneState
<1>4. /\ lift.session # lift_session'
      /\ \A i \in DOMAIN q : q[i].session # lift_session'
  BY <1>1 DEF Open, Configure, InUse
<1>5. q \in Seq(LinesTo("lift")) /\ b \in Seq(LinesTo("base"))
  BY <1>1, LinksType
<1>6. DOMAIN r = DOMAIN q
      /\ \A i \in DOMAIN q : r[i].command = q[i].command /\ r[i].session # lift_session'
  <2>1. r = Forgotten(q)
    BY <1>2
  <2> HIDE DEF q, r
  <2>2. QED
    BY <1>4, <1>5, <2>1, ForgottenLines
<1>7. Enableable' => Enableable
  <2>1. /\ f \in Seq(LinesTo("base")) /\ DOMAIN f = DOMAIN b
        /\ \A i \in DOMAIN b : f[i].command = b[i].command /\ f[i].session = b[i].session
    BY <1>5, ForgottenLines
  <2>2. Line("DISABLE", TRUE) \in LinesTo("base")
    BY LineType, OwnType DEF BaseCommands
  <2> HIDE DEF f, b
  <2>3. Carries(f, "ENABLE") <=> Carries(b, "ENABLE")
    BY <2>1, SameLines
  <2>4. \A e : Carries(Append(f, Line("DISABLE", TRUE)), e) <=> Carries(f, e)
          \/ e = "DISABLE"
    BY <2>1, <2>2, AppendLines
  <2>5. QED
    BY <1>2, <2>3, <2>4 DEF Enableable, b
<1>8. ~Acked'
  <2>1. answer' = "none" /\ inbox'["base"] = <<>> /\ inbox'["lift"] = <<>>
    BY <1>2
  <2>2. \A d \in Links : inbox'[d] = <<>>
    BY <1>1, <2>1
  <2>3. QED
    BY <1>1, <2>1, <2>2 DEF Acked, NoAnswer
<1> HIDE DEF q, r
<1>9. Carries(r, "HOME") => Carries(q, "HOME")
  BY <1>6 DEF Carries
<1>10. Sequenced(r, lift_session') /\ OnlyHello(r, lift_session')
  BY <1>6 DEF Sequenced, OnlyHello
<1>11. /\ stage' \in Startup /\ stage' \notin Configured
  BY <1>2, StageType DEF Startup, Configured, Activation
<1>12. Views'
  BY <1>2, <1>3 DEF Views, Ready, LiftInv
<1>13. InSession'
  BY <1>2, <1>3, <1>4, <1>10, <1>11 DEF InSession, Known, Current, r
<1>14. Order' /\ Requested' /\ Armed'
  BY <1>3, <1>11 DEF Order, Requested, Armed
<1>15. BaseStaysOff'
  <2>1. Enableable => ~Carries(q, "HOME") /\ lift.mode # "homing"
    BY DEF LiftInv, BaseStaysOff, q
  <2>2. QED
    BY <1>2, <1>4, <1>7, <1>8, <1>9, <1>11, <2>1 DEF BaseStaysOff, r
<1>16. QED
  BY <1>12, <1>13, <1>14, <1>15 DEF LiftInv

-----------------------------------------------------------------------------
(* The invariant is kept by the base.                                       *)

LEMMA BaseLift ==
  ASSUME IInv, Waits, LiftInv, "lift" \in Links, BaseStep
  PROVE  LiftInv'
<1>0. Links = {"base", "lift"} /\ base \in BaseStates
  BY DEF Links, IInv, DeviceType
<1>1. CASE BaseAges \/ BaseLapses \/ BaseWraps \/ EstopByHand
  <2>1. UNCHANGED <<stage, answer, lift_session, outbox, inbox, seen, lift>>
    BY <1>1 DEF BaseAges, BaseLapses, BaseWraps, EstopByHand, host, control
  <2>2. base'.enabled => base.enabled
    BY <1>0, <1>1, BaseChangeType DEF BaseAges, BaseLapses, BaseWraps, EstopByHand
  <2>3. Nearer /\ (Enableable' => Enableable)
    BY <2>1, <2>2 DEF Nearer, Seen, Told, LiftInv, Views, Enableable
  <2>4. Acked' => Acked
    BY <1>0, <2>1 DEF Acked, NoAnswer, Links
  <2>5. QED
    BY <2>1, <2>3, <2>4, QuietLift
<1>2. CASE BaseReports
  <2> DEFINE r == [enabled |-> base.enabled, fault |-> base.fault,
                   errors |-> base.errors, restarts |-> base.restarts]
  <2>1. UNCHANGED <<stage, answer, lift_session, outbox, seen, lift, base>>
        /\ Emit("base", State(NoSession, r))
    BY <1>2 DEF BaseReports, control
  <2>2. r \in BaseReport
    BY DEF IInv, DeviceType, BaseStates, BaseReport
  <2> HIDE DEF r
  <2>3. State(NoSession, r) \in Messages /\ State(NoSession, r).kind # "OK"
    BY <2>2, MessageType DEF State, SessionIds
  <2>4. \A e \in Links : \A i \in DOMAIN inbox'[e] :
          Answers(inbox'[e][i]) => \E j \in DOMAIN inbox[e] : Answers(inbox[e][j])
    BY <2>1, <2>3, BaseIsLink, EmitFewer
  <2>5. inbox'["lift"] = inbox["lift"]
    BY <2>1, LinksType DEF Emit
  <2>6. Nearer /\ (Enableable' => Enableable)
    BY <2>1, <2>5 DEF Nearer, Seen, Told, LiftInv, Views, Enableable
  <2>7. Acked' => Acked
    BY <1>0, <2>1, <2>4 DEF Acked, NoAnswer, Links
  <2>8. QED
    BY <2>1, <2>6, <2>7, QuietLift
<1>3. CASE BaseReads
  <2> DEFINE q == outbox["base"]
             l == Head(q)
             t == Tail(q)
  <2>1. /\ q # <<>> /\ outbox'["base"] = t /\ outbox'["lift"] = outbox["lift"]
        /\ base' = IF BaseAccepts(base, l.command) THEN BaseAfter(base, l.command) ELSE base
        /\ Respond("base", BaseAccepts(base, l.command), l)
        /\ UNCHANGED <<stage, answer, lift_session, seen, lift>>
    BY <1>3, LinksType DEF BaseReads, Reads, Consume, control
  <2>2. /\ q \in Seq(LinesTo("base")) /\ l \in LinesTo("base") /\ Carries(q, l.command)
        /\ \A c : Carries(t, c) => Carries(q, c)
    BY <1>0, <2>1, LinksType, TailLines
  <2>3. /\ Len(q) \in Nat \ {0} /\ DOMAIN q = 1..Len(q) /\ l = q[1] /\ 1 \in DOMAIN q
        /\ DOMAIN t = 1..Len(q) - 1
    BY <2>1, <2>2, TailIndices
  <2> HIDE DEF q, l, t
  <2>4. base'.enabled => base.enabled \/ l.command = "ENABLE"
    <3>1. l.command \in BaseCommands
      BY <2>2 DEF LinesTo
    <3>2. QED
      BY <1>0, <2>1, <3>1 DEF BaseAfter, BaseCommands, BaseStates
  <2>5. Enableable' => Enableable
    BY <2>1, <2>2, <2>4 DEF Enableable, q
  <2>6. inbox'["lift"] = inbox["lift"]
    BY <2>1, LinksType DEF Respond, Emit
  <2>7. Nearer
    BY <2>1, <2>6 DEF Nearer, Seen, Told, LiftInv, Views
  <2>8. ASSUME stage = "disable", Acked', ~Acked PROVE ~Enableable'
    <3>1. BaseAccepts(base, l.command) /\ l.awaited
      <4>1. ~NoAnswer' /\ NoAnswer
        BY <2>1, <2>8 DEF Acked
      <4>2. inbox' # inbox
        BY <4>1 DEF NoAnswer, Links
      <4>3. ASSUME NEW k \in {"OK", "NO", "HELLO"}, Emit("base", Reply(k, l))
            PROVE  k = "OK" /\ l.awaited
        <5>1. /\ Reply(k, l) \in Messages /\ Reply(k, l).kind = k
              /\ Reply(k, l).awaited = l.awaited
          BY <1>0, <2>2, MessageType DEF Reply
        <5>2. CASE k = "OK" /\ ~l.awaited
          <6>1. \/ inbox' = inbox
                \/ inbox' = [inbox EXCEPT !["base"] = Append(inbox["base"], Reply(k, l))]
            BY <4>3 DEF Emit
          <6>2. CASE inbox' = [inbox EXCEPT !["base"] = Append(inbox["base"], Reply(k, l))]
            <7>1. inbox'["base"] = Append(inbox["base"], Reply(k, l))
              BY <1>0, <6>2, LinksType
            <7>2. inbox["base"] \in Seq(Messages)
              BY <1>0, LinksType
            <7>3. \A i \in DOMAIN inbox["base"] : ~Answers(inbox["base"][i])
              BY <1>0, <4>1 DEF NoAnswer
            <7>4. ~Answers(Reply(k, l))
              BY <5>1, <5>2 DEF Answers
            <7>5. \A i \in DOMAIN inbox'["base"] : ~Answers(inbox'["base"][i])
              BY <5>1, <7>1, <7>2, <7>3, <7>4, AppendIndices
            <7>6. QED
              BY <1>0, <2>6, <4>1, <7>5 DEF NoAnswer, Links
          <6>3. QED
            BY <4>2, <6>1, <6>2
        <5>3. CASE k # "OK"
          <6>1. \A e \in Links : \A i \in DOMAIN inbox'[e] :
                  Answers(inbox'[e][i]) => \E j \in DOMAIN inbox[e] : Answers(inbox[e][j])
            BY <1>0, <4>3, <5>1, <5>3, EmitFewer
          <6>2. QED
            BY <4>1, <6>1 DEF NoAnswer, Links
        <5>4. QED
          BY <5>2, <5>3, <2>2 DEF LinesTo
      <4>4. QED
        BY <2>1, <4>2, <4>3 DEF Respond
    <3>2. l.command \in BaseCommands /\ Asked(l)
      BY <2>2, <3>1 DEF LinesTo, BaseCommands, Asked
    <3>3. Len(q) = 1 /\ l.command = "DISABLE"
      <4>1. stage \in Opened /\ Request["disable"].command = "DISABLE"
        BY <2>8 DEF Opened, Startup, Request, Ask
      <4>2. QED
        BY <1>0, <2>3, <2>8, <3>2, <4>1 DEF Waits, q
    <3>4. ~Carries(t, "ENABLE")
      BY <2>3, <3>3 DEF Carries
    <3>5. ~base'.enabled
      BY <1>0, <2>1, <3>1, <3>3 DEF BaseAfter, BaseStates
    <3>6. QED
      BY <2>1, <3>4, <3>5 DEF Enableable
  <2>9. outbox'["lift"] = outbox["lift"] /\ UNCHANGED <<stage, lift_session, lift>>
    BY <2>1
  <2>10. QED
    BY <2>5, <2>7, <2>8, <2>9, QuietLift
<1>4. QED
  BY <1>1, <1>2, <1>3 DEF BaseStep

-----------------------------------------------------------------------------
(* The invariant is kept by the lift.                                       *)

\* What the lift may do, given what the plug-in knows of it and is about to be told.
LiftMay ==
  LET p == outbox'["lift"]
      views == Seen \cup Told IN
  /\ lift'.mode = "armed" => Ready(lift')
  /\ lift'.mode = "homing" => ~lift'.homed /\ ~Enableable
  /\ Known' => Owned(p, lift_session)
  /\ stage \in Startup /\ Known' => lift'.mode = "idle"
  /\ views # {} =>
       /\ stage \in Opened \ {"home", "homing"} /\ ~lift.homed => ~lift'.homed
       /\ stage \in Opened \ Preparing /\ ~Ready(lift) => ~Ready(lift')
  /\ stage \in Configured =>
       /\ Carries(p, "HOME") => lift'.mode # "homing" /\ ~lift'.homed
       /\ Carries(p, "CLEAR") => ~Ready(lift')
       /\ lift'.mode = "homing" => stage \in {"home", "homing"} /\ \A c \in views : ~c.homed
       /\ lift'.session = lift_session =>
            /\ lift'.mode = "armed" => ~Carries(p, "HELLO")
            /\ (\E c \in views : c.armed) => Settled(lift')
            /\ stage \notin Enabling \cup Preparing /\ Enableable => Settled(lift')

LEMMA ChangeLift ==
  ASSUME LiftInv, LiftMay, UNCHANGED <<stage, lift_session, base>>,
         Seen' = Seen, Told' = Told, OneState(inbox'["lift"]),
         \A c \in {"HELLO", "HOME", "CLEAR"} :
           Carries(outbox'["lift"], c) => Carries(outbox["lift"], c),
         Sequenced(outbox'["lift"], lift_session),
         stage \in Startup => OnlyHello(outbox'["lift"], lift_session),
         stage \in Configured => AllAwaited(outbox'["lift"]),
         outbox'["base"] = outbox["base"],
         stage = "disable" /\ Acked' => Acked
  PROVE  LiftInv'
<1> DEFINE q == outbox["lift"]
           p == outbox'["lift"]
<1>1. Views /\ InSession /\ Order /\ Requested /\ Armed /\ BaseStaysOff
  BY DEF LiftInv
<1>2. Views'
  BY <1>1 DEF Views, LiftMay
<1>3. InSession'
  BY <1>1 DEF InSession, LiftMay
<1>4. Order'
  <2>1. ASSUME stage \in Opened \ {"home", "homing"}
        PROVE  /\ \A c \in Seen : ~c.homed => ~lift'.homed /\ \A e \in Told : ~e.homed
               /\ \A c \in Told : ~c.homed => ~lift'.homed
    <3>1. /\ \A c \in Seen : ~c.homed => ~lift.homed /\ \A e \in Told : ~e.homed
          /\ \A c \in Told : ~c.homed => ~lift.homed
      BY <1>1, <2>1 DEF Order
    <3>2. Seen \cup Told # {} /\ ~lift.homed => ~lift'.homed
      BY <2>1 DEF LiftMay
    <3>3. QED
      BY <3>1, <3>2
  <2>2. ASSUME stage \in Opened \ Preparing
        PROVE  /\ \A c \in Seen : ~Ready(c) => ~Ready(lift') /\ \A e \in Told : ~Ready(e)
               /\ \A c \in Told : ~Ready(c) => ~Ready(lift')
    <3>1. /\ \A c \in Seen : ~Ready(c) => ~Ready(lift) /\ \A e \in Told : ~Ready(e)
          /\ \A c \in Told : ~Ready(c) => ~Ready(lift)
      BY <1>1, <2>2 DEF Order
    <3>2. Seen \cup Told # {} /\ ~Ready(lift) => ~Ready(lift')
      BY <2>2 DEF LiftMay
    <3>3. QED
      BY <3>1, <3>2
  <2>3. QED
    BY <2>1, <2>2 DEF Order, Ready
<1>5. Requested'
  <2> SUFFICES ASSUME stage \in Configured PROVE Requested'
    BY DEF Requested
  <2>1. /\ Carries(p, "HOME") => lift'.mode # "homing" /\ ~lift'.homed
        /\ Carries(p, "CLEAR") => ~Ready(lift')
        /\ lift'.mode = "homing"
             => stage \in {"home", "homing"} /\ \A c \in Seen \cup Told : ~c.homed
        /\ lift'.mode = "homing" => ~lift'.homed
    BY DEF LiftMay
  <2>2. \A i \in DOMAIN p : p[i].command \in {"HOME", "CLEAR"} => p[i].awaited
    BY DEF AllAwaited
  <2>3. /\ Carries(p, "HOME") => stage = "home" /\ \A c \in Seen \cup Told : ~c.homed
        /\ Carries(p, "CLEAR")
             => stage = "lift_clear" /\ \A c \in Seen \cup Told : ~Ready(c)
    BY <1>1 DEF Requested
  <2>4. QED
    BY <2>1, <2>2, <2>3 DEF Requested, Ready
<1>6. Armed'
  <2> SUFFICES ASSUME stage \in Configured PROVE Armed'
    BY DEF Armed
  <2>1. lift'.session = lift_session =>
          /\ lift'.mode = "armed" => ~Carries(p, "HELLO")
          /\ (\E c \in Seen \cup Told : c.armed) => Settled(lift')
    BY DEF LiftMay
  <2>2. \A c \in Seen \cup Told : c.armed => ~Carries(p, "HELLO")
    BY <1>1 DEF Armed
  <2>3. \A c \in Seen : c.armed => \A e \in Told : Settled(e)
    BY <1>1 DEF Armed
  <2>4. QED
    BY <2>1, <2>2, <2>3 DEF Armed, Settled, Ready
<1>7. BaseStaysOff'
  <2>1. Enableable' <=> Enableable
    BY DEF Enableable
  <2>2. Enableable => ~Carries(p, "HOME") /\ lift'.mode # "homing"
    BY <1>1 DEF BaseStaysOff, LiftMay
  <2>3. /\ stage \in Startup \ {"disable"} => ~Enableable
        /\ stage = "disable" /\ Acked' => ~Enableable
    BY <1>1 DEF BaseStaysOff
  <2>4. ASSUME stage \in Configured \ Enabling, Enableable
        PROVE  /\ stage \notin Preparing
               /\ ~Carries(p, "HELLO") /\ (lift'.session = lift_session => Settled(lift'))
               /\ \A c \in Seen \cup Told : Settled(c)
    <3>1. /\ stage \notin Preparing /\ ~Carries(q, "HELLO")
          /\ \A c \in Seen \cup Told : Settled(c)
      BY <1>1, <2>4 DEF BaseStaysOff
    <3>2. lift'.session = lift_session => Settled(lift')
      BY <2>4, <3>1 DEF LiftMay
    <3>3. QED
      BY <3>1, <3>2
  <2>5. QED
    BY <2>1, <2>2, <2>3, <2>4 DEF BaseStaysOff, Settled, Ready
<1>8. QED
  BY <1>2, <1>3, <1>4, <1>5, <1>6, <1>7 DEF LiftInv

\* A line of the lift that is no STATE tells nothing.
LEMMA EmitTold ==
  ASSUME IInv, LiftInv, "lift" \in Links, NEW d \in Links, NEW m \in Messages,
         m.kind # "STATE", Emit(d, m), UNCHANGED lift_session
  PROVE  Told' = Told /\ OneState(inbox'["lift"])
<1> DEFINE q == inbox["lift"]
           r == Append(q, m)
<1>1. q \in Seq(Messages) /\ OneState(q) /\ DOMAIN inbox = Links
  BY LinksType DEF LiftInv, Views
<1>2. /\ Len(q) \in Nat /\ DOMAIN q = 1..Len(q) /\ DOMAIN r = 1..Len(q) + 1
      /\ \A i \in 1..Len(q) : r[i] = q[i]
      /\ r[Len(q) + 1] = m
  BY <1>1, AppendIndices
<1>3. inbox'["lift"] = q \/ inbox'["lift"] = r
  BY <1>1 DEF Emit
<1> HIDE DEF q, r
<1>4. /\ \A i \in DOMAIN r : r[i].kind = "STATE" => i \in DOMAIN q
      /\ \A i \in DOMAIN q : i \in DOMAIN r /\ r[i] = q[i]
  BY <1>2
<1>5. ToldIn(r, lift_session) = ToldIn(q, lift_session) /\ OneState(r)
  BY <1>1, <1>4 DEF ToldIn, OneState
<1>6. QED
  BY <1>1, <1>3, <1>5 DEF Told, q

\* While the base is waited for, no answer of the lift counts.
LEMMA LiftAnswers ==
  ASSUME IInv, Waits', "lift" \in Links, UNCHANGED <<stage, answer>>,
         inbox'["base"] = inbox["base"], stage = "disable", Acked'
  PROVE  Acked
<1>1. Links = {"base", "lift"} /\ Links' = Links
  BY DEF Links
<1>2. stage \in Opened /\ ~AsksOf("lift", stage)
  BY DEF Opened, Startup, AsksOf, Request, Ask
<1>3. \A i \in DOMAIN inbox'["lift"] : ~Answers(inbox'["lift"][i])
  BY <1>1, <1>2 DEF Waits, AsksOf
<1>4. ~NoAnswer' => ~NoAnswer
  BY <1>1, <1>3 DEF NoAnswer
<1>5. QED
  BY <1>4 DEF Acked

LEMMA LiftAloneLift ==
  ASSUME IInv, Waits', LiftInv, "lift" \in Links, LiftLapses \/ LiftHomed \/ LiftFails
  PROVE  LiftInv'
<1> DEFINE q == outbox["lift"]
<1>0. /\ Views /\ InSession /\ Order /\ Requested /\ Armed /\ BaseStaysOff
      /\ lift \in LiftStates
  BY DEF LiftInv, IInv, DeviceType
<1>1. /\ UNCHANGED <<stage, answer, lift_session, outbox, seen, base>>
      /\ UNCHANGED inbox \/ Emit("lift", Plain("BAD"))
  BY DEF LiftLapses, LiftHomed, LiftFails, host, control
<1>2. Seen' = Seen /\ Told' = Told /\ OneState(inbox'["lift"])
  <2>1. Plain("BAD") \in Messages /\ Plain("BAD").kind # "STATE"
    BY MessageType
  <2>2. QED
    BY <1>0, <1>1, <2>1, EmitTold DEF Seen, Told, Views
<1>3. inbox'["base"] = inbox["base"]
  <2>1. "base" \in Links /\ DOMAIN inbox = Links
    BY BaseIsLink, LinksType
  <2>2. CASE Emit("lift", Plain("BAD"))
    BY <2>1, <2>2 DEF Emit
  <2>3. QED
    BY <1>1, <2>2
<1>4. /\ Sequenced(q, lift_session) /\ (stage \in Startup => OnlyHello(q, lift_session))
      /\ (stage \in Configured => AllAwaited(q))
  BY <1>0 DEF InSession, Requested, AllAwaited
<1>5. outbox'["lift"] = q /\ outbox'["base"] = outbox["base"]
  BY <1>1
<1>6. LiftMay
  <2>1. Known => Owned(q, lift_session)
    BY <1>0 DEF InSession
  <2>2. CASE LiftLapses
    <3>1. /\ lift'.mode = "idle" /\ lift'.fault = "COMM_TIMEOUT"
          /\ lift'.session = NoSession /\ lift'.homed = lift.homed
      BY <1>0, <2>2, LiftAloneType DEF LiftLapses
    <3>5. stage \in Configured => lift'.session # lift_session
      BY <3>1, StageType DEF IInv, ControlType, Configured
    <3>2. ~Ready(lift')
      BY <3>1 DEF Ready
    <3>3. Known' => Known
      BY <1>1, <1>2, <3>1 DEF Known, Current
    <3>4. stage \in Configured /\ Carries(q, "HOME") => ~lift.homed
      BY <1>0 DEF Requested
    <3>6. QED
      BY <1>1, <1>5, <2>1, <3>1, <3>2, <3>3, <3>4, <3>5 DEF LiftMay
  <2>3. CASE LiftHomed
    <3>1. /\ lift'.mode = "idle" /\ lift'.homed = TRUE /\ lift'.fault = lift.fault
          /\ lift'.session = lift.session /\ lift.mode = "homing"
      BY <1>0, <2>3 DEF LiftHomed, Referenced, LiftStates
    <3>2. Known' => Known
      BY <1>1, <1>2, <3>1 DEF Known, Current
    <3>3. ~Enableable
      BY <1>0, <3>1 DEF BaseStaysOff
    <3>4. stage \in Startup => Seen \cup Told = {}
      BY <1>0, <3>1 DEF InSession, Known
    <3>5. stage \in Configured =>
            /\ stage \in {"home", "homing"} /\ ~Carries(q, "HOME") /\ ~Carries(q, "CLEAR")
            /\ \A c \in Seen \cup Told : ~c.homed
      BY <1>0, <3>1 DEF Requested
    <3>6. stage \in Configured => \A c \in Seen \cup Told : ~c.armed
      BY <1>0, <3>5 DEF Views, Ready
    <3>7. stage \in Opened => stage \in Startup \/ stage \in Configured
      BY DEF Opened
    <3>8. {"home", "homing"} \subseteq Preparing
      BY DEF Preparing
    <3>9. QED
      BY <1>1, <1>5, <2>1, <3>1, <3>2, <3>3, <3>4, <3>5, <3>6, <3>7, <3>8 DEF LiftMay
  <2>4. CASE LiftFails
    <3>1. /\ lift'.mode = "idle" /\ lift'.fault = "GEOMETRY"
          /\ lift'.session = lift.session /\ lift'.homed = FALSE
      BY <1>0, <2>4, LiftAloneType DEF LiftFails
    <3>2. ~Ready(lift') /\ Settled(lift')
      BY <3>1 DEF Ready, Settled
    <3>3. Known' => Known
      BY <1>1, <1>2, <3>1 DEF Known, Current
    <3>4. QED
      BY <1>1, <1>5, <2>1, <3>1, <3>2, <3>3 DEF LiftMay
  <2>5. QED
    BY <2>2, <2>3, <2>4
<1>7. stage = "disable" /\ Acked' => Acked
  BY <1>1, <1>3, LiftAnswers
<1>8. QED
  BY <1>1, <1>2, <1>4, <1>5, <1>6, <1>7, ChangeLift

\* What a line changes of the lift: an accepted HELLO of a new session, a line that
\* only halts it, and the others.
LEMMA LiftChanges ==
  ASSUME lift \in LiftStates, NEW l
  PROVE  LET h == Halted(lift)
             r == LiftAfter(lift, l) IN
         /\ h.mode = "idle" /\ h.session = lift.session
         /\ h.homed = lift.homed /\ h.fault = lift.fault
         /\ l.command = "HELLO" /\ ~Current(lift, l.session) =>
              /\ r.mode = "idle" /\ r.session = l.session
              /\ r.homed = lift.homed /\ r.fault = lift.fault
         /\ l.command = "CLEAR" =>
              r.mode = "idle" /\ r.session = lift.session /\ r.homed = lift.homed
         /\ l.command = "HOME" =>
              /\ r.mode = "homing" /\ r.session = lift.session
              /\ r.homed = FALSE /\ r.fault = lift.fault
         /\ l.command = "ARM" =>
              /\ r.mode = "armed" /\ r.session = lift.session
              /\ r.homed = lift.homed /\ r.fault = lift.fault
<1>1. /\ Halted(lift).mode = "idle" /\ Halted(lift).session = lift.session
      /\ Halted(lift).homed = lift.homed /\ Halted(lift).fault = lift.fault
      /\ Halted(lift) \in LiftStates
  BY DEF Halted, LiftStates
<1>2. \A r \in LiftStates : \A s, t :
        LET n == [r EXCEPT !.session = s, !.retired = t] IN
        n.mode = r.mode /\ n.session = s /\ n.homed = r.homed /\ n.fault = r.fault
  BY DEF LiftStates
<1>3. ASSUME l.command = "HELLO", ~Current(lift, l.session)
      PROVE  \E t : LiftAfter(lift, l) =
                      [Halted(lift) EXCEPT !.session = l.session, !.retired = t]
  BY <1>3 DEF LiftAfter
<1>4. ASSUME l.command = "HELLO", ~Current(lift, l.session)
      PROVE  LET r == LiftAfter(lift, l) IN
             /\ r.mode = "idle" /\ r.session = l.session
             /\ r.homed = lift.homed /\ r.fault = lift.fault
  <2> DEFINE h == Halted(lift)
  <2>1. PICK t : LiftAfter(lift, l) = [h EXCEPT !.session = l.session, !.retired = t]
    BY <1>3, <1>4
  <2>2. /\ h \in LiftStates /\ h.mode = "idle"
        /\ h.homed = lift.homed /\ h.fault = lift.fault
    BY <1>1
  <2> HIDE DEF h
  <2>3. QED
    BY <1>2, <2>1, <2>2
<1>5. LET r == LiftAfter(lift, l) IN
      /\ l.command = "CLEAR" =>
           r.mode = "idle" /\ r.session = lift.session /\ r.homed = lift.homed
      /\ l.command = "HOME" =>
           /\ r.mode = "homing" /\ r.session = lift.session
           /\ r.homed = FALSE /\ r.fault = lift.fault
      /\ l.command = "ARM" =>
           /\ r.mode = "armed" /\ r.session = lift.session
           /\ r.homed = lift.homed /\ r.fault = lift.fault
  BY DEF LiftAfter, LiftStates
<1>6. QED
  BY <1>1, <1>4, <1>5

LEMMA LiftReadsLift ==
  ASSUME IInv, Waits, Waits', LiftInv, LiftReads
  PROVE  LiftInv'
<1> DEFINE q == outbox["lift"]
           l == Head(q)
           t == Tail(q)
<1>0. /\ Views /\ InSession /\ Order /\ Requested /\ Armed /\ BaseStaysOff
      /\ lift \in LiftStates /\ "lift" \in Links
  BY DEF LiftInv, IInv, DeviceType, LiftReads, Reads
<1>1. /\ q # <<>> /\ q \in Seq(LinesTo("lift"))
      /\ outbox'["lift"] = t /\ outbox'["base"] = outbox["base"]
      /\ UNCHANGED <<stage, answer, lift_session, seen, base>>
  BY <1>0, BaseIsLink, LinksType DEF LiftReads, Reads, Consume, control
<1>2. PICK ok \in BOOLEAN :
        /\ ok => LiftAccepts(lift, l)
        /\ lift' = IF ok THEN LiftAfter(lift, l) ELSE LiftRefused(lift, l)
        /\ Respond("lift", ok, l)
  BY DEF LiftReads
<1>3. /\ l \in LinesTo("lift") /\ Carries(q, l.command)
      /\ \A c : Carries(t, c) => Carries(q, c)
      /\ Sequenced(q, lift_session) =>
           /\ Sequenced(t, lift_session)
           /\ (l.session = lift_session => Owned(t, lift_session))
           /\ l.session = lift_session /\ l.command = "ARM" => ~Carries(t, "HELLO")
      /\ Owned(q, lift_session) => Owned(t, lift_session) /\ l.session = lift_session
      /\ OnlyHello(q, lift_session)
           => OnlyHello(t, lift_session) /\ (l.session = lift_session => l.command = "HELLO")
      /\ AllAwaited(q) => AllAwaited(t) /\ (l.command \in {"HOME", "CLEAR"} => l.awaited)
  BY <1>1, TailLines
<1>4. /\ Len(q) \in Nat \ {0} /\ DOMAIN q = 1..Len(q) /\ l = q[1] /\ 1 \in DOMAIN q
      /\ DOMAIN t = 1..Len(q) - 1
  BY <1>1, TailIndices
<1>5. /\ Seen' = Seen /\ Told' = Told /\ OneState(inbox'["lift"])
      /\ inbox'["base"] = inbox["base"]
  <2>1. CASE UNCHANGED inbox
    BY <1>0, <1>1, <2>1 DEF Seen, Told, Views
  <2>2. ASSUME NEW k \in {"OK", "NO", "HELLO"}, Emit("lift", Reply(k, l))
        PROVE  /\ Seen' = Seen /\ Told' = Told /\ OneState(inbox'["lift"])
               /\ inbox'["base"] = inbox["base"]
    <3>1. Reply(k, l) \in Messages /\ Reply(k, l).kind # "STATE"
      BY <1>0, <1>3, MessageType
    <3>2. Told' = Told /\ OneState(inbox'["lift"])
      BY <1>0, <1>1, <2>2, <3>1, EmitTold
    <3>3. "base" \in Links /\ DOMAIN inbox = Links
      BY BaseIsLink, LinksType
    <3>4. inbox'["base"] = inbox["base"]
      BY <2>2, <3>3 DEF Emit
    <3>5. QED
      BY <1>1, <3>2, <3>4 DEF Seen
  <2>3. QED
    BY <1>2, <2>1, <2>2 DEF Respond
<1> HIDE DEF q, l, t
<1>6. stage = "disable" /\ Acked' => Acked
  BY <1>0, <1>1, <1>5, LiftAnswers
<1>7. /\ Sequenced(t, lift_session)
      /\ stage \in Startup
           => OnlyHello(t, lift_session) /\ (l.session = lift_session => l.command = "HELLO")
      /\ stage \in Configured =>
           AllAwaited(t) /\ (l.command \in {"HOME", "CLEAR"} => l.awaited)
      /\ l.session = lift_session => Owned(t, lift_session)
      /\ l.session = lift_session /\ l.command = "ARM" => ~Carries(t, "HELLO")
      /\ Known => Owned(t, lift_session) /\ l.session = lift_session
  BY <1>0, <1>3 DEF InSession, Requested, AllAwaited, q
<1>8. /\ l.command \in LiftCommands /\ l.session \in SessionIds
      /\ l.command \in {"HELLO", "STOP", "CLEAR", "HOME", "ARM", "SET"}
  BY <1>3 DEF LinesTo, LiftCommands
\* Of the requests of HOME and CLEAR nothing more is on its way.
<1>9. stage \in Configured /\ l.command \in {"HOME", "CLEAR"} => \A c : ~Carries(t, c)
  <2>1. ASSUME stage \in Configured, l.command \in {"HOME", "CLEAR"} PROVE Len(q) = 1
    <3>1. Asked(l) /\ stage \in Opened
      BY <1>7, <2>1 DEF Asked, Opened
    <3>2. QED
      BY <1>0, <1>4, <3>1 DEF Waits, q
  <2>2. QED
    BY <1>4, <2>1 DEF Carries
<1>10. LiftMay
  <2>1. CASE lift' = lift
    <3>1. Known' => Known
      BY <1>1, <1>5, <2>1 DEF Known, Current
    <3>2. \A c \in {"HOME", "CLEAR", "HELLO"} : Carries(t, c) => Carries(q, c)
      BY <1>3
    <3>3. lift.mode = "armed" => Ready(lift)
      BY <1>0 DEF Views
    <3>4. lift.mode = "homing" => ~lift.homed /\ ~Enableable
      BY <1>0 DEF Views, BaseStaysOff
    <3>5. stage \in Startup /\ Known => lift.mode = "idle"
      BY <1>0 DEF InSession
    <3>6. stage \in Configured =>
            /\ Carries(q, "HOME") => lift.mode # "homing" /\ ~lift.homed
            /\ Carries(q, "CLEAR") => ~Ready(lift)
            /\ lift.mode = "homing"
                 => stage \in {"home", "homing"} /\ \A c \in Seen \cup Told : ~c.homed
      BY <1>0 DEF Requested, q
    <3>7. stage \in Configured /\ lift.session = lift_session =>
            /\ lift.mode = "armed" => ~Carries(q, "HELLO")
            /\ (\E c \in Seen \cup Told : c.armed) => Settled(lift)
            /\ stage \notin Enabling \cup Preparing /\ Enableable => Settled(lift)
      BY <1>0 DEF Armed, BaseStaysOff, q
    <3>8. QED
      BY <1>1, <1>7, <2>1, <3>1, <3>2, <3>3, <3>4, <3>5, <3>6, <3>7 DEF LiftMay, Ready,
      Settled
  <2> DEFINE accepted == lift' = LiftAfter(lift, l) /\ LiftAccepts(lift, l)
  <2>2. CASE /\ accepted /\ l.command = "HELLO" /\ ~Current(lift, l.session)
    <3>1. /\ lift'.mode = "idle" /\ lift'.session = l.session
          /\ lift'.fault = lift.fault /\ lift'.homed = lift.homed
      BY <1>0, <2>2, LiftChanges
    <3>2. Ready(lift') <=> Ready(lift)
      BY <3>1 DEF Ready
    <3>3. Known' => Owned(t, lift_session)
      <4>1. CASE l.session = lift_session
        BY <1>7, <4>1
      <4>2. CASE l.session # lift_session
        BY <1>1, <1>5, <1>7, <3>1, <4>2 DEF Known, Current
      <4>3. QED
        BY <4>1, <4>2
    <3>4. stage \in Configured =>
            /\ Carries(t, "HOME") => ~lift.homed
            /\ Carries(t, "CLEAR") => ~Ready(lift)
      BY <1>0, <1>3 DEF Requested, q
    <3>5. stage \in Configured =>
            /\ ~(\E c \in Seen \cup Told : c.armed)
            /\ stage \notin Enabling => ~Enableable
      BY <1>0, <1>3, <2>2 DEF Armed, BaseStaysOff, q
    <3>6. QED
      BY <1>1, <3>1, <3>2, <3>3, <3>4, <3>5 DEF LiftMay
  <2>3. CASE accepted /\ l.command \in {"ARM", "HOME", "CLEAR"} /\ stage \notin Configured
    <3>1. l.session = lift.session /\ lift'.session = lift.session
          /\ (lift'.mode = "armed" => Ready(lift'))
               /\ (lift'.mode = "homing" => ~lift'.homed)
          /\ (lift'.mode = "homing" => Carries(q, "HOME"))
      BY <1>0, <1>3, <2>3, LiftChanges DEF LiftAccepts, Current, Ready
    <3>2. Known' => Known
      BY <1>1, <1>5, <3>1 DEF Known, Current
    <3>3. stage \in Startup => ~Known
      BY <1>7, <2>3
    <3>4. lift'.mode = "homing" => ~Enableable
      BY <1>0, <3>1 DEF BaseStaysOff, q
    <3>5. stage \in Opened => Seen \cup Told = {}
      BY <2>3, <3>3 DEF Opened, Known
    <3>6. QED
      BY <1>1, <1>7, <2>3, <3>1, <3>2, <3>3, <3>4, <3>5 DEF LiftMay
  <2>4. CASE lift' = Halted(lift)
    <3>1. /\ lift'.mode = "idle" /\ lift'.session = lift.session
          /\ lift'.fault = lift.fault /\ lift'.homed = lift.homed
      BY <1>0, <2>4, LiftChanges
    <3>2. (Ready(lift') <=> Ready(lift)) /\ (Settled(lift') <=> Settled(lift))
      BY <3>1 DEF Ready, Settled
    <3>3. Known' => Known
      BY <1>1, <1>5, <3>1 DEF Known, Current
    <3>4. stage \in Configured =>
            /\ Carries(t, "HOME") => ~lift.homed
            /\ Carries(t, "CLEAR") => ~Ready(lift)
      BY <1>0, <1>3 DEF Requested, q
    <3>5. stage \in Configured /\ lift.session = lift_session =>
            /\ (\E c \in Seen \cup Told : c.armed) => Settled(lift)
            /\ stage \notin Enabling \cup Preparing /\ Enableable => Settled(lift)
      BY <1>0 DEF Armed, BaseStaysOff
    <3>6. QED
      BY <1>1, <1>7, <3>1, <3>2, <3>3, <3>4, <3>5 DEF LiftMay
  <2>5. CASE accepted /\ l.command = "ARM" /\ stage \in Configured
    <3>1. /\ lift'.mode = "armed" /\ lift'.session = lift.session
          /\ l.session = lift.session
          /\ lift'.fault = lift.fault /\ lift'.homed = lift.homed /\ Ready(lift)
      BY <1>0, <2>5, LiftChanges DEF LiftAccepts, Current, Ready
    <3>2. Ready(lift') /\ Settled(lift') /\ lift.homed
      BY <3>1 DEF Ready, Settled
    <3>3. Known' => Known
      BY <1>1, <1>5, <3>1 DEF Known, Current
    <3>4. stage \notin Startup
      BY <2>5, StageType DEF Configured
    <3>5. ~Carries(t, "HOME") /\ ~Carries(t, "CLEAR")
      BY <1>0, <1>3, <2>5, <3>1, <3>2 DEF Requested, q
    <3>6. lift'.session = lift_session => ~Carries(t, "HELLO")
      BY <1>7, <2>5, <3>1
    <3>7. QED
      BY <1>1, <1>7, <2>5, <3>1, <3>2, <3>3, <3>4, <3>5, <3>6 DEF LiftMay
  <2>6. CASE accepted /\ l.command = "HOME" /\ stage \in Configured
    <3>1. /\ lift'.mode = "homing" /\ lift'.session = lift.session
          /\ l.session = lift.session
          /\ ~lift'.homed /\ lift'.fault = lift.fault
      BY <1>0, <2>6, LiftChanges DEF LiftAccepts, Current
    <3>2. ~Ready(lift') /\ Carries(q, "HOME")
      BY <1>3, <2>6, <3>1 DEF Ready
    <3>3. Known' => Known
      BY <1>1, <1>5, <3>1 DEF Known, Current
    <3>4. stage \notin Startup
      BY <2>6, StageType DEF Configured
    <3>5. ~Enableable
      BY <1>0, <3>2 DEF BaseStaysOff, q
    <3>6. stage = "home" /\ \A c \in Seen \cup Told : ~c.homed
      BY <1>0, <2>6, <3>2 DEF Requested, q
    <3>7. ~(\E c \in Seen \cup Told : c.armed)
      BY <1>0, <3>6 DEF Views, Ready
    <3>8. QED
      BY <1>1, <1>7, <1>9, <2>6, <3>1, <3>2, <3>3, <3>4, <3>5, <3>6, <3>7 DEF LiftMay
  <2>7. CASE accepted /\ l.command = "CLEAR" /\ stage \in Configured
    <3>1. /\ lift'.mode = "idle" /\ lift'.session = lift.session /\ l.session = lift.session
          /\ lift'.homed = lift.homed
      BY <1>0, <2>7, LiftChanges DEF LiftAccepts, Current
    <3>2. Carries(q, "CLEAR")
      BY <1>3, <2>7
    <3>3. Known' => Known
      BY <1>1, <1>5, <3>1 DEF Known, Current
    <3>4. stage \notin Startup
      BY <2>7, StageType DEF Configured
    <3>5. stage = "lift_clear" /\ \A c \in Seen \cup Told : ~Ready(c)
      BY <1>0, <2>7, <3>2 DEF Requested, q
    <3>6. ~(\E c \in Seen \cup Told : c.armed)
      BY <1>0, <3>5 DEF Views
    <3>7. stage \in Preparing
      BY <3>5 DEF Preparing
    <3>8. QED
      BY <1>1, <1>7, <1>9, <2>7, <3>1, <3>3, <3>4, <3>6, <3>7 DEF LiftMay
  <2>8. CASE accepted /\ l.command = "SET"
    <3>1. lift' = lift
      BY <2>8 DEF LiftAfter
    <3>2. QED
      BY <2>1, <3>1
  <2>9. \/ accepted \/ lift' = lift \/ lift' = Halted(lift)
    BY <1>2 DEF LiftRefused
  <2>10. accepted /\ (l.command = "STOP" \/ (l.command = "HELLO" /\ Current(lift, l.session)))
           => lift' = Halted(lift)
    BY DEF LiftAfter
  <2>11. QED
    BY <1>8, <2>1, <2>2, <2>3, <2>4, <2>5, <2>6, <2>7, <2>8, <2>9, <2>10
<1>11. \A c \in {"HELLO", "HOME", "CLEAR"} :
         Carries(outbox'["lift"], c) => Carries(outbox["lift"], c)
  BY <1>1, <1>3 DEF q
<1>12. QED
  BY <1>1, <1>5, <1>6, <1>7, <1>10, <1>11, ChangeLift

\* A STATE tells what the lift is, and no other is on its way.
LEMMA LiftReportsLift ==
  ASSUME IInv, Waits', LiftInv, "lift" \in Links, LiftReports
  PROVE  LiftInv'
<1> DEFINE q == inbox["lift"]
           o == outbox["lift"]
           r == [fault |-> lift.fault, homed |-> lift.homed, armed |-> lift.mode = "armed"]
           m == State(lift.session, r)
           p == Append(q, m)
<1>0. /\ Views /\ InSession /\ Order /\ Requested /\ Armed /\ BaseStaysOff
      /\ lift \in LiftStates
  BY DEF LiftInv, IInv, DeviceType
<1>1. /\ UNCHANGED <<stage, answer, lift_session, outbox, seen, base, lift>>
      /\ NoStateIn("lift") /\ Emit("lift", m) /\ port["lift"] = "open"
  BY DEF LiftReports, Reports, control
<1>2. q \in Seq(Messages) /\ DOMAIN inbox = Links /\ "base" \in Links
  BY BaseIsLink, LinksType
<1>3. m \in Messages /\ m.kind = "STATE" /\ m.session = lift.session /\ m.state = r
  <2>1. r \in LiftReport /\ lift.session \in SessionIds
    BY <1>0 DEF LiftStates, LiftReport
  <2> HIDE DEF r
  <2>2. QED
    BY <2>1, MessageType DEF State
<1>4. inbox'["lift"] = p /\ inbox'["base"] = inbox["base"]
  BY <1>1, <1>2 DEF Emit
<1>5. /\ r.homed = lift.homed /\ r.fault = lift.fault /\ (r.armed <=> lift.mode = "armed")
      /\ (Ready(r) <=> Ready(lift)) /\ (Settled(r) <=> Settled(lift))
  BY DEF Ready, Settled
<1> HIDE DEF r, m
<1>6. /\ Told = {} /\ OneState(inbox'["lift"])
      /\ Told' = {} \/ (Told' = {r} /\ lift.session = lift_session)
  <2>1. /\ Len(q) \in Nat /\ DOMAIN q = 1..Len(q) /\ DOMAIN p = 1..Len(q) + 1
        /\ \A i \in 1..Len(q) : p[i] = q[i]
        /\ p[Len(q) + 1] = m
    BY <1>2, <1>3, AppendIndices
  <2>2. \A i \in DOMAIN q : q[i].kind # "STATE"
    BY <1>1 DEF NoStateIn
  <2> HIDE DEF q, p
  <2>3. \A i \in DOMAIN p : p[i].kind = "STATE" => i = Len(q) + 1 /\ p[i] = m
    BY <2>1, <2>2
  <2>4. OneState(p)
    BY <2>3 DEF OneState
  <2>5. ToldIn(q, lift_session) = {}
    BY <2>2 DEF ToldIn
  <2>6. ToldIn(p, lift_session) = {}
          \/ (ToldIn(p, lift_session) = {r} /\ lift.session = lift_session)
    <3>1. ToldIn(p, lift_session) \subseteq {r}
      BY <1>3, <2>3 DEF ToldIn
    <3>2. ToldIn(p, lift_session) # {} => lift.session = lift_session
      BY <1>3, <2>3 DEF ToldIn
    <3>3. QED
      BY <3>1, <3>2
  <2>7. QED
    BY <1>1, <1>4, <2>4, <2>5, <2>6 DEF Told, q
<1>7. Seen' = Seen
  BY <1>1 DEF Seen
<1>8. stage = "disable" /\ Acked' => Acked
  BY <1>1, <1>4, LiftAnswers
<1> HIDE DEF q, p
<1>9. \A c \in Told' : c = r /\ lift.session = lift_session /\ Known
  <2>1. lift_session # NoSession
    BY <1>1 DEF IInv, ControlType, LinkType, Reports
  <2>2. QED
    BY <1>6, <2>1 DEF Known, Current
<1>10. Known' => Known
  BY <1>1, <1>7, <1>9 DEF Known, Current
<1>11. Views'
  BY <1>0, <1>1, <1>5, <1>6, <1>7, <1>9 DEF Views, Ready
<1>12. InSession'
  BY <1>0, <1>1, <1>5, <1>7, <1>9, <1>10 DEF InSession
<1>13. Order'
  <2>1. ASSUME stage \in Opened \ {"home", "homing"}
        PROVE  /\ \A c \in Seen : ~c.homed => ~lift.homed /\ \A e \in Told' : ~e.homed
               /\ \A c \in Told' : ~c.homed => ~lift.homed
    BY <1>0, <1>5, <1>9, <2>1 DEF Order
  <2>2. ASSUME stage \in Opened \ Preparing
        PROVE  /\ \A c \in Seen : ~Ready(c) => ~Ready(lift) /\ \A e \in Told' : ~Ready(e)
               /\ \A c \in Told' : ~Ready(c) => ~Ready(lift)
    BY <1>0, <1>5, <1>9, <2>2 DEF Order
  <2>3. QED
    BY <1>1, <1>7, <2>1, <2>2 DEF Order, Ready
<1>14. Requested'
  <2> SUFFICES ASSUME stage \in Configured PROVE Requested'
    BY <1>1 DEF Requested
  <2>1. /\ Carries(o, "HOME") \/ lift.mode = "homing" =>
             ~lift.homed /\ \A c \in Seen \cup Told' : ~c.homed
        /\ Carries(o, "CLEAR") => ~Ready(lift) /\ \A c \in Seen \cup Told' : ~Ready(c)
    BY <1>0, <1>5, <1>9 DEF Requested
  <2>2. QED
    BY <1>0, <1>1, <1>7, <2>1 DEF Requested, Ready
<1>15. Armed'
  <2> SUFFICES ASSUME stage \in Configured PROVE Armed'
    BY <1>1 DEF Armed
  <2>1. /\ lift.mode = "armed" /\ lift.session = lift_session => ~Carries(o, "HELLO")
        /\ \A c \in Seen : c.armed =>
             ~Carries(o, "HELLO") /\ (lift.session = lift_session => Settled(lift))
    BY <1>0 DEF Armed
  <2>2. \A c \in Told' : c.armed =>
          ~Carries(o, "HELLO") /\ (lift.session = lift_session => Settled(lift))
    BY <1>0, <1>5, <1>9, <2>1 DEF Views, Settled
  <2>3. \A c \in Seen : c.armed => \A e \in Told' : Settled(e)
    BY <1>5, <1>9, <2>1
  <2>4. QED
    BY <1>1, <1>7, <2>1, <2>2, <2>3 DEF Armed, Settled, Ready
<1>16. BaseStaysOff'
  <2>1. Enableable' <=> Enableable
    BY <1>1 DEF Enableable
  <2>2. stage \in Configured \ Enabling /\ Enableable
          => \A c \in Seen \cup Told' : Settled(c)
    BY <1>0, <1>5, <1>9 DEF BaseStaysOff
  <2>3. QED
    BY <1>0, <1>1, <1>7, <1>8, <2>1, <2>2 DEF BaseStaysOff, Settled, Ready
<1>17. QED
  BY <1>11, <1>12, <1>13, <1>14, <1>15, <1>16 DEF LiftInv

-----------------------------------------------------------------------------
(* The invariant is kept by the failures, and the theorem.                  *)

LEMMA ResetsLift ==
  ASSUME IInv, Waits', LiftInv, "lift" \in Links, NEW d \in Links, Resets(d)
  PROVE  LiftInv'
<1>0. /\ Views /\ InSession /\ Order /\ Requested /\ Armed /\ BaseStaysOff
      /\ DOMAIN inbox = Links /\ DOMAIN outbox = Links /\ "base" \in Links
      /\ d = "base" \/ d = "lift"
  BY BaseIsLink, LinksType DEF LiftInv
<1>1. /\ UNCHANGED <<stage, answer, lift_session, seen>> /\ Emit(d, Plain("BOOT"))
      /\ outbox' = [outbox EXCEPT ![d] = <<>>]
      /\ base' = IF d = "base"
           THEN [BaseBoot EXCEPT !.restarts = base.restarts + 1] ELSE base
      /\ IF d = "lift" THEN lift' \in LiftBoots ELSE UNCHANGED lift
  BY DEF Resets, control
<1>2. Seen' = Seen /\ Told' = Told /\ OneState(inbox'["lift"])
  <2>1. Plain("BOOT") \in Messages /\ Plain("BOOT").kind # "STATE"
    BY MessageType
  <2>2. QED
    BY <1>1, <2>1, EmitTold DEF Seen
<1>3. CASE d = "base"
  <2>1. /\ outbox'["base"] = <<>> /\ outbox'["lift"] = outbox["lift"]
        /\ base'.enabled = FALSE /\ lift' = lift
    BY <1>0, <1>1, <1>3 DEF BaseBoot
  <2>2. ~Enableable'
    BY <2>1 DEF Enableable, Carries
  <2>3. Nearer
    BY <1>2 DEF Nearer
  <2>4. QED
    BY <1>1, <2>1, <2>2, <2>3, QuietLift
<1>4. CASE d = "lift"
  <2>1. /\ outbox'["lift"] = <<>> /\ outbox'["base"] = outbox["base"]
        /\ lift' \in LiftBoots /\ base' = base /\ inbox'["base"] = inbox["base"]
    BY <1>0, <1>1, <1>4 DEF Emit
  <2>2. /\ lift'.mode = "idle" /\ lift'.session = NoSession /\ ~lift'.homed /\ ~Ready(lift')
    BY <2>1, BootType DEF Ready
  <2>3. /\ \A c : ~Carries(<<>>, c)
        /\ Sequenced(<<>>, lift_session) /\ OnlyHello(<<>>, lift_session)
        /\ AllAwaited(<<>>) /\ Owned(<<>>, lift_session)
    BY DEF Carries, Sequenced, OnlyHello, AllAwaited, Owned
  <2>4. LiftMay
    <3>1. stage \in Configured => lift'.session # lift_session
      BY <2>2, StageType DEF IInv, ControlType, Configured
    <3>2. stage \in Startup => lift'.mode = "idle"
      BY <2>2
    <3>3. QED
      BY <1>1, <2>1, <2>2, <2>3, <3>1, <3>2 DEF LiftMay
  <2>5. stage = "disable" /\ Acked' => Acked
    BY <1>1, <2>1, LiftAnswers
  <2>6. QED
    BY <1>1, <1>2, <2>1, <2>3, <2>4, <2>5, ChangeLift
<1>5. QED
  BY <1>0, <1>3, <1>4

LEMMA DamageOutLift ==
  ASSUME IInv, Waits', LiftInv, "lift" \in Links, NEW d \in Links, DamageOut(d)
  PROVE  LiftInv'
<1> DEFINE q == outbox[d]
           t == Tail(q)
<1>0. /\ Views /\ InSession /\ Requested /\ BaseStaysOff
      /\ DOMAIN inbox = Links /\ DOMAIN outbox = Links /\ "base" \in Links
      /\ d = "base" \/ d = "lift"
      /\ base \in BaseStates
  BY BaseIsLink, LinksType DEF LiftInv, IInv, DeviceType
<1>1. /\ UNCHANGED <<stage, answer, lift_session, seen, lift>> /\ q # <<>>
      /\ outbox' = [outbox EXCEPT ![d] = t]
      /\ IF d = "lift" THEN Emit(d, Plain("NO")) ELSE UNCHANGED inbox
      /\ base'.enabled = base.enabled
  BY <1>0 DEF DamageOut, Consume, control, BaseStates
<1>2. Seen' = Seen /\ Told' = Told /\ OneState(inbox'["lift"])
  <2>1. Plain("NO") \in Messages /\ Plain("NO").kind # "STATE"
    BY MessageType
  <2>2. CASE UNCHANGED inbox
    BY <1>0, <1>1, <2>2 DEF Seen, Told, Views
  <2>3. CASE Emit(d, Plain("NO"))
    BY <1>1, <2>1, <2>3, EmitTold DEF Seen
  <2>4. QED
    BY <1>1, <2>2, <2>3
<1>3. Nearer
  BY <1>2 DEF Nearer
<1>4. inbox'["base"] = inbox["base"]
  BY <1>0, <1>1 DEF Emit
<1>5. stage = "disable" /\ Acked' => Acked
  BY <1>1, <1>4, LiftAnswers
<1>6. q \in Seq(LinesTo(d))
  BY LinksType
<1>7. CASE d = "base"
  <2>1. outbox'["base"] = t /\ outbox'["lift"] = outbox["lift"]
    BY <1>0, <1>1, <1>7
  <2>2. \A c : Carries(t, c) => Carries(q, c)
    BY <1>1, <1>6, TailLines
  <2> HIDE DEF t
  <2>3. Enableable' => Enableable
    BY <1>1, <1>7, <2>1, <2>2 DEF Enableable
  <2>4. QED
    BY <1>1, <1>3, <1>5, <2>1, <2>3, QuietLift
<1>8. CASE d = "lift"
  <2>1. outbox'["lift"] = t /\ outbox'["base"] = outbox["base"]
    BY <1>0, <1>1, <1>8
  <2>2. q \in Seq(LinesTo("lift")) /\ q = outbox["lift"]
    BY <1>6, <1>8
  <2>3. /\ OnlyHello(q, lift_session) => OnlyHello(t, lift_session)
        /\ AllAwaited(q) => AllAwaited(t)
        /\ Fewer(t, q, lift_session)
    BY <1>1, <2>2, OwnType, TailLines, FewerLines
  <2>4. /\ stage \in Startup => OnlyHello(q, lift_session)
        /\ stage \in Configured => AllAwaited(q)
    BY <1>0, <2>2 DEF InSession, Requested, AllAwaited
  <2> HIDE DEF t, q
  <2>5. Enableable' => Enableable
    BY <1>1, <2>1 DEF Enableable
  <2>6. QED
    BY <1>1, <1>3, <1>5, <2>1, <2>2, <2>3, <2>4, <2>5, LessLift
<1>9. QED
  BY <1>0, <1>7, <1>8

LEMMA DamageInLift ==
  ASSUME IInv, LiftInv, "lift" \in Links, NEW d \in Links, DamageIn(d)
  PROVE  LiftInv'
<1> DEFINE q == inbox[d]
           r == <<Plain("BAD")>> \o Tail(q)
<1>0. /\ DOMAIN inbox = Links /\ q \in Seq(Messages) /\ OneState(inbox["lift"])
      /\ Links' = Links
  BY LinksType DEF LiftInv, Views, Links
<1>1. /\ UNCHANGED <<stage, answer, lift_session, seen, lift, base, outbox>> /\ q # <<>>
      /\ inbox' = [inbox EXCEPT ![d] = r]
  BY DEF DamageIn, control
<1>2. \A i \in DOMAIN r : r[i] = Plain("BAD") \/ (i \in DOMAIN q /\ r[i] = q[i])
  BY <1>0, <1>1, DamagedLines
<1>3. Plain("BAD").kind = "BAD" /\ ~Answers(Plain("BAD"))
  BY DEF Plain, Answers
<1> HIDE DEF q, r
<1>4. /\ ToldIn(r, lift_session) \subseteq ToldIn(q, lift_session)
      /\ (OneState(q) => OneState(r))
  BY <1>2, <1>3 DEF ToldIn, OneState
<1>5. inbox'[d] = r /\ \A e \in Links \ {d} : inbox'[e] = inbox[e]
  BY <1>0, <1>1
<1>6. Nearer
  BY <1>0, <1>1, <1>4, <1>5 DEF Nearer, Seen, Told, q
<1>7. Enableable' => Enableable
  BY <1>1 DEF Enableable
<1>8. Acked' => Acked
  <2>1. \A e \in Links : \A i \in DOMAIN inbox'[e] :
          Answers(inbox'[e][i]) => \E j \in DOMAIN inbox[e] : Answers(inbox[e][j])
    BY <1>2, <1>3, <1>5 DEF q
  <2>2. QED
    BY <1>0, <1>1, <2>1 DEF Acked, NoAnswer
<1>9. QED
  BY <1>1, <1>6, <1>7, <1>8, QuietLift

\* Nothing of the invariant changes.
LEMMA SameLift ==
  ASSUME IInv, LiftInv, "lift" \in Links,
         UNCHANGED <<stage, answer, lift_session, seen, lift, base, outbox, inbox>>
  PROVE  LiftInv'
<1>1. Nearer /\ (Enableable' => Enableable)
  BY DEF Nearer, Seen, Told, LiftInv, Views, Enableable
<1>2. Acked' => Acked
  BY DEF Acked, NoAnswer, Links
<1>3. QED
  BY <1>1, <1>2, QuietLift

LEMMA NextLift ==
  ASSUME IInv, Waits, LiftInv, "lift" \in Links, Next
  PROVE  LiftInv'
<1>1. Waits'
  BY NextWaits
<1>2. CASE Open
  BY <1>2, OpenLift
<1>3. CASE Host
  <2>1. UNCHANGED <<base, lift>>
    BY <1>3 DEF Host
  <2>2. CASE Pump
    <3>1. PICK d \in Links : Take(d) \/ PortFails(d)
      BY <2>2 DEF Pump
    <3>2. CASE PortFails(d)
      <4>1. Incoming(inbox) /\ PumpFails(inbox)
        BY <3>2 DEF PortFails, IInv, LinkType
      <4>2. \A e \in Links : Suffix(inbox[e], inbox[e])
        <5>1. \A q \in Seq(Messages) : \A i \in DOMAIN q : i + 0 \in DOMAIN q
                /\ q[i] = q[i + 0]
          OBVIOUS
        <5>2. QED
          BY <5>1, LinksType DEF Suffix
      <4>3. QED
        BY <2>1, <4>1, <4>2, PumpFailsLift
    <3>3. QED
      BY <2>1, <3>1, <3>2, TakeLift
  <2>3. CASE Call
    BY <2>1, <2>3, CallLift
  <2>4. CASE Check
    BY <2>1, <2>4, CheckLift DEF Check, Expires
  <2>5. CASE Write
    BY <2>1, <2>5, WriteLift
  <2>6. QED
    BY <1>3, <2>2, <2>3, <2>4, <2>5 DEF Host
<1>4. CASE BaseStep
  BY <1>4, BaseLift
<1>5. CASE LiftStep
  BY <1>1, <1>5, LiftReadsLift, LiftAloneLift, LiftReportsLift DEF LiftStep
<1>6. CASE Fault
  <2>1. PICK d \in Links : Resets(d) \/ DamageOut(d) \/ DamageIn(d) \/ Breaks(d)
    BY <1>6 DEF Fault
  <2>2. CASE Breaks(d)
    BY <2>2, SameLift DEF Breaks, control
  <2>3. QED
    BY <1>1, <2>1, <2>2, ResetsLift, DamageOutLift, DamageInLift
<1>7. CASE Late
  BY <1>7, CheckLift DEF Late
<1>8. QED
  BY <1>2, <1>3, <1>4, <1>5, <1>6, <1>7 DEF Next

\* The base remains disabled while the lift homes, for queues of any length and
\* whatever the links, the ports and the two devices do, a damaged or late line, a
\* restart or a broken port in the midst of an activation included (activate(),
\* prepareAndHomeLift()).
THEOREM HomingIsSafe == Spec => []HomingWithBaseDisabled
<1> DEFINE I == Waits /\ ("lift" \in Links => LiftInv)
<1>1. Init => I
  <2> SUFFICES ASSUME Init PROVE I
    OBVIOUS
  <2>1. stage = "closed" /\ stage \notin Opened /\ stage \notin Startup
          /\ stage \notin Configured
        /\ stage # "disable"
    BY StageType DEF Init, HostInit, Opened, Configured, Startup
  <2>2. Waits
    BY <2>1 DEF Waits
  <2>3. ASSUME "lift" \in Links PROVE LiftInv
    <3>1. /\ outbox["lift"] = <<>> /\ inbox["lift"] = <<>> /\ outbox["base"] = <<>>
          /\ seen["lift"] = Unseen /\ lift \in LiftBoots /\ base = BaseBoot
      BY <2>3, BaseIsLink DEF Init, HostInit
    <3>2. Seen = {} /\ Told = {} /\ OneState(inbox["lift"])
      BY <3>1 DEF Seen, Unseen, Told, ToldIn, OneState
    <3>3. /\ Sequenced(outbox["lift"], lift_session) /\ Owned(outbox["lift"], lift_session)
          /\ ~Enableable
      BY <3>1 DEF Sequenced, Owned, Enableable, Carries, BaseBoot
    <3>4. lift.mode = "idle"
      BY <3>1, BootType
    <3>5. Views /\ InSession
      BY <2>1, <3>2, <3>3, <3>4 DEF Views, InSession
    <3>6. Order /\ Requested /\ Armed /\ BaseStaysOff
      BY <2>1, <3>3 DEF Order, Requested, Armed, BaseStaysOff
    <3>7. QED
      BY <3>5, <3>6 DEF LiftInv
  <2>4. QED
    BY <2>2, <2>3
<1>2. IInv /\ I /\ [Next]_vars => I'
  <2> SUFFICES ASSUME IInv, I, [Next]_vars PROVE I'
    OBVIOUS
  <2>1. Links' = Links
    BY DEF Links
  <2>2. CASE Next
    BY <2>1, <2>2, NextWaits, NextLift
  <2>3. CASE UNCHANGED vars
    <3>1. UNCHANGED <<stage, answer, lift_session, seen, lift, base, outbox, inbox>>
      BY <2>3 DEF vars, host, control
    <3>2. Waits'
      BY <2>1, <3>1 DEF Waits, NoneAsked, Acked, NoAnswer
    <3>3. QED
      BY <2>1, <3>1, <3>2, SameLift
  <2>4. QED
    BY <2>2, <2>3
<1>3. IInv /\ I => HomingWithBaseDisabled
  <2> SUFFICES ASSUME IInv, I, lift.mode = "homing" PROVE ~base.enabled
    BY DEF HomingWithBaseDisabled
  <2>1. "lift" \in Links
    BY DEF IInv, DeviceType, Driven
  <2>2. QED
    BY <2>1 DEF LiftInv, BaseStaysOff, Enableable
<1>4. QED
  BY <1>1, <1>2, <1>3, Invariance, PTL DEF Spec
=============================================================================
