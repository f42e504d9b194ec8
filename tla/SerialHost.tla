----------------------------- MODULE SerialHost -----------------------------
(***************************************************************************)
(* The ros2_control plug-in TaiRobotSerialSystem: its life cycle, the      *)
(* requests it makes while it starts and activates, and its read() and     *)
(* write() while active.  It owns two serial ports; what answers behind    *)
(* them is RobotLinks.                                                     *)
(*                                                                         *)
(* Abstractions.  A port is a queue of lines each way.  The sequence       *)
(* numbers of a configured run are all different, so instead of a number a *)
(* line carries whether it belongs to the request that is waited for; the  *)
(* ACK of any other request changes nothing and is left out, and so are    *)
(* the keep-alive lines of the waits, which only delay a lease that may    *)
(* lapse at any time.  BAD stands for every line that is refused for what  *)
(* it says or how it looks.  A pump reads the lines one by one; what is    *)
(* checked after it is checked with nothing left to read.                  *)
(***************************************************************************)
EXTENDS Naturals, Sequences

CONSTANTS
  UseLift,          \* use_lift_
  HomeOnActivate,   \* home_lift_on_activate_
  StartAttempts,    \* how many attempts fit into startup_timeout_ms_
  MaxLines,         \* bound: unread lines before a port is written or emptied
  Sessions,         \* what generateSessionId() draws from
  NoSession         \* and 0, which it never draws

ASSUME HostAssumption ==
  /\ UseLift \in BOOLEAN /\ HomeOnActivate \in BOOLEAN
  /\ StartAttempts \in Nat /\ MaxLines \in Nat \ {0}
  /\ NoSession \notin Sessions

VARIABLES
  stage,        \* where the plug-in is: between calls, or waiting in one
  active,       \* active_
  fatal,        \* fatal_reason_ is set, and the plug-in goes on
  attempts,     \* attempts of the handshake that is being made
  answer,       \* to the request of this stage: "none", "ok" or "no"
  hello_acked,  \* lift_hello_ack_seen_
  lift_session, \* lift_session_, drawn anew by every configure()
  port,         \* of each link: "closed", "open" or "broken"
  outbox,       \* lines written and not yet read by the device
  inbox,        \* lines the device wrote and the plug-in has not read
  seen,         \* base_state_ and lift_state_: the last STATE accepted
  stop_lost     \* history: a stop was not written or was damaged, and no stop
                \* has been the last line the device read since

control ==
  <<stage, active, fatal, attempts, answer, hello_acked, lift_session>>
host == <<control, port, outbox, inbox, seen, stop_lost>>

Links == IF UseLift THEN {"base", "lift"} ELSE {"base"}

Startup == {"disable", "base_seen", "hello", "lift_seen"}
Activation == {"zero", "check", "zero2", "clear", "cleared",
               "lift_clear", "lift_cleared", "home", "homing",
               "renew", "enable", "drive", "enabled", "arm", "hold", "armed"}
Stages == Startup \cup Activation \cup {"closed", "reading", "writing", "error"}

Unseen == [seen |-> FALSE]

\* A line to a device; the session is the one it was written in (of no use to the
\* base).
Line(command, awaited) ==
  [command |-> command, awaited |-> awaited, session |-> lift_session]

\* What a stage asks for before it waits; the other stages wait for a STATE.
Ask(d, command) == [to |-> d, command |-> command]
Request ==
  [disable |-> Ask("base", "DISABLE"),  hello |-> Ask("lift", "HELLO"),
   zero |-> Ask("base", "CMD0"),        zero2 |-> Ask("base", "CMD0"),
   clear |-> Ask("base", "CLEAR"),      lift_clear |-> Ask("lift", "CLEAR"),
   home |-> Ask("lift", "HOME"),        renew |-> Ask("base", "CMD0"),
   enable |-> Ask("base", "ENABLE"),    drive |-> Ask("base", "CMD0"),
   arm |-> Ask("lift", "ARM"),          hold |-> Ask("lift", "SET")]

\* Nobody waits for the answers to these lines any more.
Forgotten(lines) == [i \in DOMAIN lines |-> [lines[i] EXCEPT !.awaited = FALSE]]

Room(d) == Len(outbox[d]) < MaxLines

-----------------------------------------------------------------------------
(* What the calls are made of.                                             *)

\* Go to stage s, make its request, and wait; unread is what is left to read.
Enter(s, unread) ==
  LET asks(d) == s \in DOMAIN Request /\ Request[s].to = d IN
  /\ stage' = s /\ answer' = "none"
  /\ inbox' = [d \in Links |-> IF asks(d) THEN Forgotten(unread[d]) ELSE unread[d]]
  /\ outbox' = [d \in Links |->
       IF asks(d) /\ port[d] = "open"
       THEN Append(Forgotten(outbox[d]), Line(Request[s].command, TRUE))
       ELSE outbox[d]]

\* (Mutant: the stop only zeroes the base.)
StopWithoutDisable ==
  [base |-> <<Line("CMD0", FALSE)>>, lift |-> <<Line("STOP", FALSE)>>]

\* (Mutant: the stop is only for the base.)
StopBaseOnly ==
  [base |-> <<Line("CMD0", FALSE), Line("DISABLE", FALSE)>>, lift |-> <<>>]

\* safeStopNoWait(): a zero CMD and DISABLE, and a STOP; failures are ignored, and
\* no answer is waited for.
StopLines ==
  [base |-> <<Line("CMD0", FALSE), Line("DISABLE", FALSE)>>,
   lift |-> <<Line("STOP", FALSE)>>]

SafeStop(lines) ==
  /\ outbox' = [d \in Links |->
       Forgotten(lines[d]) \o (IF port[d] = "open" THEN StopLines[d] ELSE <<>>)]
  /\ stop_lost' = [d \in Links |-> stop_lost[d] \/ port[d] = "broken"]

\* resetRuntimeState() belongs to the next configure(); until then nothing of it
\* is looked at, so that it is reset here as well as there.
ResetRuntimeState ==
  /\ active' = FALSE /\ fatal' = FALSE /\ answer' = "none" /\ hello_acked' = FALSE
  /\ seen' = [d \in Links |-> Unseen]
  /\ inbox' = [d \in Links |-> <<>>]

ClosePorts ==
  /\ port' = [d \in Links |-> "closed"]
  /\ stage' = "closed" /\ attempts' = 0
  /\ ResetRuntimeState
  /\ UNCHANGED lift_session

\* A call returns ERROR after a stop; the framework then calls on_error().
FailAfter(lines, unread) ==
  /\ SafeStop(lines)
  /\ stage' = "error" /\ active' = FALSE
  /\ inbox' = unread
  /\ UNCHANGED <<fatal, attempts, answer, hello_acked, lift_session, port, seen>>
Fail(unread) == FailAfter(outbox, unread)

\* configure() gives up: stop and close.
GiveUp == SafeStop(outbox) /\ ClosePorts

\* An attempt has failed; another one is made as long as there is time.
Again(s, unread) ==
  \/ /\ attempts < StartAttempts
     /\ attempts' = attempts + 1
     /\ fatal' = FALSE
     /\ Enter(s, unread)
     /\ UNCHANGED <<active, hello_acked, lift_session, port, seen, stop_lost>>
  \/ attempts = StartAttempts /\ GiveUp

\* (Mutant: read() goes on after a pump that failed.)
PumpFailsUnnoticed(unread) ==
  \/ stage \in {"disable", "base_seen"} /\ Again("disable", unread)
  \/ stage \in {"hello", "lift_seen"} /\ Again("hello", unread)
  \/ stage \in Activation /\ Fail(unread)
  \/ /\ stage = "reading"
     /\ inbox' = unread
     /\ UNCHANGED <<control, port, outbox, seen, stop_lost>>

\* pumpBoth() fails.  While it waits for the lift's STATE, establishLiftSession()
\* goes on within the same attempt, and the reason stays set; when its own pump
\* then fails as well, the attempt is over.
PumpFails(unread) ==
  \/ stage \in {"disable", "base_seen"} /\ Again("disable", unread)
  \/ (stage = "hello" \/ (stage = "lift_seen" /\ fatal)) /\ Again("hello", unread)
  \/ /\ stage = "lift_seen"
     /\ fatal' = TRUE
     /\ inbox' = unread
     /\ UNCHANGED <<stage, active, attempts, answer, hello_acked, lift_session,
                    port, outbox, seen, stop_lost>>
  \/ stage \in Activation \cup {"reading"} /\ Fail(unread)

-----------------------------------------------------------------------------
(* The pump: pumpBase(), pumpLift() and the two line parsers.              *)

Pumping == stage \in Startup \cup Activation \cup {"reading"}

\* A STATE before the first HELLO was acknowledged may have no session.
WrongSession(l) ==
  /\ l.session # lift_session
  /\ ~(l.kind = "STATE" /\ l.session = NoSession /\ ~hello_acked)

\* A STATE of the base after a restart: sequence and uptime have gone backwards.
Restarted(l) == seen["base"].seen /\ l.state.restarts # seen["base"].state.restarts

\* While active, more damaged or refused lines were counted than before.
NewErrors(l) == active /\ seen["base"].seen /\ l.state.errors > seen["base"].state.errors

\* The line makes the pump fail.  NO is a NACK or an ERR, BOOT the greeting.
Refused(d, l) ==
  \/ l.kind = "BAD"
  \/ active /\ l.kind \in {"BOOT", "NO"}
  \/ d = "lift" /\ l.kind \in {"OK", "HELLO", "STATE"} /\ WrongSession(l)
  \/ d = "base" /\ l.kind = "STATE" /\ (Restarted(l) \/ NewErrors(l))

\* One line is read.  The lines behind one that fails are lost, as many as the
\* pump had already read.
Take(d) ==
  /\ Pumping /\ port[d] = "open" /\ inbox[d] # <<>>
  /\ LET l == Head(inbox[d])
         rest == Tail(inbox[d]) IN
     \/ /\ Refused(d, l)
        /\ \E k \in 0..Len(rest) :
             PumpFails([inbox EXCEPT ![d] = SubSeq(rest, k + 1, Len(rest))])
     \/ /\ ~Refused(d, l)
        /\ inbox' = [inbox EXCEPT ![d] = rest]
        /\ seen' = IF l.kind = "STATE" /\ (d = "lift" => l.session = lift_session)
                   THEN [seen EXCEPT ![d] = [seen |-> TRUE, state |-> l.state]]
                   ELSE seen
        /\ answer' = CASE l.kind = "HELLO" /\ stage = "hello" -> "ok"
                       [] l.kind = "OK" /\ l.awaited -> "ok"
                       [] l.kind = "NO" /\ l.awaited -> "no"
                       [] OTHER -> answer
        /\ hello_acked' = (hello_acked \/ l.kind = "HELLO")
        /\ UNCHANGED <<stage, active, fatal, attempts, lift_session, port, outbox,
                       stop_lost>>

\* The port reports an error.
PortFails(d) ==
  /\ Pumping /\ port[d] = "broken"
  /\ PumpFails(inbox)

\* A wait ends without an answer; in read(), the telemetry is too old.
TimeOut ==
  \/ stage \in {"disable", "base_seen"} /\ Again("disable", inbox)
  \/ stage \in {"hello", "lift_seen"} /\ Again("hello", inbox)
  \/ stage \in Activation \cup {"reading"} /\ Fail(inbox)

AllRead == \A d \in Links : inbox[d] = <<>>

-----------------------------------------------------------------------------
(* The life cycle.                                                         *)

\* configure(): open both ports, which empties what was received, draw a session
\* and start with the base.  Closing a port lets the lines written to it out first:
\* the device reads them now, in the session they were written in.
Configure(s) ==
  /\ stage = "closed"
  /\ \A d \in Links : Room(d)
  /\ ResetRuntimeState
  /\ lift_session' = s
  /\ port' = [d \in Links |-> "open"]
  /\ outbox' = [d \in Links |->
       IF d = "base" THEN Append(Forgotten(outbox[d]), Line("DISABLE", TRUE))
       ELSE Forgotten(outbox[d])]
  /\ stage' = "disable" /\ attempts' = 1
  /\ UNCHANGED stop_lost

\* activate(), from the inactive state.
Activate ==
  /\ stage = "reading" /\ ~active
  /\ fatal' = FALSE
  /\ Enter("zero", inbox)
  /\ UNCHANGED <<active, attempts, hello_acked, lift_session, port, seen, stop_lost>>

\* What a stage waits for has come.
Homed == seen["lift"].state.homed
NoLiftFault == seen["lift"].state.fault = "NONE"

\* (Mutant: the telemetry of before HOME is enough.)
HomingDoneAtOnce == NoLiftFault
HomingDone == NoLiftFault /\ Homed /\ ~seen["lift"].state.armed

Done ==
  \/ stage \in DOMAIN Request /\ answer = "ok"
  \/ stage \in {"base_seen", "check"} /\ seen["base"].seen
  \/ stage = "lift_seen" /\ seen["lift"].seen
  \/ stage = "cleared" /\ seen["base"].state.fault = {}
  \/ stage = "lift_cleared" /\ NoLiftFault
  \/ stage = "homing" /\ HomingDone
  \/ stage = "enabled" /\ seen["base"].state.fault = {} /\ seen["base"].state.enabled
  \/ stage = "armed" /\ NoLiftFault /\ Homed /\ seen["lift"].state.armed

\* (Mutant: any latched fault is cleared.)
EstopOverlooked == FALSE

\* A software E-stop is never cleared by the plug-in.
EstopSeen == "SOFTWARE_ESTOP" \in seen["base"].state.fault

\* prepareAndHomeLift() from the point where the lift has no fault.
HomeFirst == IF Homed THEN "renew" ELSE IF HomeOnActivate THEN "home" ELSE "fail"
LiftFirst ==
  IF ~UseLift THEN "renew"
  ELSE CASE seen["lift"].state.fault = "NONE" -> HomeFirst
         [] seen["lift"].state.fault = "COMM_TIMEOUT" -> "lift_clear"
         [] OTHER -> "fail"

\* The stage that follows; a finished call goes back to "reading".
Following ==
  CASE stage = "disable" -> "base_seen"
    [] stage = "base_seen" -> IF UseLift THEN "hello" ELSE "reading"
    [] stage = "hello" -> "lift_seen"
    [] stage = "lift_seen" -> "reading"
    [] stage = "zero" -> "check"
    [] stage = "check" -> IF EstopSeen THEN "fail"
                          ELSE IF seen["base"].state.fault # {} THEN "zero2"
                          ELSE LiftFirst
    [] stage = "zero2" -> "clear"
    [] stage = "clear" -> "cleared"
    [] stage = "cleared" -> LiftFirst
    [] stage = "lift_clear" -> "lift_cleared"
    [] stage = "lift_cleared" -> HomeFirst
    [] stage = "home" -> "homing"
    [] stage = "homing" -> "renew"
    [] stage = "renew" -> "enable"
    [] stage = "enable" -> "drive"
    [] stage = "drive" -> "enabled"
    [] stage = "enabled" -> IF UseLift THEN "arm" ELSE "reading"
    [] stage = "arm" -> "hold"
    [] stage = "hold" -> "armed"
    [] stage = "armed" -> "reading"

Proceed ==
  /\ AllRead /\ Done /\ Following # "fail"
  /\ Enter(Following, inbox)
  /\ active' = (stage \in Activation /\ Following = "reading")
  /\ attempts' = IF Following = "hello" THEN 1 ELSE attempts
  /\ fatal' = IF Following = "hello" THEN FALSE ELSE fatal
  /\ UNCHANGED <<hello_acked, lift_session, port, seen, stop_lost>>

\* The request was refused, or the state forbids to go on.
CannotProceed ==
  /\ AllRead
  /\ \/ stage \in DOMAIN Request /\ answer = "no"
     \/ stage \in Activation /\ Done /\ Following = "fail"
     \/ stage = "homing" /\ ~NoLiftFault
  /\ IF stage \in Activation THEN Fail(inbox)
     ELSE stage = "disable" /\ Again("disable", inbox)

LiftReady == UseLift => NoLiftFault /\ Homed /\ seen["lift"].state.armed

BaseReady == seen["base"].state.fault = {} /\ seen["base"].state.enabled

\* read() ends: an active plug-in goes on to write() if all is well.
ReadDone ==
  /\ stage = "reading" /\ AllRead
  /\ \/ /\ fatal \/ (active /\ ~(BaseReady /\ LiftReady))
        /\ Fail(inbox)
     \/ /\ ~fatal /\ active /\ BaseReady /\ LiftReady
        /\ stage' = "writing"
        /\ UNCHANGED <<active, fatal, attempts, answer, hello_acked, lift_session,
                       port, outbox, inbox, seen, stop_lost>>

\* write(): a CMD and a SET.  A command out of range is an error, and so is a
\* port that takes no line, be it after the CMD has left by the other one.
Write ==
  /\ stage = "writing"
  /\ \/ /\ \A d \in Links : port[d] = "open" /\ Room(d)
        /\ \E v \in {"CMD0", "CMDV"} :
             outbox' = [d \in Links |->
               Append(outbox[d], Line(IF d = "base" THEN v ELSE "SET", FALSE))]
        /\ stage' = "reading"
        /\ UNCHANGED <<active, fatal, attempts, answer, hello_acked, lift_session,
                       port, inbox, seen, stop_lost>>
     \/ Fail(inbox)
     \/ /\ port["base"] = "open" /\ \E d \in Links : port[d] = "broken"
        /\ FailAfter([outbox EXCEPT !["base"] = Append(@, Line("CMDV", FALSE))], inbox)

\* deactivate(), between two cycles.
Deactivate ==
  /\ stage = "reading" /\ active
  /\ \A d \in Links : Room(d)
  /\ active' = FALSE
  /\ SafeStop(outbox)
  /\ UNCHANGED <<stage, fatal, attempts, answer, hello_acked, lift_session, port,
                 inbox, seen>>

\* cleanup(), shutdown, and on_error() after every ERROR.
Cleanup ==
  /\ stage \in {"reading", "error"}
  /\ SafeStop(outbox)
  /\ ClosePorts

HostInit ==
  /\ stage = "closed" /\ active = FALSE /\ fatal = FALSE /\ attempts = 0
  /\ answer = "none" /\ hello_acked = FALSE /\ lift_session = NoSession
  /\ port = [d \in Links |-> "closed"]
  /\ outbox = [d \in Links |-> <<>>] /\ inbox = [d \in Links |-> <<>>]
  /\ seen = [d \in Links |-> Unseen]
  /\ stop_lost = [d \in Links |-> FALSE]
=============================================================================
