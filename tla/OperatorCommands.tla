-------------------------- MODULE OperatorCommands --------------------------
(***************************************************************************)
(* The operator's commands to the aircraft, and what they do to a flight:  *)
(*                                                                         *)
(*  - the console sends a command to the Communications System, which      *)
(*    replies at once and then sends it on to the aircraft; only a request *)
(*    for augmented information is answered after the aircraft has been    *)
(*    asked;                                                               *)
(*  - the Radar's poller asks the same aircraft for their positions;       *)
(*  - an aircraft moves, checks the bounds of the airspace, serves ONE     *)
(*    message or pulse of its channel, and waits for its timer.            *)
(*                                                                         *)
(* The poller and the Communications System reach an aircraft the same     *)
(* way, by name_open, MsgSend and name_close: they are its two clients.    *)
(* Registration with the Radar is left to module Radar.  Positions are     *)
(* integers; a third of a distance is rounded either way.                  *)
(***************************************************************************)
EXTENDS Integers, Sequences

CONSTANTS Planes,      \* the aircraft
          Axes,        \* the coordinates of a position
          Vertical,    \* the one an altitude command sets
          Low, High,   \* the bounds of the airspace
          Start,       \* position and velocity each aircraft starts with
          Orders,      \* what the operator may type
          MaxCommands  \* bound: the operator types at most this many

Kinds == {"heading", "position", "altitude", "info"}

Vector == [Axes -> Int]

ASSUME CommandAssumption ==
    /\ Planes # {}
    /\ Vertical \in Axes
    /\ Low \in Vector /\ High \in Vector
    /\ Start \in [Planes -> [pos : Vector, speed : Vector]]
    /\ Orders \subseteq [plane : Planes, kind : Kinds, value : Vector]
    /\ MaxCommands \in Nat

VARIABLES
    flight,    \* where each aircraft thread is
    pos,       \* posX, posY, posZ of each
    speed,     \* speedX, speedY, speedZ
    moves,     \* history: how often each has moved
    turns,     \* history: how many messages and pulses each has served
    last,      \* history: the last command each obeyed, and when
    pulses,    \* the clients whose disconnect pulse waits in each channel
    console,   \* where HandleConsoleInputs is
    commands,  \* how many commands the operator has typed
    typed,     \* the last of them, with its number
    shown,     \* the augmented information printed last: at most one report
    client,    \* where each client is
    order,     \* the message each client sends
    answer     \* the report that came back, if any

stateVars == <<pos, speed, last>>
counters == <<moves, turns>>
aircraftVars == <<flight, stateVars, counters>>
consoleVars == <<console, commands, typed, shown>>
clientVars == <<client, order, answer>>

vars == <<aircraftVars, pulses, consoleVars, clientVars>>

-----------------------------------------------------------------------------
Clients == {"radar", "comms"}

Still == [a \in Axes |-> 0]

(* A message to an aircraft; a command has a number, a poll has none.      *)
Message == [plane : Planes, kind : Kinds \cup {"poll"}, value : Vector, n : 0..MaxCommands]

Poll(p) == [plane |-> p, kind |-> "poll", value |-> Still, n |-> 0]

NoMessage == Poll(CHOOSE p \in Planes : TRUE)

(* msg_plane_info, with the moves made and the last command obeyed.        *)
Report == [plane : Planes, pos : Vector, speed : Vector, at : Nat, n : 0..MaxCommands]

(* Seeded fault: the velocity is the one of the input file.                *)
ReportOf_Cached(p) ==
    [plane |-> p, pos |-> pos[p], speed |-> Start[p].speed, at |-> moves[p], n |-> last[p].n]

ReportOf(p) ==
    [plane |-> p, pos |-> pos[p], speed |-> speed[p], at |-> moves[p], n |-> last[p].n]

(* A command an aircraft has obeyed, with the moves it had made and the    *)
(* messages and pulses it had served before.                               *)
Note == [kind : Kinds, value : Vector, n : 0..MaxCommands, at : Nat, turn : Nat]

Inside(place) == \A a \in Axes : Low[a] <= place[a] /\ place[a] <= High[a]

(* Seeded fault: the thread ends without name_detach.                      *)
Attached_NoDetach(p) == flight[p] # "approach"

(* The aircraft's channel exists.                                          *)
Attached(p) == flight[p] \in {"flying", "receive", "exiting"}

(* A thread goes from one location to the next.                            *)
AircraftGoes(p, from, to) == flight[p] = from /\ flight' = [flight EXCEPT ![p] = to]
ClientGoes(c, from, to) == client[c] = from /\ client' = [client EXCEPT ![c] = to]
ConsoleGoes(from, to) == console = from /\ console' = to

Init ==
    /\ flight = [p \in Planes |-> "approach"]
    /\ pos = [p \in Planes |-> Start[p].pos]
    /\ speed = [p \in Planes |-> Start[p].speed]
    /\ moves = [p \in Planes |-> 0]
    /\ turns = [p \in Planes |-> 0]
    /\ last = [p \in Planes |->
                  [kind |-> "info", value |-> Still, n |-> 0, at |-> 0, turn |-> 0]]
    /\ pulses = [p \in Planes |-> {}]
    /\ console = "prompt"
    /\ commands = 0
    /\ typed = NoMessage /\ order = [c \in Clients |-> NoMessage]
    /\ shown = {}
    /\ client = [c \in Clients |-> "idle"]
    /\ answer = [c \in Clients |-> {}]

-----------------------------------------------------------------------------
(* The aircraft.                                                           *)

(* Arrival, ENTER_AIRSPACE and name_attach (in steps in module Radar).     *)
Enter(p) ==
    /\ AircraftGoes(p, "approach", "flying")
    /\ UNCHANGED <<stateVars, counters, pulses, consoleVars, clientVars>>

(* The timer ends the wait; it moves, and leaves the loop when that took   *)
(* it out of the airspace.                                                 *)
Move(p) ==
    /\ pos' = [pos EXCEPT ![p] = [a \in Axes |-> @[a] + speed[p][a]]]
    /\ AircraftGoes(p, "flying", IF Inside(pos'[p]) THEN "receive" ELSE "exiting")
    /\ moves' = [moves EXCEPT ![p] = @ + 1]
    /\ UNCHANGED <<speed, last, turns, pulses, consoleVars, clientVars>>

(* EXIT_AIRSPACE is answered; name_detach, with what waits in the channel. *)
Exit(p) ==
    /\ AircraftGoes(p, "exiting", "gone")
    /\ pulses' = [pulses EXCEPT ![p] = {}]
    /\ UNCHANGED <<stateVars, counters, consoleVars, clientVars>>

(* Seeded fault: it serves messages until its channel is empty.            *)
AfterMessage_Again == "receive"

AfterMessage == "flying"

(* A pulse takes the aircraft's turn like a message.                       *)
ReceivePulse(p, c) ==
    /\ AircraftGoes(p, "receive", AfterMessage)
    /\ c \in pulses[p] /\ pulses' = [pulses EXCEPT ![p] = @ \ {c}]
    /\ turns' = [turns EXCEPT ![p] = @ + 1]
    /\ UNCHANGED <<stateVars, moves, consoleVars, clientVars>>

(* A component that is 0 leaves the speed as it is.                        *)
changeHeading(old, new) == [a \in Axes |-> IF new[a] # 0 THEN new[a] ELSE old[a]]

(* distance / transitionTime, rounded down or up.                          *)
Third(distance) == {distance \div 3, -((-distance) \div 3)}

SetSpeed(p, v) == speed' = [speed EXCEPT ![p] = v] /\ UNCHANGED pos

Notes(p, m) ==
    last' = [last EXCEPT ![p] = [kind |-> m.kind, value |-> m.value, n |-> m.n,
                                 at |-> moves[p], turn |-> turns[p]]]

ObeyHeading(p, m) ==
    m.kind = "heading" /\ SetSpeed(p, changeHeading(speed[p], m.value)) /\ Notes(p, m)

ObeyPosition(p, m) ==
    /\ m.kind = "position" /\ Notes(p, m)
    /\ \E v \in [Axes -> UNION {Third(m.value[a] - pos[p][a]) : a \in Axes}] :
           /\ \A a \in Axes : v[a] \in Third(m.value[a] - pos[p][a])
           /\ SetSpeed(p, v)

(* Seeded fault: the altitude falls through to the default case.           *)
ObeyAltitude_Default(p, m) == m.kind = "altitude" /\ UNCHANGED stateVars

(* Any altitude is accepted, one outside the airspace too.                 *)
ObeyAltitude(p, m) ==
    /\ m.kind = "altitude" /\ Notes(p, m)
    /\ pos' = [pos EXCEPT ![p][Vertical] = m.value[Vertical]]
    /\ UNCHANGED speed

(* What the aircraft does with a message: a report changes nothing.        *)
Obey(p, m) ==
    \/ m.kind \in {"poll", "info"} /\ UNCHANGED stateVars
    \/ ObeyHeading(p, m) \/ ObeyPosition(p, m) \/ ObeyAltitude(p, m)

(* Seeded fault: the client takes the reply for a failure and tries again. *)
AfterSend_Again == "open"

AfterSend == "close"

(* It receives the message of a client, behind a pulse of that client, and *)
(* replies when it has obeyed.                                             *)
Receive(p, c) ==
    /\ AircraftGoes(p, "receive", AfterMessage)
    /\ ClientGoes(c, "sending", AfterSend)
    /\ order[c].plane = p /\ c \notin pulses[p]
    /\ Obey(p, order[c]) /\ turns' = [turns EXCEPT ![p] = @ + 1]
    /\ answer' = [answer EXCEPT ![c] =
                     IF order[c].kind \in {"poll", "info"} THEN {ReportOf(p)} ELSE {}]
    /\ UNCHANGED <<moves, pulses, consoleVars, order>>

-----------------------------------------------------------------------------
(* The clients.                                                            *)

(* The poller's loop takes up an aircraft.                                 *)
StartPoll(p) ==
    /\ ClientGoes("radar", "idle", "open")
    /\ order' = [order EXCEPT !["radar"] = Poll(p)]
    /\ answer' = [answer EXCEPT !["radar"] = {}]
    /\ UNCHANGED <<aircraftVars, pulses, consoleVars>>

(* HandleCommunications takes a command, and replies unless it is a        *)
(* request for information.                                                *)
TakeCommand ==
    /\ console = "toComms" /\ ClientGoes("comms", "idle", "open")
    /\ console' = IF typed.kind = "info" THEN "toAircraft" ELSE "prompt"
    /\ order' = [order EXCEPT !["comms"] = typed]
    /\ answer' = [answer EXCEPT !["comms"] = {}]
    /\ UNCHANGED <<aircraftVars, pulses, commands, typed, shown>>

(* Seeded fault: a failed request is not replied to.                       *)
Replies_OnlyInfo(c) == c = "comms" /\ order[c].kind = "info" /\ answer[c] # {}

(* The console is still blocked, in a request for information.             *)
Replies(c) == c = "comms" /\ order[c].kind = "info"

(* The client is back in its loop, where its local message ends; the       *)
(* answer to a request, or its failure, goes to the console.               *)
Finish(c) ==
    /\ order' = [order EXCEPT ![c] = NoMessage]
    /\ IF Replies(c) THEN ConsoleGoes("toAircraft", "prompt") /\ shown' = answer[c]
                     ELSE UNCHANGED <<console, shown>>
    /\ UNCHANGED <<aircraftVars, commands, typed, answer>>

(* name_open.                                                              *)
Open(c) ==
    /\ ClientGoes(c, "open", "sending") /\ Attached(order[c].plane)
    /\ UNCHANGED <<aircraftVars, pulses, consoleVars, order, answer>>

OpenFails(c) ==
    /\ ClientGoes(c, "open", "idle") /\ ~Attached(order[c].plane)
    /\ Finish(c)
    /\ UNCHANGED pulses

(* MsgSend fails: the channel was detached while the message waited.       *)
SendFails(c) ==
    /\ ClientGoes(c, "sending", "close") /\ ~Attached(order[c].plane)
    /\ UNCHANGED <<aircraftVars, pulses, consoleVars, order, answer>>

(* name_close, which leaves a pulse in a channel that still exists.        *)
Close(c) ==
    /\ ClientGoes(c, "close", "idle")
    /\ Finish(c)
    /\ pulses' = IF Attached(order[c].plane)
                 THEN [pulses EXCEPT ![order[c].plane] = @ \cup {c}] ELSE pulses

(* The operator types a command: the console blocks in MsgSend.            *)
Type(o) ==
    /\ ConsoleGoes("prompt", "toComms")
    /\ commands < MaxCommands /\ commands' = commands + 1
    /\ typed' = [plane |-> o.plane, kind |-> o.kind, value |-> o.value, n |-> commands + 1]
    /\ UNCHANGED <<aircraftVars, pulses, shown, clientVars>>

(* Command 0.                                                              *)
TypeExit ==
    /\ ConsoleGoes("prompt", "ended")
    /\ UNCHANGED <<aircraftVars, pulses, commands, typed, shown, clientVars>>

-----------------------------------------------------------------------------
AircraftStep(p) == Enter(p) \/ Move(p) \/ Exit(p) \/ \E c \in Clients : ReceivePulse(p, c)

ClientStep(c) == Open(c) \/ OpenFails(c) \/ SendFails(c) \/ Close(c)

ConsoleStep == (\E o \in Orders : Type(o)) \/ TypeExit

Next ==
    \/ \E p \in Planes : AircraftStep(p) \/ StartPoll(p) \/ \E c \in Clients : Receive(p, c)
    \/ \E c \in Clients : ClientStep(c)
    \/ TakeCommand
    \/ ConsoleStep

(* Threads are scheduled, and a channel is served in the order of arrival, *)
(* so that no client is passed over for ever.  Neither polls nor commands  *)
(* are bound to come.                                                      *)
Fairness ==
    /\ \A p \in Planes : WF_vars(AircraftStep(p))
    /\ \A p \in Planes, c \in Clients : SF_vars(Receive(p, c))
    /\ \A c \in Clients : WF_vars(ClientStep(c))
    /\ WF_vars(TakeCommand)

Spec == Init /\ [][Next]_vars

FairSpec == Spec /\ Fairness

-----------------------------------------------------------------------------
(* The abstract specification that this one implements.                    *)

(* What the operator may type that changes a flight.                       *)
Commands ==
    {[plane |-> o.plane, kind |-> o.kind, value |-> o.value, n |-> n] :
        o \in {i \in Orders : i.kind # "info"}, n \in 1..MaxCommands}

(* The phase of the flight that the operator knows of.                     *)
Phase(p) ==
    CASE flight[p] = "approach" -> "expected"
      [] flight[p] \in {"flying", "receive"} -> "flying"
      [] flight[p] = "exiting" -> "leaving"
      [] flight[p] = "gone" -> "gone"

(* A command waits with the console, in its MsgSend to the Communications  *)
(* System, then with the Communications System, until its own has returned *)
(* or cannot be tried.                                                     *)
Waiting(there, m) == IF there /\ m.kind # "info" THEN <<m>> ELSE <<>>

AtConsole == Waiting(console = "toComms", typed)
AtComms == Waiting(client["comms"] \in {"open", "sending"}, order["comms"])

Queue == INSTANCE CommandQueue
    WITH phase <- [p \in Planes |-> Phase(p)], queue <- AtComms \o AtConsole

-----------------------------------------------------------------------------
(* Properties.                                                             *)

(* Every variable keeps its type, and no disconnect pulse waits in a       *)
(* channel that does not exist, before name_attach or after name_detach.   *)
AircraftTypeOK ==
    /\ flight \in [Planes -> {"approach", "flying", "receive", "exiting", "gone"}]
    /\ pos \in [Planes -> Vector]
    /\ speed \in [Planes -> Vector]
    /\ moves \in [Planes -> Nat]
    /\ turns \in [Planes -> Nat]
    /\ last \in [Planes -> Note]
    /\ pulses \in [Planes -> SUBSET Clients]

ClientTypeOK ==
    /\ console \in {"prompt", "toComms", "toAircraft", "ended"}
    /\ commands \in 0..MaxCommands
    /\ typed \in Message
    /\ shown \subseteq Report
    /\ client \in [Clients -> {"idle", "open", "sending", "close"}]
    /\ order \in [Clients -> Message]
    /\ answer \in [Clients -> SUBSET Report]

ChannelsOK == \A p \in Planes : flight[p] \in {"approach", "gone"} => pulses[p] = {}

TypeOK == AircraftTypeOK /\ ClientTypeOK /\ ChannelsOK

(* The reports the Radar, the Communications System and the operator hold. *)
Reports == answer["radar"] \cup answer["comms"] \cup shown

(* No report shows a position outside the airspace, although an altitude   *)
(* command may set one: the aircraft moves and checks its bounds before it *)
(* receives another message.                                               *)
ReportsInside == \A r \in Reports : Inside(r.pos)

(* A report predicts the flight until the aircraft obeys another command:  *)
(* the velocity stays as reported and the position is the reported one     *)
(* carried on by it, move for move.  This is what the collision check and  *)
(* the operator rely on when they use a report that is no longer new.      *)
Predicts(r) ==
    /\ speed[r.plane] = r.speed
    /\ \A a \in Axes : pos[r.plane][a] = r.pos[a] + (moves[r.plane] - r.at) * r.speed[a]

ReportsPredict == \A r \in Reports : last[r.plane].n = r.n => Predicts(r)

(* Aircraft.cpp:161, "reach the target position in ~3 seconds": when the   *)
(* aircraft comes to its third message or pulse after a position command,  *)
(* or leaves instead, it is at the target but for rounding, unless another *)
(* command came between.  So each message or pulse, a poll or a request    *)
(* too, takes the aircraft one move, and none is lost or added.            *)
TargetReached ==
    \A p \in Planes :
        (/\ last[p].kind = "position"
         /\ flight[p] # "flying" /\ turns[p] = last[p].turn + 3)
            => \A a \in Axes : pos[p][a] - last[p].value[a] \in -2..2

(* Commands take effect in the order they were typed and once each,        *)
(* although the operator is told OK, and types the next, before the        *)
(* aircraft has the one before.                                            *)
CommandsInOrder ==
    [][\A p \in Planes : last'[p] # last[p] => last'[p].n > last[p].n]_vars

(* A command the console reported as sent, which the Communications System *)
(* has reached the aircraft with, is in effect when MsgSend has returned,  *)
(* whatever else the aircraft served meanwhile; or the aircraft has left.  *)
SentIsObeyed ==
    \A p \in Planes :
        (/\ client["comms"] = "close"
         /\ order["comms"].plane = p /\ order["comms"].kind # "info")
            => (last[p].n = order["comms"].n \/ flight[p] = "gone")

(* Console, Communications System and aircraft together are one queue of   *)
(* commands: each typed command takes effect once, in its turn, in one     *)
(* step and on the one aircraft it is for, or is dropped because that      *)
(* aircraft has no channel; requests, polls, pulses and failures of a send *)
(* change no flight.                                                       *)
CommandsQueue == Queue!Spec

(* The Radar's poll is not held up for ever by an aircraft that is busy    *)
(* with commands and pulses, or leaving.                                   *)
PollAnswered == (client["radar"] = "sending") ~> (client["radar"] = "idle")

(* The operator gets the prompt back after every command ("Commands are    *)
(* dispatched immediately"), reachable aircraft or not.                    *)
ConsoleServed == (console \in {"toComms", "toAircraft"}) ~> (console = "prompt")

=============================================================================
