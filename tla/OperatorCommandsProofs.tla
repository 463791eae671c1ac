----------------------- MODULE OperatorCommandsProofs -----------------------
(***************************************************************************)
(* Proofs of the safety properties of module OperatorCommands, for every   *)
(* set of aircraft, every airspace and every sequence of commands.         *)
(***************************************************************************)
EXTENDS OperatorCommands, SequenceTheorems, TLAPS

USE CommandAssumption
USE DEF stateVars, counters, aircraftVars, consoleVars, clientVars, vars, AircraftGoes, ClientGoes,
        ConsoleGoes, Clients, Note

(* The numbers of commands grow on their way from the console through the  *)
(* Communications System to the aircraft, and on to the reports.           *)
NumbersOK ==
    /\ order["radar"].kind = "poll"
    /\ console = "toComms" => typed.kind # "poll" /\ typed.n = commands
    /\ \A p \in Planes :
           last[p].n <= commands /\ (console = "toComms" => last[p].n < commands)
    /\ client["comms"] # "idle" =>
           /\ order["comms"].kind # "poll"
           /\ order["comms"].n <= commands
           /\ console = "toComms" => order["comms"].n < commands
    /\ client["comms"] \in {"open", "sending"} =>
           \A p \in Planes : last[p].n < order["comms"].n
    /\ client["comms"] = "close" => \A p \in Planes : last[p].n <= order["comms"].n
    /\ \A r \in Reports : r.n <= last[r.plane].n

(* An aircraft that receives is inside the airspace.                       *)
BoundsOK == \A p \in Planes : flight[p] = "receive" => Inside(pos[p])

(* After a position command the rest of the way is what the velocity       *)
(* covers in the rest of the three moves, but for rounding.                *)
GoalsOK ==
    \A p \in Planes :
        /\ last[p].at <= moves[p]
        /\ last[p].kind = "position" /\ moves[p] <= last[p].at + 3 =>
               \A a \in Axes :
                   last[p].value[a] - pos[p][a] - (last[p].at + 3 - moves[p]) * speed[p][a]
                       \in -2..2

(* An aircraft moves once for each message or pulse, before it receives    *)
(* it.                                                                     *)
TurnsOK ==
    \A p \in Planes :
        /\ flight[p] = "approach" => moves[p] = 0
        /\ flight[p] \in {"approach", "flying"} => moves[p] = turns[p]
        /\ flight[p] \in {"receive", "exiting", "gone"} => moves[p] = turns[p] + 1
        /\ last[p].kind # "info" => last[p].at = last[p].turn + 1

(* Whom the Communications System sends to has attached its channel.       *)
SentOK ==
    client["comms"] \in {"sending", "close"} => flight[order["comms"].plane] # "approach"

(* The inductive invariant.                                                *)
IInv ==
    /\ TypeOK /\ NumbersOK /\ BoundsOK /\ GoalsOK /\ TurnsOK /\ SentOK
    /\ ReportsInside /\ ReportsPredict /\ SentIsObeyed

-----------------------------------------------------------------------------
(* The operators the model is built from.                                  *)

(* Vectors with a component replaced, and their components.                *)
LEMMA VectorType ==
  /\ Still \in Vector
  /\ \A v, w \in Vector : changeHeading(v, w) \in Vector
  /\ \A v, w \in Vector : [a \in Axes |-> v[a] + w[a]] \in Vector
  /\ \A v, w \in Vector : [v EXCEPT ![Vertical] = w[Vertical]] \in Vector
BY DEF Still, Vector, changeHeading

(* The message that stands for none is a message.                          *)
LEMMA NoMessageType == NoMessage \in Message /\ NoMessage.kind = "poll"
<1>1. (CHOOSE p \in Planes : TRUE) \in Planes
  OBVIOUS
<1>2. \A p \in Planes : Poll(p) \in Message /\ Poll(p).kind = "poll"
  BY VectorType DEF Poll, Message
<1> QED
  BY <1>1, <1>2 DEF NoMessage

(* A third of a distance, times three, is the distance but for rounding.   *)
LEMMA ThirdBound ==
  \A d \in Int : \A v \in Third(d) : v \in Int /\ d - 3 * v \in -2..2
<1> SUFFICES ASSUME NEW d \in Int, NEW v \in Third(d)
             PROVE  v \in Int /\ d - 3 * v \in -2..2
  OBVIOUS
<1>1. \A n \in Int : n \div 3 \in Int /\ 3 * (n \div 3) <= n /\ n <= 3 * (n \div 3) + 2
  OBVIOUS
<1> QED
  BY <1>1 DEF Third

(* A report is of the aircraft as it is.                                   *)
LEMMA ReportType ==
  ASSUME TypeOK, NEW p \in Planes
  PROVE  /\ ReportOf(p) \in Report
         /\ ReportOf(p).plane = p /\ ReportOf(p).n = last[p].n
         /\ ReportOf(p).pos = pos[p] /\ ReportOf(p).speed = speed[p]
         /\ ReportOf(p).at = moves[p]
BY DEF TypeOK, AircraftTypeOK, ReportOf, Report

(* What a message does to the aircraft's variables: a report nothing, and  *)
(* a command is noted.                                                     *)
LEMMA ObeyEffect ==
  ASSUME TypeOK, NEW p \in Planes, NEW m \in Message, Obey(p, m)
  PROVE  /\ pos' \in [Planes -> Vector] /\ speed' \in [Planes -> Vector]
         /\ last' \in [Planes -> Note]
         /\ \A q \in Planes \ {p} :
                pos'[q] = pos[q] /\ speed'[q] = speed[q] /\ last'[q] = last[q]
         /\ m.kind \in {"poll", "info"} => UNCHANGED stateVars
         /\ m.kind \notin {"poll", "info"} =>
                last'[p] = [kind |-> m.kind, value |-> m.value, n |-> m.n,
                            at |-> moves[p], turn |-> turns[p]]
         /\ m.kind = "position" => \A a \in Axes :
                pos'[p] = pos[p] /\ speed'[p][a] \in Third(m.value[a] - pos[p][a])
<1>1. /\ pos \in [Planes -> Vector] /\ speed \in [Planes -> Vector]
      /\ last \in [Planes -> Note]
      /\ moves[p] \in Nat /\ turns[p] \in Nat /\ pos[p] \in Vector /\ speed[p] \in Vector
      /\ m.kind \in Kinds \cup {"poll"} /\ m.value \in Vector /\ m.n \in 0..MaxCommands
  BY DEF TypeOK, AircraftTypeOK, Message
<1>2. CASE m.kind \in {"poll", "info"} /\ UNCHANGED stateVars
  BY <1>1, <1>2
<1>3. ASSUME Notes(p, m), m.kind \notin {"poll", "info"}
      PROVE  /\ last' \in [Planes -> Note]
             /\ \A q \in Planes \ {p} : last'[q] = last[q]
             /\ last'[p] = [kind |-> m.kind, value |-> m.value, n |-> m.n,
                            at |-> moves[p], turn |-> turns[p]]
  <2> DEFINE note == [kind |-> m.kind, value |-> m.value, n |-> m.n,
                      at |-> moves[p], turn |-> turns[p]]
  <2>1. note \in Note
    BY <1>1, <1>3
  <2>2. last' = [last EXCEPT ![p] = note]
    BY <1>3 DEF Notes
  <2> HIDE DEF note
  <2>3. last'[p] = note
    BY <1>1, <2>2
  <2> QED
    BY <1>1, <2>1, <2>2, <2>3 DEF note
<1>4. CASE ObeyHeading(p, m)
  <2>1. changeHeading(speed[p], m.value) \in Vector
    BY <1>1, VectorType
  <2> QED
    BY <1>1, <1>3, <1>4, <2>1 DEF ObeyHeading, SetSpeed
<1>5. CASE ObeyPosition(p, m)
  <2>1. \A a \in Axes : m.value[a] - pos[p][a] \in Int
    BY <1>1 DEF Vector
  <2>2. PICK v \in [Axes -> UNION {Third(m.value[a] - pos[p][a]) : a \in Axes}] :
            /\ \A a \in Axes : v[a] \in Third(m.value[a] - pos[p][a])
            /\ SetSpeed(p, v)
    BY <1>5 DEF ObeyPosition
  <2>3. v \in Vector
    BY <2>1, <2>2, ThirdBound DEF Vector
  <2> QED
    BY <1>1, <1>3, <1>5, <2>2, <2>3 DEF ObeyPosition, SetSpeed
<1>6. CASE ObeyAltitude(p, m)
  <2>1. [pos[p] EXCEPT ![Vertical] = m.value[Vertical]] \in Vector
    BY <1>1, VectorType
  <2>2. pos' = [pos EXCEPT ![p] = [pos[p] EXCEPT ![Vertical] = m.value[Vertical]]]
    BY <1>1, <1>6 DEF ObeyAltitude
  <2> QED
    BY <1>1, <1>3, <1>6, <2>1, <2>2 DEF ObeyAltitude
<1> QED
  BY <1>2, <1>4, <1>5, <1>6 DEF Obey

-----------------------------------------------------------------------------
(* Types.                                                                  *)

(* Every step keeps the types of the aircraft's variables.                 *)
LEMMA AircraftTypes ==
  ASSUME TypeOK, Next
  PROVE  AircraftTypeOK'
<1> USE DEF AircraftTypeOK
<1>1. AircraftTypeOK
  BY DEF TypeOK
<1>2. ASSUME NEW p \in Planes, Move(p)
      PROVE  AircraftTypeOK'
  <2>1. [a \in Axes |-> pos[p][a] + speed[p][a]] \in Vector
    BY <1>1, VectorType
  <2>2. pos' = [pos EXCEPT ![p] = [a \in Axes |-> pos[p][a] + speed[p][a]]]
    BY <1>2 DEF Move
  <2>3. pos' \in [Planes -> Vector]
    BY <1>1, <2>1, <2>2
  <2>4. flight' \in [Planes -> {"approach", "flying", "receive", "exiting", "gone"}]
    BY <1>1, <1>2 DEF Move
  <2>5. moves' \in [Planes -> Nat]
    BY <1>1, <1>2 DEF Move
  <2>6. UNCHANGED <<speed, last, turns, pulses>>
    BY <1>2 DEF Move
  <2> QED
    BY <1>1, <2>3, <2>4, <2>5, <2>6
<1>3. ASSUME NEW p \in Planes, NEW c \in Clients, ReceivePulse(p, c)
      PROVE  AircraftTypeOK'
  BY <1>1, <1>3 DEF ReceivePulse, AfterMessage
<1>4. ASSUME NEW p \in Planes, NEW c \in Clients, Receive(p, c)
      PROVE  AircraftTypeOK'
  <2>1. order[c] \in Message /\ Obey(p, order[c])
    BY <1>4 DEF Receive, TypeOK, ClientTypeOK
  <2>2. flight' \in [Planes -> {"approach", "flying", "receive", "exiting", "gone"}]
    BY <1>1, <1>4 DEF Receive, AfterMessage
  <2>3. turns' \in [Planes -> Nat] /\ UNCHANGED <<moves, pulses>>
    BY <1>1, <1>4 DEF Receive
  <2>4. pos' \in [Planes -> Vector] /\ speed' \in [Planes -> Vector] /\ last' \in [Planes -> Note]
    BY <2>1, ObeyEffect
  <2> QED
    BY <1>1, <2>2, <2>3, <2>4
<1>5. ASSUME NEW p \in Planes, Enter(p) \/ Exit(p) \/ StartPoll(p)
      PROVE  AircraftTypeOK'
  BY <1>1, <1>5 DEF Enter, Exit, StartPoll
<1>6. ASSUME NEW c \in Clients, ClientStep(c)
      PROVE  AircraftTypeOK'
  <2>1. CASE Close(c)
    BY <1>1, <2>1 DEF Close, Finish
  <2>2. CASE Open(c) \/ OpenFails(c) \/ SendFails(c)
    BY <1>1, <2>2 DEF Open, OpenFails, SendFails, Finish
  <2> QED
    BY <1>6, <2>1, <2>2 DEF ClientStep
<1>7. CASE TakeCommand \/ ConsoleStep
  BY <1>1, <1>7 DEF TakeCommand, ConsoleStep, Type, TypeExit
<1> QED
  BY <1>2, <1>3, <1>4, <1>5, <1>6, <1>7 DEF Next, AircraftStep

(* Every step keeps the types of the variables of the console and of the   *)
(* clients.                                                                *)
LEMMA ClientTypes ==
  ASSUME TypeOK, Next
  PROVE  ClientTypeOK'
<1> USE DEF ClientTypeOK
<1>1. ClientTypeOK
  BY DEF TypeOK
<1>2. ASSUME NEW p \in Planes, AircraftStep(p)
      PROVE  ClientTypeOK'
  BY <1>1, <1>2 DEF AircraftStep, Enter, Move, Exit, ReceivePulse
<1>3. ASSUME NEW p \in Planes, StartPoll(p)
      PROVE  ClientTypeOK'
  <2>1. Poll(p) \in Message
    BY VectorType DEF Poll, Message
  <2> QED
    BY <1>1, <1>3, <2>1 DEF StartPoll
<1>4. ASSUME NEW p \in Planes, NEW c \in Clients, Receive(p, c)
      PROVE  ClientTypeOK'
  <2>1. answer' \in [Clients -> SUBSET Report]
    BY <1>1, <1>4, ReportType DEF Receive
  <2> QED
    BY <1>1, <1>4, <2>1 DEF Receive, AfterSend
<1>5. ASSUME NEW c \in Clients, ClientStep(c)
      PROVE  ClientTypeOK'
  <2>1. CASE Open(c) \/ SendFails(c)
    BY <1>1, <2>1 DEF Open, SendFails
  <2>2. CASE OpenFails(c) \/ Close(c)
    <3>1. Finish(c) /\ client' \in [Clients -> {"idle", "open", "sending", "close"}]
      BY <1>1, <2>2 DEF OpenFails, Close
    <3>2. order' \in [Clients -> Message]
      BY <1>1, <3>1, NoMessageType DEF Finish
    <3>3. shown' \subseteq Report
      BY <1>1, <3>1 DEF Finish
    <3> QED
      BY <1>1, <3>1, <3>2, <3>3 DEF Finish
  <2> QED
    BY <1>5, <2>1, <2>2 DEF ClientStep
<1>6. CASE TakeCommand
  BY <1>1, <1>6 DEF TakeCommand
<1>7. ASSUME NEW o \in Orders, Type(o)
      PROVE  ClientTypeOK'
  <2>1. typed' \in Message
    BY <1>1, <1>7 DEF Type, Message
  <2> QED
    BY <1>1, <1>7, <2>1 DEF Type
<1>8. CASE TypeExit
  BY <1>1, <1>8 DEF TypeExit
<1> QED
  BY <1>2, <1>3, <1>4, <1>5, <1>6, <1>7, <1>8 DEF Next, ConsoleStep

(* A pulse is left only in a channel that exists, and name_detach takes it *)
(* away with the channel.                                                  *)
LEMMA ChannelsStep ==
  ASSUME TypeOK, Next
  PROVE  ChannelsOK'
<1> USE DEF ChannelsOK
<1>1. /\ ChannelsOK /\ pulses \in [Planes -> SUBSET Clients]
      /\ flight \in [Planes -> {"approach", "flying", "receive", "exiting", "gone"}]
  BY DEF TypeOK, AircraftTypeOK
<1>2. ASSUME NEW p \in Planes, AircraftStep(p)
      PROVE  ChannelsOK'
  BY <1>1, <1>2 DEF AircraftStep, Enter, Move, Exit, ReceivePulse, AfterMessage
<1>3. ASSUME NEW p \in Planes, NEW c \in Clients, Receive(p, c)
      PROVE  ChannelsOK'
  BY <1>1, <1>3 DEF Receive, AfterMessage
<1>4. ASSUME NEW c \in Clients, Close(c)
      PROVE  ChannelsOK'
  BY <1>1, <1>4 DEF Close, Finish, Attached
<1>5. ASSUME UNCHANGED <<flight, pulses>>
      PROVE  ChannelsOK'
  BY <1>1, <1>5
<1>6. ASSUME NEW c \in Clients, Open(c) \/ OpenFails(c) \/ SendFails(c)
      PROVE  ChannelsOK'
  BY <1>5, <1>6 DEF Open, OpenFails, SendFails, Finish
<1>7. CASE TakeCommand \/ ConsoleStep \/ \E p \in Planes : StartPoll(p)
  BY <1>5, <1>7 DEF TakeCommand, ConsoleStep, Type, TypeExit, StartPoll
<1> QED
  BY <1>2, <1>3, <1>4, <1>6, <1>7 DEF Next, ClientStep

(* Every step keeps the types.                                             *)
LEMMA TypesKept ==
  ASSUME TypeOK, Next
  PROVE  TypeOK'
BY AircraftTypes, ClientTypes, ChannelsStep DEF TypeOK

-----------------------------------------------------------------------------
(* What a step may do, as far as the other parts of the invariant care.    *)

(* Only the move of an aircraft and a message it receives change its       *)
(* position, velocity, counter of moves or last command.                   *)
LEMMA AircraftUnchanged ==
  ASSUME Next,
         \A p \in Planes : ~Move(p) /\ \A c \in Clients : ~Receive(p, c)
  PROVE  UNCHANGED <<stateVars, moves>>
BY DEF Next, AircraftStep, Enter, Exit, ReceivePulse, StartPoll, ClientStep, Open, OpenFails,
       SendFails, Close, Finish, TakeCommand, ConsoleStep, Type, TypeExit

(* Only a message that is received makes a new report.                     *)
LEMMA ReportsKept ==
  ASSUME TypeOK, Next, \A p \in Planes, c \in Clients : ~Receive(p, c)
  PROVE  Reports' \subseteq Reports
<1>1. answer \in [Clients -> SUBSET Report]
  BY DEF TypeOK, ClientTypeOK
<1>2. ASSUME NEW c \in Clients, ClientStep(c)
      PROVE  UNCHANGED answer /\ (shown' = shown \/ shown' = answer["comms"])
  BY <1>2 DEF ClientStep, Open, OpenFails, SendFails, Close, Finish, Replies
<1>3. CASE \E c \in Clients : ClientStep(c)
  BY <1>2, <1>3 DEF Reports
<1>4. CASE TakeCommand \/ \E p \in Planes : StartPoll(p)
  BY <1>1, <1>4 DEF TakeCommand, StartPoll, Reports
<1>5. CASE ConsoleStep \/ \E p \in Planes : AircraftStep(p)
  BY <1>5
  DEF ConsoleStep, Type, TypeExit, AircraftStep, Enter, Move, Exit, ReceivePulse, Reports
<1> QED
  BY <1>3, <1>4, <1>5 DEF Next

(* A message that an aircraft receives either leaves its state and makes a *)
(* report of it, or is the command of the Communications System, newer     *)
(* than the last one obeyed, and makes none.                               *)
LEMMA ReceiveEffect ==
  ASSUME IInv, NEW p \in Planes, NEW c \in Clients, Receive(p, c)
  PROVE  \/ /\ UNCHANGED stateVars
            /\ order[c].kind \in {"poll", "info"}
            /\ Reports' \subseteq Reports \cup {ReportOf(p)}
         \/ /\ c = "comms" /\ order[c].kind \in {"heading", "position", "altitude"}
            /\ last[p].n < order[c].n
            /\ last'[p].kind = order[c].kind /\ last'[p].value = order[c].value
            /\ last'[p].n = order[c].n
            /\ last'[p].at = moves[p] /\ last'[p].turn = turns[p]
            /\ \A q \in Planes \ {p} :
                   pos'[q] = pos[q] /\ speed'[q] = speed[q] /\ last'[q] = last[q]
            /\ Reports' \subseteq Reports
<1>1. /\ TypeOK /\ order[c] \in Message /\ Obey(p, order[c])
      /\ answer \in [Clients -> SUBSET Report]
      /\ order[c].kind \in Kinds \cup {"poll"}
  BY DEF Receive, IInv, TypeOK, ClientTypeOK, Message
<1>2. CASE order[c].kind \in {"poll", "info"}
  <2>1. UNCHANGED stateVars
    BY <1>1, <1>2, ObeyEffect
  <2>2. answer' = [answer EXCEPT ![c] = {ReportOf(p)}] /\ shown' = shown
    BY <1>2 DEF Receive
  <2>3. Reports' \subseteq Reports \cup {ReportOf(p)}
    BY <1>1, <2>2 DEF Reports
  <2> QED
    BY <1>2, <2>1, <2>3
<1>3. CASE order[c].kind \notin {"poll", "info"}
  <2>1. c = "comms" /\ client["comms"] = "sending"
    BY <1>3 DEF Receive, IInv, NumbersOK
  <2>2. last[p].n < order[c].n
    BY <2>1 DEF IInv, NumbersOK
  <2>3. answer' = [answer EXCEPT ![c] = {}] /\ shown' = shown
    BY <1>3 DEF Receive
  <2>4. Reports' \subseteq Reports
    BY <1>1, <2>3 DEF Reports
  <2>5. /\ last'[p] = [kind |-> order[c].kind, value |-> order[c].value,
                       n |-> order[c].n, at |-> moves[p], turn |-> turns[p]]
        /\ \A q \in Planes \ {p} :
               pos'[q] = pos[q] /\ speed'[q] = speed[q] /\ last'[q] = last[q]
    BY <1>1, <1>3, ObeyEffect
  <2>6. /\ last'[p].kind = order[c].kind /\ last'[p].value = order[c].value
        /\ last'[p].n = order[c].n
        /\ last'[p].at = moves[p] /\ last'[p].turn = turns[p]
    BY <2>5
  <2>7. order[c].kind \in {"heading", "position", "altitude"}
    BY <1>1, <1>3 DEF Kinds
  <2> QED
    BY <2>1, <2>2, <2>4, <2>5, <2>6, <2>7
<1> QED
  BY <1>2, <1>3

-----------------------------------------------------------------------------
(* The parts of the invariant.                                             *)

(* The numbers of what is known after a step: they have not gone back.     *)
LEMMA NumbersStep ==
  ASSUME IInv, Next
  PROVE  NumbersOK'
<1>1. TypeOK /\ NumbersOK
  BY DEF IInv
<1>2. /\ commands \in Nat /\ commands' \in Nat /\ TypeOK'
      /\ \A p \in Planes : last[p].n \in Nat /\ last'[p].n \in Nat
      /\ order \in [Clients -> Message]
      /\ client \in [Clients -> {"idle", "open", "sending", "close"}]
      /\ \A c \in Clients : order[c].n \in Nat
      /\ \A r \in Reports : r.plane \in Planes /\ r.n \in Nat
  <2>1. TypeOK'
    BY <1>1, TypesKept
  <2>2. ASSUME NEW r \in Reports
        PROVE  r.plane \in Planes /\ r.n \in Nat
    <3>1. r \in Report
      BY <1>1 DEF Reports, TypeOK, ClientTypeOK
    <3> QED
      BY <3>1 DEF Report
  <2>3. \A p \in Planes : last[p].n \in Nat /\ last'[p].n \in Nat
    BY <1>1, <2>1 DEF TypeOK, AircraftTypeOK
  <2>4. /\ commands \in Nat /\ commands' \in Nat
        /\ order \in [Clients -> Message]
        /\ client \in [Clients -> {"idle", "open", "sending", "close"}]
    BY <1>1, <2>1 DEF TypeOK, ClientTypeOK
  <2>5. \A c \in Clients : order[c].n \in Nat
    BY <2>4 DEF Message
  <2> QED
    BY <2>1, <2>2, <2>3, <2>4, <2>5
<1>3. ASSUME UNCHANGED last, Reports' \subseteq Reports
      PROVE  \A r \in Reports' : r.n <= last'[r.plane].n
  BY <1>1, <1>3 DEF NumbersOK
<1>4. ASSUME NEW p \in Planes, AircraftStep(p)
      PROVE  NumbersOK'
  BY <1>1, <1>4 DEF AircraftStep, Enter, Move, Exit, ReceivePulse, NumbersOK, Reports
<1>5. ASSUME NEW p \in Planes, NEW c \in Clients, Receive(p, c)
      PROVE  NumbersOK'
  <2>1. UNCHANGED <<console, commands, typed, order>>
    BY <1>5 DEF Receive
  <2>2. client[c] = "sending" /\ client' = [client EXCEPT ![c] = "close"]
    BY <1>5 DEF Receive, AfterSend
  <2>3. CASE /\ UNCHANGED stateVars
             /\ Reports' \subseteq Reports \cup {ReportOf(p)}
    <3>1. \A r \in Reports' : r.n <= last'[r.plane].n
      BY <1>1, <1>2, <2>3, ReportType DEF NumbersOK
    <3>2. client'["comms"] = client["comms"]
          \/ (client["comms"] = "sending" /\ client'["comms"] = "close")
      BY <1>2, <2>2
    <3>3. UNCHANGED last
      BY <2>3
    <3> QED
      BY <1>1, <1>2, <2>1, <3>1, <3>2, <3>3 DEF NumbersOK
  <2>4. CASE /\ c = "comms" /\ last[p].n < order[c].n
             /\ last'[p].n = order[c].n
             /\ \A q \in Planes \ {p} : last'[q] = last[q]
             /\ Reports' \subseteq Reports
    <3>1. client["comms"] = "sending" /\ client'["comms"] = "close"
      BY <1>2, <2>2, <2>4
    <3>2. \A r \in Reports' : r.n <= last'[r.plane].n
      BY <1>1, <1>2, <2>4 DEF NumbersOK
    <3>3. \A q \in Planes : last'[q].n <= order["comms"].n
      BY <1>1, <1>2, <2>4, <3>1 DEF NumbersOK
    <3> QED
      BY <1>1, <1>2, <2>1, <3>1, <3>2, <3>3 DEF NumbersOK
  <2>5. \/ /\ UNCHANGED stateVars
           /\ Reports' \subseteq Reports \cup {ReportOf(p)}
        \/ /\ c = "comms" /\ last[p].n < order[c].n
           /\ last'[p].n = order[c].n
           /\ \A q \in Planes \ {p} : last'[q] = last[q]
           /\ Reports' \subseteq Reports
    BY <1>5, ReceiveEffect
  <2> QED
    BY <2>3, <2>4, <2>5
<1>6. ASSUME \A p \in Planes : ~AircraftStep(p) /\ \A c \in Clients : ~Receive(p, c)
      PROVE  NumbersOK'
  <2>1. UNCHANGED last /\ Reports' \subseteq Reports
    BY <1>1, <1>6, AircraftUnchanged, ReportsKept DEF AircraftStep
  <2>2. \A r \in Reports' : r.n <= last'[r.plane].n
    BY <1>3, <2>1
  <2>3. CASE \E p \in Planes : StartPoll(p)
    BY <1>1, <1>2, <2>1, <2>2, <2>3 DEF StartPoll, Poll, NumbersOK
  <2>4. CASE TakeCommand
    BY <1>1, <1>2, <2>1, <2>2, <2>4 DEF TakeCommand, NumbersOK
  <2>5. ASSUME NEW c \in Clients, Open(c) \/ SendFails(c)
        PROVE  NumbersOK'
    BY <1>1, <1>2, <2>1, <2>2, <2>5 DEF Open, SendFails, NumbersOK
  <2>6. ASSUME NEW c \in Clients, OpenFails(c) \/ Close(c)
        PROVE  NumbersOK'
    BY <1>1, <1>2, <2>1, <2>2, <2>6, NoMessageType DEF OpenFails, Close, Finish, NumbersOK
  <2>7. ASSUME NEW o \in Orders, Type(o)
        PROVE  NumbersOK'
    <3>1. o.kind # "poll"
      BY DEF Kinds
    <3> QED
      BY <1>1, <1>2, <2>1, <2>2, <2>7, <3>1 DEF Type, NumbersOK
  <2>8. CASE TypeExit
    BY <1>1, <1>2, <2>1, <2>2, <2>8 DEF TypeExit, NumbersOK
  <2> QED
    BY <1>6, <2>3, <2>4, <2>5, <2>6, <2>7, <2>8 DEF Next, ClientStep, ConsoleStep
<1> QED
  BY <1>4, <1>5, <1>6

(* An aircraft that goes to MsgReceive has checked its bounds, and no      *)
(* message is served before it has moved and checked them again.           *)
LEMMA BoundsStep ==
  ASSUME IInv, Next
  PROVE  BoundsOK' /\ ReportsInside'
<1>1. TypeOK /\ BoundsOK /\ ReportsInside
      /\ flight \in [Planes -> {"approach", "flying", "receive", "exiting", "gone"}]
  BY DEF IInv, TypeOK, AircraftTypeOK
<1>2. ASSUME NEW p \in Planes, Move(p)
      PROVE  BoundsOK'
  <2>1. flight' = [flight EXCEPT ![p] = IF Inside(pos'[p]) THEN "receive" ELSE "exiting"]
        /\ \A q \in Planes \ {p} : pos'[q] = pos[q]
    BY <1>1, <1>2 DEF Move, TypeOK, AircraftTypeOK
  <2>2. flight'[p] = "receive" => Inside(pos'[p])
    BY <1>1, <2>1
  <2>3. \A q \in Planes \ {p} : flight'[q] = "receive" => Inside(pos'[q])
    BY <1>1, <2>1 DEF BoundsOK, Inside
  <2>4. \A q \in Planes : flight'[q] = "receive" => Inside(pos'[q])
    BY <2>2, <2>3
  <2> QED
    BY <2>4 DEF BoundsOK, Inside
<1>3. ASSUME NEW p \in Planes, NEW c \in Clients, Receive(p, c)
      PROVE  BoundsOK' /\ ReportsInside'
  <2>1. flight[p] = "receive" /\ flight' = [flight EXCEPT ![p] = "flying"]
    BY <1>3 DEF Receive, AfterMessage
  <2>2. \A q \in Planes \ {p} : pos'[q] = pos[q]
    BY <1>3, ReceiveEffect
  <2>3. BoundsOK'
    BY <1>1, <2>1, <2>2 DEF BoundsOK, Inside
  <2>4. Inside(ReportOf(p).pos)
    BY <1>1, <2>1, ReportType DEF BoundsOK
  <2>5. Reports' \subseteq Reports \cup {ReportOf(p)}
    BY <1>3, ReceiveEffect
  <2>6. \A r \in Reports' : Inside(r.pos)
    BY <1>1, <2>4, <2>5 DEF ReportsInside
  <2> QED
    BY <2>3, <2>6 DEF ReportsInside, Inside
<1>4. ASSUME \A p \in Planes, c \in Clients : ~Receive(p, c)
      PROVE  ReportsInside'
  BY <1>1, <1>4, ReportsKept DEF ReportsInside, Inside
<1>5. ASSUME \A p \in Planes : ~Move(p) /\ \A c \in Clients : ~Receive(p, c)
      PROVE  BoundsOK'
  <2>1. UNCHANGED pos
    BY <1>5, AircraftUnchanged
  <2>2. \A p \in Planes : flight'[p] = "receive" => flight[p] = "receive"
    BY <1>1, <1>5
    DEF Next, AircraftStep, Enter, Exit, ReceivePulse, AfterMessage, StartPoll, ClientStep,
        Open, OpenFails, SendFails, Close, Finish, TakeCommand, ConsoleStep, Type, TypeExit
  <2> QED
    BY <1>1, <2>1, <2>2 DEF BoundsOK, Inside
<1> QED
  BY <1>2, <1>3, <1>4, <1>5

(* The rest of the way to a target shrinks by the velocity with each move. *)
LEMMA GoalsStep ==
  ASSUME IInv, Next
  PROVE  GoalsOK'
<1>1. /\ TypeOK /\ GoalsOK
      /\ pos \in [Planes -> Vector] /\ speed \in [Planes -> Vector]
      /\ moves \in [Planes -> Nat]
      /\ \A p \in Planes : last[p].at \in Nat /\ last[p].value \in Vector
  BY DEF IInv, TypeOK, AircraftTypeOK
<1>2. ASSUME NEW p \in Planes, Move(p)
      PROVE  GoalsOK'
  <2>1. /\ moves'[p] = moves[p] + 1 /\ UNCHANGED <<speed, last>>
        /\ \A a \in Axes : pos'[p][a] = pos[p][a] + speed[p][a]
        /\ \A q \in Planes \ {p} : pos'[q] = pos[q] /\ moves'[q] = moves[q]
    BY <1>1, <1>2 DEF Move
  <2>2. ASSUME last[p].kind = "position", moves[p] + 1 <= last[p].at + 3, NEW a \in Axes
        PROVE  last[p].value[a] - pos'[p][a] - (last[p].at + 3 - (moves[p] + 1)) * speed[p][a]
                   \in -2..2
    <3>1. last[p].value[a] - pos[p][a] - (last[p].at + 3 - moves[p]) * speed[p][a] \in -2..2
      BY <1>1, <2>2 DEF GoalsOK
    <3>2. /\ last[p].value[a] \in Int /\ pos[p][a] \in Int /\ speed[p][a] \in Int
          /\ last[p].at \in Int /\ moves[p] \in Int
      BY <1>1 DEF Vector
    <3>3. \A k, v \in Int : (k - 1) * v = k * v - v
      OBVIOUS
    <3>4. (last[p].at + 3 - (moves[p] + 1)) * speed[p][a]
              = (last[p].at + 3 - moves[p]) * speed[p][a] - speed[p][a]
      <4> DEFINE k == last[p].at + 3 - moves[p]
      <4>1. k \in Int /\ last[p].at + 3 - (moves[p] + 1) = k - 1
        BY <3>2
      <4> HIDE DEF k
      <4> QED
        BY <3>2, <3>3, <4>1 DEF k
    <3> DEFINE rest == (last[p].at + 3 - moves[p]) * speed[p][a]
    <3>5. rest \in Int
      BY <3>2
    <3> HIDE DEF rest
    <3> QED
      BY <2>1, <3>1, <3>2, <3>4, <3>5 DEF rest
  <2>3. last[p].at <= moves[p] + 1
    BY <1>1 DEF GoalsOK
  <2> SUFFICES ASSUME NEW q \in Planes
               PROVE  /\ last'[q].at <= moves'[q]
                      /\ last'[q].kind = "position" /\ moves'[q] <= last'[q].at + 3
                             => \A a \in Axes :
                                    last'[q].value[a] - pos'[q][a]
                                        - (last'[q].at + 3 - moves'[q]) * speed'[q][a] \in -2..2
    BY DEF GoalsOK
  <2>4. CASE q = p
    BY <2>1, <2>2, <2>3, <2>4
  <2>5. CASE q # p
    BY <1>1, <2>1, <2>5 DEF GoalsOK
  <2> QED
    BY <2>4, <2>5
<1>3. ASSUME NEW p \in Planes, NEW c \in Clients, Receive(p, c)
      PROVE  GoalsOK'
  <2>1. UNCHANGED moves /\ Obey(p, order[c]) /\ order[c] \in Message
    BY <1>1, <1>3 DEF Receive, TypeOK, ClientTypeOK
  <2>2. CASE UNCHANGED stateVars
    BY <1>1, <2>1, <2>2 DEF GoalsOK
  <2>3. CASE /\ last'[p].kind = order[c].kind /\ last'[p].value = order[c].value
             /\ last'[p].at = moves[p]
             /\ \A q \in Planes \ {p} :
                    pos'[q] = pos[q] /\ speed'[q] = speed[q] /\ last'[q] = last[q]
    <3>1. ASSUME order[c].kind = "position", NEW a \in Axes
          PROVE  last'[p].value[a] - pos'[p][a]
                     - (last'[p].at + 3 - moves[p]) * speed'[p][a] \in -2..2
      <4>1. pos'[p] = pos[p] /\ speed'[p][a] \in Third(order[c].value[a] - pos[p][a])
        BY <1>1, <2>1, <3>1, ObeyEffect
      <4>2. order[c].value[a] \in Int /\ pos[p][a] \in Int
        BY <1>1, <2>1 DEF Message, Vector
      <4>3. /\ speed'[p][a] \in Int
            /\ order[c].value[a] - pos[p][a] - 3 * speed'[p][a] \in -2..2
        BY <4>1, <4>2, ThirdBound
      <4>4. (last'[p].at + 3 - moves[p]) * speed'[p][a] = 3 * speed'[p][a]
        <5>1. last'[p].at + 3 - moves[p] = 3
          BY <1>1, <2>3
        <5> QED
          BY <5>1
      <4>5. last'[p].value[a] - pos'[p][a] = order[c].value[a] - pos[p][a]
        BY <2>3, <4>1
      <4> QED
        BY <4>3, <4>4, <4>5
    <3>2. last'[p].at <= moves[p]
      BY <1>1, <2>3
    <3> QED
      BY <1>1, <2>1, <2>3, <3>1, <3>2 DEF GoalsOK
  <2> QED
    BY <1>3, <2>2, <2>3, ReceiveEffect
<1>4. ASSUME \A p \in Planes : ~Move(p) /\ \A c \in Clients : ~Receive(p, c)
      PROVE  GoalsOK'
  BY <1>1, <1>4, AircraftUnchanged DEF GoalsOK
<1> QED
  BY <1>2, <1>3, <1>4

(* A move comes before each message or pulse, and a command is noted with  *)
(* the move and the turn it takes.                                         *)
LEMMA TurnsStep ==
  ASSUME IInv, Next
  PROVE  TurnsOK'
<1> USE DEF TurnsOK
<1>1. /\ TypeOK /\ TurnsOK
      /\ flight \in [Planes -> {"approach", "flying", "receive", "exiting", "gone"}]
      /\ moves \in [Planes -> Nat] /\ turns \in [Planes -> Nat]
  BY DEF IInv, TypeOK, AircraftTypeOK
<1>2. ASSUME NEW p \in Planes, Enter(p) \/ Move(p) \/ Exit(p)
      PROVE  TurnsOK'
  <2>1. UNCHANGED <<turns, last>>
    BY <1>2 DEF Enter, Move, Exit
  <2>2. /\ \/ flight[p] = "approach" /\ flight'[p] = "flying" /\ moves'[p] = moves[p]
           \/ /\ flight[p] = "flying" /\ flight'[p] \in {"receive", "exiting"}
              /\ moves'[p] = moves[p] + 1
           \/ flight[p] = "exiting" /\ flight'[p] = "gone" /\ moves'[p] = moves[p]
        /\ \A q \in Planes \ {p} : flight'[q] = flight[q] /\ moves'[q] = moves[q]
    BY <1>1, <1>2 DEF Enter, Move, Exit
  <2> QED
    BY <1>1, <2>1, <2>2
<1>3. ASSUME NEW p \in Planes, NEW c \in Clients, ReceivePulse(p, c) \/ Receive(p, c)
      PROVE  TurnsOK'
  <2>1. /\ flight[p] = "receive" /\ flight'[p] = "flying"
        /\ turns'[p] = turns[p] + 1 /\ UNCHANGED moves
        /\ \A q \in Planes \ {p} : flight'[q] = flight[q] /\ turns'[q] = turns[q]
    BY <1>1, <1>3 DEF ReceivePulse, Receive, AfterMessage
  <2>2. \/ UNCHANGED last
        \/ /\ last'[p].at = moves[p] /\ last'[p].turn = turns[p]
           /\ \A q \in Planes \ {p} : last'[q] = last[q]
    BY <1>3, ReceiveEffect DEF ReceivePulse
  <2> QED
    BY <1>1, <2>1, <2>2
<1>4. ASSUME \A p \in Planes : ~AircraftStep(p) /\ \A c \in Clients : ~Receive(p, c)
      PROVE  TurnsOK'
  <2>1. UNCHANGED <<flight, moves, turns, last>>
    BY <1>4
    DEF Next, StartPoll, ClientStep, Open, OpenFails, SendFails, Close, Finish, TakeCommand,
        ConsoleStep, Type, TypeExit
  <2> QED
    BY <1>1, <2>1
<1> QED
  BY <1>2, <1>3, <1>4 DEF AircraftStep

(* A report goes on predicting the flight: a move carries the position on  *)
(* by the velocity, and a command has a number no report knows yet.        *)
LEMMA PredictStep ==
  ASSUME IInv, Next
  PROVE  ReportsPredict'
<1>1. /\ TypeOK /\ ReportsPredict /\ NumbersOK
      /\ pos \in [Planes -> Vector] /\ speed \in [Planes -> Vector]
      /\ moves \in [Planes -> Nat]
      /\ \A p \in Planes : last[p].n \in Nat
  BY DEF IInv, TypeOK, AircraftTypeOK
<1>2. ASSUME NEW r \in Reports
      PROVE  /\ r.plane \in Planes /\ r.n \in Nat /\ r.at \in Nat
             /\ r.pos \in Vector /\ r.speed \in Vector
  <2>1. r \in Report
    BY <1>1 DEF Reports, TypeOK, ClientTypeOK
  <2> QED
    BY <2>1 DEF Report
<1>3. ASSUME NEW p \in Planes, Move(p)
      PROVE  ReportsPredict'
  <2>1. /\ moves'[p] = moves[p] + 1 /\ UNCHANGED <<speed, last>> /\ Reports' = Reports
        /\ \A a \in Axes : pos'[p][a] = pos[p][a] + speed[p][a]
        /\ \A q \in Planes \ {p} : pos'[q] = pos[q] /\ moves'[q] = moves[q]
    BY <1>1, <1>3 DEF Move, Reports
  <2>2. ASSUME NEW r \in Reports, r.plane = p, Predicts(r)
        PROVE  Predicts(r)'
    <3>1. ASSUME NEW a \in Axes
          PROVE  pos'[p][a] = r.pos[a] + (moves'[p] - r.at) * r.speed[a]
      <4>1. /\ pos[p][a] = r.pos[a] + (moves[p] - r.at) * r.speed[a]
            /\ speed[p][a] = r.speed[a]
        BY <2>2 DEF Predicts
      <4>2. /\ moves[p] \in Int /\ r.at \in Int
            /\ r.pos[a] \in Int /\ r.speed[a] \in Int
        BY <1>1, <1>2 DEF Vector
      <4>3. \A k, v \in Int : (k + 1) * v = k * v + v
        OBVIOUS
      <4> DEFINE k == moves[p] - r.at
      <4>4. k \in Int /\ moves'[p] - r.at = k + 1
        BY <2>1, <4>2
      <4>5. pos[p][a] = r.pos[a] + k * r.speed[a] /\ k * r.speed[a] \in Int
        BY <4>1, <4>2
      <4> HIDE DEF k
      <4>6. (moves'[p] - r.at) * r.speed[a] = k * r.speed[a] + r.speed[a]
        BY <4>2, <4>3, <4>4
      <4> DEFINE way == k * r.speed[a]
      <4> HIDE DEF way
      <4> QED
        BY <2>1, <4>1, <4>2, <4>5, <4>6 DEF way
    <3> QED
      BY <2>1, <2>2, <3>1 DEF Predicts
  <2>3. ASSUME NEW r \in Reports, r.plane # p, Predicts(r)
        PROVE  Predicts(r)'
    BY <1>2, <2>1, <2>3 DEF Predicts
  <2> QED
    BY <1>1, <2>1, <2>2, <2>3 DEF ReportsPredict
<1>4. ASSUME NEW p \in Planes, NEW c \in Clients, Receive(p, c)
      PROVE  ReportsPredict'
  <2>1. UNCHANGED moves
    BY <1>4 DEF Receive
  <2>2. CASE UNCHANGED stateVars /\ Reports' \subseteq Reports \cup {ReportOf(p)}
    <3>1. ASSUME NEW r \in Reports, last[r.plane].n = r.n
          PROVE  Predicts(r)'
      BY <1>1, <2>1, <2>2, <3>1 DEF ReportsPredict, Predicts
    <3>2. \A a \in Axes : pos[p][a] = pos[p][a] + (moves[p] - moves[p]) * speed[p][a]
      BY <1>1 DEF Vector
    <3> DEFINE r == ReportOf(p)
    <3>3. /\ r.plane = p /\ r.pos = pos[p] /\ r.speed = speed[p] /\ r.at = moves[p]
      BY <1>1, ReportType
    <3> HIDE DEF r
    <3>4. Predicts(r)
      BY <3>2, <3>3 DEF Predicts
    <3>5. /\ r.plane = p /\ speed'[r.plane] = r.speed
          /\ \A a \in Axes : pos'[r.plane][a] = r.pos[a] + (moves'[r.plane] - r.at) * r.speed[a]
      BY <2>1, <2>2, <3>3, <3>4 DEF Predicts
    <3>6. \A s \in Reports' : s \in Reports \/ s = r
      BY <2>2 DEF r
    <3>7. ASSUME NEW s \in Reports', last'[s.plane].n = s.n
          PROVE  /\ speed'[s.plane] = s.speed
                 /\ \A a \in Axes :
                        pos'[s.plane][a] = s.pos[a] + (moves'[s.plane] - s.at) * s.speed[a]
      <4>1. CASE s \in Reports
        BY <2>2, <3>1, <3>7, <4>1 DEF Predicts
      <4>2. CASE s = r
        BY <3>5, <4>2
      <4> QED
        BY <3>6, <4>1, <4>2
    <3> QED
      BY <3>7 DEF ReportsPredict, Predicts
  <2>3. CASE /\ c = "comms" /\ last[p].n < order[c].n /\ last'[p].n = order[c].n
             /\ \A q \in Planes \ {p} :
                    pos'[q] = pos[q] /\ speed'[q] = speed[q] /\ last'[q] = last[q]
             /\ Reports' \subseteq Reports
    <3>1. order[c].n \in Nat
      BY <1>1 DEF TypeOK, ClientTypeOK, Message
    <3>2. ASSUME NEW r \in Reports, last'[r.plane].n = r.n
          PROVE  r.plane # p
      BY <1>1, <1>2, <2>3, <3>1, <3>2 DEF NumbersOK
    <3>3. ASSUME NEW r \in Reports, last'[r.plane].n = r.n
          PROVE  Predicts(r)'
      BY <1>1, <1>2, <2>1, <2>3, <3>2, <3>3 DEF ReportsPredict, Predicts
    <3> QED
      BY <2>3, <3>3 DEF ReportsPredict
  <2> QED
    BY <1>4, <2>2, <2>3, ReceiveEffect
<1>5. ASSUME \A p \in Planes : ~Move(p) /\ \A c \in Clients : ~Receive(p, c)
      PROVE  ReportsPredict'
  <2>1. UNCHANGED <<stateVars, moves>> /\ Reports' \subseteq Reports
    BY <1>1, <1>5, AircraftUnchanged, ReportsKept
  <2> QED
    BY <1>1, <2>1 DEF ReportsPredict, Predicts
<1> QED
  BY <1>3, <1>4, <1>5

(* Once its channel is open, an aircraft obeys the command or leaves.      *)
LEMMA SentStep ==
  ASSUME IInv, Next
  PROVE  SentOK' /\ SentIsObeyed'
<1> USE DEF SentOK, SentIsObeyed
<1>1. /\ TypeOK /\ SentOK /\ SentIsObeyed /\ order["radar"].kind = "poll"
      /\ flight \in [Planes -> {"approach", "flying", "receive", "exiting", "gone"}]
      /\ order \in [Clients -> Message] /\ \A c \in Clients : order[c].plane \in Planes
      /\ client \in [Clients -> {"idle", "open", "sending", "close"}]
  BY DEF IInv, TypeOK, AircraftTypeOK, ClientTypeOK, NumbersOK, Message
<1>2. ASSUME NEW p \in Planes, AircraftStep(p)
      PROVE  SentOK' /\ SentIsObeyed'
  <2>1. /\ UNCHANGED <<last, client, order>>
        /\ flight[p] # "gone" /\ \A q \in Planes \ {p} : flight'[q] = flight[q]
        /\ flight'[p] # "approach"
    BY <1>1, <1>2 DEF AircraftStep, Enter, Move, Exit, ReceivePulse, AfterMessage
  <2> QED
    BY <1>1, <2>1
<1>3. ASSUME NEW p \in Planes, NEW c \in Clients, Receive(p, c)
      PROVE  SentOK' /\ SentIsObeyed'
  <2>1. /\ flight[p] = "receive" /\ flight' = [flight EXCEPT ![p] = "flying"]
        /\ client' = [client EXCEPT ![c] = "close"]
        /\ order' = order /\ order[c].plane = p
    BY <1>3 DEF Receive, AfterMessage, AfterSend
  <2>2. SentOK'
    BY <1>1, <2>1
  <2>3. CASE c = "comms"
    <3>1. order[c].kind # "info" /\ order[c].kind # "poll" => last'[p].n = order[c].n
      BY <1>3, ReceiveEffect
    <3>2. order[c].kind # "poll"
      BY <1>3, <2>3 DEF Receive, IInv, NumbersOK
    <3> QED
      BY <1>1, <2>1, <2>2, <2>3, <3>1, <3>2
  <2>4. CASE c = "radar"
    <3>1. UNCHANGED last
      BY <1>1, <1>3, <2>4, ReceiveEffect
    <3> QED
      BY <1>1, <2>1, <2>2, <2>4, <3>1
  <2> QED
    BY <2>3, <2>4
<1>4. ASSUME NEW c \in Clients, ClientStep(c)
      PROVE  SentOK' /\ SentIsObeyed'
  <2>1. CASE Open(c)
    BY <1>1, <2>1 DEF Open, Attached
  <2>2. CASE SendFails(c)
    BY <1>1, <2>2 DEF SendFails, Attached
  <2>3. CASE OpenFails(c) \/ Close(c)
    BY <1>1, <2>3 DEF OpenFails, Close, Finish
  <2> QED
    BY <1>4, <2>1, <2>2, <2>3 DEF ClientStep
<1>5. ASSUME NEW p \in Planes, StartPoll(p)
      PROVE  SentOK' /\ SentIsObeyed'
  BY <1>1, <1>5 DEF StartPoll
<1>6. CASE TakeCommand \/ ConsoleStep
  BY <1>1, <1>6 DEF TakeCommand, ConsoleStep, Type, TypeExit
<1> QED
  BY <1>2, <1>3, <1>4, <1>5, <1>6 DEF Next

(* Nothing has happened at the start.                                      *)
LEMMA InitInv ==
  ASSUME Init
  PROVE  IInv
<1>1. AircraftTypeOK
  <2>1. last \in [Planes -> Note]
    BY VectorType DEF Init, Kinds
  <2> QED
    BY <2>1 DEF Init, AircraftTypeOK
<1>2. ClientTypeOK
  BY NoMessageType DEF Init, ClientTypeOK
<1>3. Reports = {}
  BY DEF Init, Reports
<1>4. /\ client = [c \in Clients |-> "idle"] /\ console = "prompt" /\ commands = 0
      /\ order = [c \in Clients |-> NoMessage]
      /\ \A p \in Planes : /\ flight[p] = "approach" /\ moves[p] = 0 /\ turns[p] = 0
                           /\ last[p].n = 0
                           /\ last[p].kind = "info" /\ last[p].at = 0
  BY DEF Init
<1>5. NumbersOK
  BY <1>3, <1>4, NoMessageType DEF NumbersOK
<1>6. BoundsOK /\ GoalsOK /\ TurnsOK /\ SentOK
  BY <1>4 DEF BoundsOK, GoalsOK, TurnsOK, SentOK
<1>7. ReportsInside /\ ReportsPredict /\ SentIsObeyed
  BY <1>3, <1>4 DEF ReportsInside, ReportsPredict, SentIsObeyed
<1>8. ChannelsOK
  BY DEF Init, ChannelsOK
<1> QED
  BY <1>1, <1>2, <1>5, <1>6, <1>7, <1>8 DEF IInv, TypeOK

(* Every step, and every stutter, keeps the invariant.                     *)
LEMMA StepInv ==
  ASSUME IInv, [Next]_vars
  PROVE  IInv'
<1>1. CASE Next
  <2>1. TypeOK'
    BY <1>1, TypesKept DEF IInv
  <2> QED
    BY <1>1, <2>1, NumbersStep, BoundsStep, GoalsStep, TurnsStep, PredictStep,
       SentStep
    DEF IInv
<1>2. CASE UNCHANGED vars
  BY <1>2
  DEF IInv, TypeOK, AircraftTypeOK, ClientTypeOK, ChannelsOK, NumbersOK, BoundsOK, GoalsOK,
      TurnsOK, SentOK,
      ReportsInside, ReportsPredict, SentIsObeyed, Predicts, Reports, Inside
<1> QED
  BY <1>1, <1>2

-----------------------------------------------------------------------------
(* The refinement of CommandQueue.                                         *)

(* The two places where a command waits make a queue of at most two.       *)
LEMMA TwoPlaces ==
  ASSUME NEW m, NEW n
  PROVE  /\ <<>> \o <<>> = <<>> /\ <<m>> \o <<>> = <<m>> /\ <<>> \o <<n>> = <<n>>
         /\ Append(<<>>, n) = <<n>> /\ Append(<<m>>, n) = <<m>> \o <<n>>
         /\ <<m>> # <<>> /\ Head(<<m>>) = m /\ Tail(<<m>>) = <<>>
         /\ <<m>> \o <<n>> # <<>>
         /\ Head(<<m>> \o <<n>>) = m /\ Tail(<<m>> \o <<n>>) = <<n>>
<1>1. /\ <<>> \o <<>> = <<>> /\ <<m>> \o <<>> = <<m>> /\ <<>> \o <<n>> = <<n>>
      /\ Append(<<>>, n) = <<n>>
      /\ <<m>> # <<>> /\ Head(<<m>>) = m /\ Tail(<<m>>) = <<>>
  OBVIOUS
<1>2. <<m>> \in Seq({m, n}) /\ n \in {m, n}
  OBVIOUS
<1>3. Append(<<m>>, n) = <<m>> \o <<n>> /\ Append(<<m>>, n) # <<>>
  BY ONLY <1>2, AppendIsConcat, AppendProperties
<1>4. /\ Head(Append(<<m>>, n)) = Head(<<m>>)
      /\ Tail(Append(<<m>>, n)) = Append(Tail(<<m>>), n)
  BY ONLY <1>1, <1>2, HeadTailAppend
<1> QED
  BY ONLY <1>1, <1>3, <1>4

(* A command with the Communications System is the first of the queue, and *)
(* without it the rest of the queue is left.                               *)
LEMMA FirstWaits ==
  ASSUME NEW m, AtComms = <<m>>
  PROVE  /\ AtComms \o AtConsole # <<>>
         /\ Head(AtComms \o AtConsole) = m
         /\ Tail(AtComms \o AtConsole) = <<>> \o AtConsole
<1>1. AtConsole = <<>> \/ AtConsole = <<typed>>
  BY DEF AtConsole, Waiting
<1>2. CASE AtConsole = <<>>
  BY <1>2, TwoPlaces
<1>3. CASE AtConsole = <<typed>>
  BY <1>3, TwoPlaces
<1> QED
  BY <1>1, <1>2, <1>3

(* The phases that the operator knows of.                                  *)
LEMMA Phases ==
  ASSUME TypeOK, NEW p \in Planes
  PROVE  /\ flight[p] = "approach" => Phase(p) = "expected"
         /\ flight[p] \in {"flying", "receive"} => Phase(p) = "flying"
         /\ flight[p] = "exiting" => Phase(p) = "leaving"
         /\ flight[p] = "gone" => Phase(p) = "gone"
         /\ ~Attached(p) => Phase(p) \in {"expected", "gone"}
<1>1. flight[p] \in {"approach", "flying", "receive", "exiting", "gone"}
  BY DEF TypeOK, AircraftTypeOK
<1> QED
  BY <1>1 DEF Phase, Attached

(* What a command does to a flight in one step of the aircraft is what the *)
(* operator is promised.                                                   *)
LEMMA ObeyExecutes ==
  ASSUME TypeOK, NEW m \in Message, m.kind \in {"heading", "position", "altitude"},
         flight[m.plane] = "receive", Obey(m.plane, m),
         UNCHANGED [p \in Planes |-> Phase(p)]
  PROVE  Queue!Execute(m)
<1> DEFINE p == m.plane
<1>1. /\ p \in Planes /\ m.value \in Vector
      /\ pos \in [Planes -> Vector] /\ speed \in [Planes -> Vector]
  BY DEF TypeOK, AircraftTypeOK, Message
<1>2. [q \in Planes |-> Phase(q)][p] = "flying"
  BY <1>1, Phases
<1>3. CASE m.kind = "heading"
  <2>1. SetSpeed(p, changeHeading(speed[p], m.value))
    BY <1>3 DEF Obey, ObeyHeading, ObeyPosition, ObeyAltitude
  <2>2. changeHeading(speed[p], m.value)
            = [a \in Axes |-> IF m.value[a] = 0 THEN speed[p][a] ELSE m.value[a]]
    BY DEF changeHeading
  <2>3. Queue!TakesHeading(p, m.value)
    BY <1>1, <2>1, <2>2 DEF Queue!TakesHeading, SetSpeed
  <2> QED
    BY <1>2, <1>3, <2>3 DEF Queue!Execute
<1>4. CASE m.kind = "position"
  <2>1. /\ pos' = pos /\ speed' \in [Planes -> Vector]
        /\ \A q \in Planes \ {p} : speed'[q] = speed[q]
        /\ \A a \in Axes : speed'[p][a] \in Third(m.value[a] - pos[p][a])
    <3>1. ObeyPosition(p, m)
      BY <1>4 DEF Obey, ObeyHeading, ObeyAltitude
    <3>2. pos' = pos
      BY <3>1 DEF ObeyPosition, SetSpeed
    <3> HIDE DEF p
    <3>3. p \in Planes /\ Obey(p, m)
      BY <1>1 DEF p
    <3>4. /\ speed' \in [Planes -> Vector]
          /\ \A q \in Planes \ {p} : speed'[q] = speed[q]
      BY <3>3, ObeyEffect
    <3>5. \A a \in Axes : speed'[p][a] \in Third(m.value[a] - pos[p][a])
      BY <1>4, <3>3, ObeyEffect
    <3> QED
      BY <3>2, <3>4, <3>5
  <2>2. ASSUME NEW a \in Axes
        PROVE  m.value[a] - pos[p][a] - 3 * speed'[p][a] \in -2..2
    <3>1. m.value[a] \in Int /\ pos[p][a] \in Int
      BY <1>1 DEF Vector
    <3>2. m.value[a] - pos[p][a] \in Int
      BY <3>1
    <3>3. speed'[p][a] \in Third(m.value[a] - pos[p][a])
      BY <2>1
    <3> QED
      BY <3>2, <3>3, ThirdBound
  <2>3. Queue!HeadsFor(p, m.value)
    BY <2>1, <2>2 DEF Queue!HeadsFor, Vector
  <2> QED
    BY <1>2, <1>4, <2>3 DEF Queue!Execute
<1>5. CASE m.kind = "altitude"
  <2>1. ObeyAltitude(p, m)
    BY <1>5 DEF Obey, ObeyHeading, ObeyPosition
  <2>2. pos' = [pos EXCEPT ![p] = [pos[p] EXCEPT ![Vertical] = m.value[Vertical]]]
    BY <1>1, <2>1 DEF ObeyAltitude
  <2>3. Queue!TakesAltitude(p, m.value)
    BY <1>1, <2>1, <2>2 DEF Queue!TakesAltitude, ObeyAltitude
  <2> QED
    BY <1>2, <1>5, <2>3 DEF Queue!Execute
<1> QED
  BY <1>3, <1>4, <1>5

(* The start of a flight, its moves and its end are those of the abstract  *)
(* flight; a pulse is nothing.                                             *)
LEMMA AircraftQueue ==
  ASSUME TypeOK, NEW p \in Planes, AircraftStep(p)
  PROVE  Queue!Next \/ UNCHANGED Queue!vars
<1>1. flight \in [Planes -> {"approach", "flying", "receive", "exiting", "gone"}]
  BY DEF TypeOK, AircraftTypeOK
<1>2. UNCHANGED (AtComms \o AtConsole)
  BY DEF AircraftStep, Enter, Move, Exit, ReceivePulse, AtComms, AtConsole, Waiting
<1>3. ASSUME NEW from, NEW to, flight[p] = from, flight' = [flight EXCEPT ![p] = to],
             to \in {"approach", "flying", "receive", "exiting", "gone"}
      PROVE  /\ [q \in Planes |-> Phase(q)]'
                    = [[q \in Planes |-> Phase(q)] EXCEPT ![p] = Phase(p)']
             /\ to = "flying" \/ to = "receive" => Phase(p)' = "flying"
             /\ to = "exiting" => Phase(p)' = "leaving"
             /\ to = "gone" => Phase(p)' = "gone"
  <2>1. flight'[p] = to /\ \A q \in Planes \ {p} : flight'[q] = flight[q]
    BY <1>1, <1>3
  <2>2. \A q \in Planes \ {p} : Phase(q)' = Phase(q)
    BY <2>1 DEF Phase
  <2>3. [q \in Planes |-> Phase(q)]' = [[q \in Planes |-> Phase(q)] EXCEPT ![p] = Phase(p)']
    BY <2>2
  <2>4. /\ to = "flying" \/ to = "receive" => Phase(p)' = "flying"
        /\ to = "exiting" => Phase(p)' = "leaving"
        /\ to = "gone" => Phase(p)' = "gone"
    BY <2>1 DEF Phase
  <2> QED
    BY <2>3, <2>4
<1>4. CASE Enter(p)
  <2>1. Queue!Enter(p)
    BY <1>2, <1>3, <1>4, Phases DEF Enter, Queue!Enter, Queue!Becomes
  <2> QED
    BY <2>1 DEF Queue!Next
<1>5. CASE Move(p)
  <2>1. /\ flight[p] = "flying" /\ pos' = [pos EXCEPT ![p] = [a \in Axes |-> @[a] + speed[p][a]]]
        /\ \/ flight' = [flight EXCEPT ![p] = "receive"]
           \/ flight' = [flight EXCEPT ![p] = "exiting"]
        /\ UNCHANGED speed
    BY <1>5 DEF Move
  <2>2. Queue!Becomes(p, "flying", "flying") \/ Queue!Becomes(p, "flying", "leaving")
    BY <1>3, <2>1, Phases DEF Queue!Becomes
  <2>3. Queue!Fly(p)
    BY <1>2, <2>1, <2>2 DEF Queue!Fly
  <2> QED
    BY <2>3 DEF Queue!Next
<1>6. CASE Exit(p)
  <2>1. Queue!Leave(p)
    BY <1>2, <1>3, <1>6, Phases DEF Exit, Queue!Leave, Queue!Becomes
  <2> QED
    BY <2>1 DEF Queue!Next
<1>7. ASSUME NEW c \in Clients, ReceivePulse(p, c)
      PROVE  UNCHANGED Queue!vars
  <2>1. UNCHANGED [q \in Planes |-> Phase(q)]
    BY <1>1, <1>7 DEF ReceivePulse, AfterMessage, Phase
  <2> QED
    BY <1>2, <1>7, <2>1 DEF ReceivePulse, Queue!vars, Queue!flights
<1> QED
  BY <1>4, <1>5, <1>6, <1>7 DEF AircraftStep

(* A message that is received is the first command of the queue and takes  *)
(* effect, or is none and changes nothing.                                 *)
LEMMA ReceiveQueue ==
  ASSUME IInv, NEW p \in Planes, NEW c \in Clients, Receive(p, c)
  PROVE  Queue!Next \/ UNCHANGED Queue!vars
<1>1. /\ TypeOK /\ client \in [Clients -> {"idle", "open", "sending", "close"}]
      /\ flight \in [Planes -> {"approach", "flying", "receive", "exiting", "gone"}]
      /\ order[c] \in Message
  BY DEF IInv, TypeOK, AircraftTypeOK, ClientTypeOK
<1>2. /\ flight[p] = "receive" /\ flight' = [flight EXCEPT ![p] = "flying"]
      /\ client[c] = "sending" /\ client' = [client EXCEPT ![c] = "close"]
      /\ order[c].plane = p /\ Obey(p, order[c]) /\ UNCHANGED <<console, typed, order>>
  BY DEF Receive, AfterMessage, AfterSend
<1>3. UNCHANGED [q \in Planes |-> Phase(q)] /\ UNCHANGED AtConsole
  BY <1>1, <1>2 DEF Phase, AtConsole, Waiting
<1>4. CASE order[c].kind \in {"poll", "info"}
  <2>1. UNCHANGED stateVars
    BY <1>1, <1>2, <1>4, ObeyEffect
  <2>2. UNCHANGED AtComms
    <3>1. CASE c = "comms"
      <4>1. order["comms"].kind = "info"
        BY <1>2, <1>4, <3>1 DEF IInv, NumbersOK
      <4> QED
        BY <1>2, <4>1 DEF AtComms, Waiting
    <3>2. CASE c = "radar"
      BY <1>1, <1>2, <3>2 DEF AtComms, Waiting
    <3> QED
      BY <3>1, <3>2
  <2> QED
    BY <1>3, <2>1, <2>2 DEF Queue!vars, Queue!flights
<1>5. CASE order[c].kind \notin {"poll", "info"}
  <2>1. c = "comms" /\ order[c].kind \in {"heading", "position", "altitude"}
    BY <1>5, ReceiveEffect
  <2>2. AtComms = <<order[c]>> /\ AtComms' = <<>>
    BY <1>1, <1>2, <2>1 DEF AtComms, Waiting
  <2>3. Queue!Execute(order[c])
    BY <1>1, <1>2, <1>3, <2>1, ObeyExecutes
  <2>4. Queue!TakeFirst
    BY <1>3, <2>2, <2>3, FirstWaits DEF Queue!TakeFirst
  <2> QED
    BY <2>4 DEF Queue!Next
<1> QED
  BY <1>4, <1>5

(* A client that goes on changes nothing, but that the first command of    *)
(* the queue is dropped when the aircraft has no channel.                  *)
LEMMA ClientQueue ==
  ASSUME IInv, NEW c \in Clients, ClientStep(c)
  PROVE  Queue!Next \/ UNCHANGED Queue!vars
<1>1. /\ TypeOK /\ client \in [Clients -> {"idle", "open", "sending", "close"}]
      /\ order \in [Clients -> Message]
  BY DEF IInv, TypeOK, ClientTypeOK
<1>2. UNCHANGED <<flight, pos, speed>>
  BY DEF ClientStep, Open, OpenFails, SendFails, Close, Finish
<1>3. UNCHANGED [q \in Planes |-> Phase(q)]
  BY <1>2 DEF Phase
<1>4. UNCHANGED Queue!flights
  BY <1>2, <1>3 DEF Queue!flights
<1>5. UNCHANGED AtConsole
  BY DEF ClientStep, Open, OpenFails, SendFails, Close, Finish, Replies, AtConsole, Waiting
<1>6. CASE c = "radar"
  <2>1. UNCHANGED <<client["comms"], order["comms"]>>
    BY <1>1, <1>6 DEF ClientStep, Open, OpenFails, SendFails, Close, Finish
  <2>2. UNCHANGED AtComms
    BY <2>1 DEF AtComms, Waiting
  <2> QED
    BY <1>4, <1>5, <2>2 DEF Queue!vars
<1>7. CASE c = "comms" /\ (Open(c) \/ Close(c))
  <2>1. UNCHANGED AtComms
    BY <1>1, <1>7 DEF Open, Close, AtComms, Waiting
  <2> QED
    BY <1>4, <1>5, <2>1 DEF Queue!vars
<1>8. CASE c = "comms" /\ (OpenFails(c) \/ SendFails(c))
  <2>1. /\ client["comms"] \in {"open", "sending"} /\ client'["comms"] \in {"idle", "close"}
        /\ ~Attached(order["comms"].plane)
    BY <1>1, <1>8 DEF OpenFails, SendFails
  <2>2. AtComms' = <<>>
    BY <2>1 DEF AtComms, Waiting
  <2>3. CASE order["comms"].kind = "info"
    <3>1. AtComms = <<>>
      BY <2>3 DEF AtComms, Waiting
    <3> QED
      BY <1>4, <1>5, <2>2, <3>1 DEF Queue!vars
  <2>4. CASE order["comms"].kind # "info"
    <3>1. AtComms = <<order["comms"]>>
      BY <2>1, <2>4 DEF AtComms, Waiting
    <3>2. order["comms"].plane \in Planes
      BY <1>1 DEF Message
    <3>3. Queue!Drop(order["comms"])
      BY <1>1, <1>4, <2>1, <3>2, Phases DEF Queue!Drop
    <3>4. Queue!TakeFirst
      BY <1>5, <2>2, <3>1, <3>3, FirstWaits DEF Queue!TakeFirst
    <3> QED
      BY <3>4 DEF Queue!Next
  <2> QED
    BY <2>3, <2>4
<1> QED
  BY <1>6, <1>7, <1>8 DEF ClientStep

(* A command that is typed joins the queue, keeps its place in it when the *)
(* Communications System takes it, and a request never joins.              *)
LEMMA ConsoleQueue ==
  ASSUME IInv, TakeCommand \/ ConsoleStep \/ \E p \in Planes : StartPoll(p)
  PROVE  Queue!Next \/ UNCHANGED Queue!vars
<1>1. /\ TypeOK /\ client \in [Clients -> {"idle", "open", "sending", "close"}]
      /\ order \in [Clients -> Message] /\ commands \in 0..MaxCommands
  BY DEF IInv, TypeOK, ClientTypeOK
<1>2. UNCHANGED <<flight, pos, speed>>
  BY DEF TakeCommand, ConsoleStep, Type, TypeExit, StartPoll
<1>3. UNCHANGED [q \in Planes |-> Phase(q)]
  BY <1>2 DEF Phase
<1>4. UNCHANGED Queue!flights
  BY <1>2, <1>3 DEF Queue!flights
<1>5. CASE TakeCommand
  <2>1. AtComms = <<>> /\ AtConsole' = <<>> /\ AtComms' = AtConsole
    BY <1>1, <1>5 DEF TakeCommand, AtComms, AtConsole, Waiting
  <2>2. AtConsole = <<>> \/ AtConsole = <<typed>>
    BY DEF AtConsole, Waiting
  <2>3. (AtComms \o AtConsole)' = AtComms \o AtConsole
    BY <2>1, <2>2, TwoPlaces
  <2> QED
    BY <1>4, <2>3 DEF Queue!vars
<1>6. ASSUME NEW o \in Orders, Type(o)
      PROVE  Queue!Next \/ UNCHANGED Queue!vars
  <2>1. AtConsole = <<>> /\ AtComms' = AtComms
    BY <1>6 DEF Type, AtConsole, AtComms, Waiting
  <2>2. /\ console' = "toComms"
        /\ typed' = [plane |-> o.plane, kind |-> o.kind, value |-> o.value, n |-> commands + 1]
        /\ commands + 1 \in 1..MaxCommands
    BY <1>1, <1>6 DEF Type
  <2>3. CASE o.kind = "info"
    <3>1. AtConsole' = <<>>
      BY <2>2, <2>3 DEF AtConsole, Waiting
    <3> QED
      BY <1>4, <2>1, <3>1 DEF Queue!vars
  <2>4. CASE o.kind # "info"
    <3>1. AtConsole' = <<typed'>> /\ typed' \in Commands
      BY <2>2, <2>4 DEF AtConsole, Waiting, Commands
    <3>2. AtComms = <<>> \/ AtComms = <<order["comms"]>>
      BY DEF AtComms, Waiting
    <3>3. AtComms' \o AtConsole' = Append(AtComms \o AtConsole, typed')
      BY <2>1, <3>1, <3>2, TwoPlaces
    <3>4. Queue!Issue(typed')
      BY <1>4, <3>3 DEF Queue!Issue
    <3> QED
      BY <3>1, <3>4 DEF Queue!Next
  <2> QED
    BY <2>3, <2>4
<1>7. ASSUME TypeExit \/ \E p \in Planes : StartPoll(p)
      PROVE  UNCHANGED Queue!vars
  <2>1. UNCHANGED AtConsole /\ UNCHANGED AtComms
    BY <1>1, <1>7 DEF TypeExit, StartPoll, AtConsole, AtComms, Waiting
  <2> QED
    BY <1>4, <2>1 DEF Queue!vars
<1> QED
  BY <1>5, <1>6, <1>7 DEF ConsoleStep

-----------------------------------------------------------------------------
(* Theorems.                                                               *)

(* The inductive invariant of the commands and the flights they change.    *)
THEOREM InductiveInvariant == Spec => []IInv
<1>1. Init => IInv
  BY InitInv
<1>2. IInv /\ [Next]_vars => IInv'
  BY StepInv
<1> QED
  BY <1>1, <1>2, PTL DEF Spec

(* Every variable keeps its type.                                          *)
THEOREM TypeCorrect == Spec => []TypeOK
<1>1. IInv => TypeOK
  BY DEF IInv
<1> QED
  BY <1>1, InductiveInvariant, PTL

(* No report to the Radar or the operator is of a position outside the     *)
(* airspace.                                                               *)
THEOREM ReportsInsideCorrect == Spec => []ReportsInside
<1>1. IInv => ReportsInside
  BY DEF IInv
<1> QED
  BY <1>1, InductiveInvariant, PTL

(* A report predicts the flight, move for move, until the next command.    *)
THEOREM PredictionCorrect == Spec => []ReportsPredict
<1>1. IInv => ReportsPredict
  BY DEF IInv
<1> QED
  BY <1>1, InductiveInvariant, PTL

(* The third message or pulse after a position command finds the aircraft  *)
(* at the target but for rounding: it has moved three times.               *)
THEOREM TargetCorrect == Spec => []TargetReached
<1>1. IInv => TargetReached
  <2> SUFFICES ASSUME IInv, NEW p \in Planes, last[p].kind = "position",
                      flight[p] # "flying", turns[p] = last[p].turn + 3, NEW a \in Axes
               PROVE  pos[p][a] - last[p].value[a] \in -2..2
    BY DEF TargetReached
  <2>1. /\ last[p].at \in Nat /\ moves[p] \in Nat /\ pos[p][a] \in Int
        /\ speed[p][a] \in Int /\ last[p].value[a] \in Int
        /\ last[p].turn \in Nat
        /\ flight[p] \in {"approach", "flying", "receive", "exiting", "gone"}
    BY DEF IInv, TypeOK, AircraftTypeOK, Vector
  <2>2. moves[p] = last[p].at + 3
    <3>1. /\ last[p].at = last[p].turn + 1 /\ last[p].at <= moves[p]
          /\ moves[p] = turns[p] \/ moves[p] = turns[p] + 1
      BY <2>1 DEF IInv, TurnsOK, GoalsOK
    <3>2. flight[p] # "approach"
      BY <2>1 DEF IInv, TurnsOK
    <3> QED
      BY <2>1, <3>1, <3>2 DEF IInv, TurnsOK
  <2>3. last[p].value[a] - pos[p][a] - (last[p].at + 3 - moves[p]) * speed[p][a] \in -2..2
    BY <2>1, <2>2 DEF IInv, GoalsOK
  <2>4. (last[p].at + 3 - moves[p]) * speed[p][a] = 0
    BY <2>1, <2>2
  <2> QED
    BY <2>1, <2>3, <2>4
<1> QED
  BY <1>1, InductiveInvariant, PTL

(* A command that was sent to a reachable aircraft is in effect when       *)
(* MsgSend has returned, unless the aircraft has left.                     *)
THEOREM SentCorrect == Spec => []SentIsObeyed
<1>1. IInv => SentIsObeyed
  BY DEF IInv
<1> QED
  BY <1>1, InductiveInvariant, PTL

(* Commands take effect in the order they were typed, and once.            *)
THEOREM OrderCorrect == Spec => CommandsInOrder
<1>1. IInv /\ [Next]_vars
          => [\A p \in Planes : last'[p] # last[p] => last'[p].n > last[p].n]_vars
  <2> SUFFICES ASSUME IInv, Next
               PROVE  \A p \in Planes : last'[p] # last[p] => last'[p].n > last[p].n
    OBVIOUS
  <2>1. ASSUME NEW p \in Planes, NEW c \in Clients, Receive(p, c)
        PROVE  \A q \in Planes : last'[q] # last[q] => last'[q].n > last[q].n
    <3>1. order[c].n \in Nat /\ last[p].n \in Nat
      BY DEF IInv, TypeOK, AircraftTypeOK, ClientTypeOK, Message
    <3> QED
      BY <2>1, <3>1, ReceiveEffect
  <2>2. CASE \A p \in Planes, c \in Clients : ~Receive(p, c)
    <3>1. UNCHANGED last
      BY <2>2
      DEF Next, AircraftStep, Enter, Move, Exit, ReceivePulse, StartPoll, ClientStep, Open,
          OpenFails, SendFails, Close, Finish, TakeCommand, ConsoleStep, Type, TypeExit
    <3> QED
      BY <3>1
  <2> QED
    BY <2>1, <2>2
<1> QED
  BY <1>1, InductiveInvariant, PTL DEF Spec, CommandsInOrder

(* Console, Communications System, channels and aircraft implement one     *)
(* queue of commands: each step issues a command, gives the first its one  *)
(* effect, drops it when its aircraft has no channel, moves an aircraft,   *)
(* or changes nothing the operator is promised.                            *)
THEOREM CommandsQueueCorrect == Spec => CommandsQueue
<1>1. Init => Queue!Init
  <2> SUFFICES ASSUME Init
               PROVE  Queue!Init
    OBVIOUS
  <2>1. \A p \in Planes : Phase(p) = "expected"
    BY DEF Init, Phase
  <2>2. AtComms = <<>> /\ AtConsole = <<>>
    BY DEF Init, AtComms, AtConsole, Waiting
  <2> QED
    BY <2>1, <2>2, TwoPlaces DEF Init, Queue!Init
<1>2. IInv /\ [Next]_vars => [Queue!Next]_(Queue!vars)
  <2> SUFFICES ASSUME IInv, [Next]_vars
               PROVE  Queue!Next \/ UNCHANGED Queue!vars
    OBVIOUS
  <2>1. CASE Next
    BY <2>1, AircraftQueue, ReceiveQueue, ClientQueue, ConsoleQueue DEF Next, IInv
  <2>2. CASE UNCHANGED vars
    BY <2>2 DEF Queue!vars, Queue!flights, AtComms, AtConsole, Waiting, Phase
  <2> QED
    BY <2>1, <2>2
<1> QED
  BY <1>1, <1>2, InductiveInvariant, PTL DEF Spec, CommandsQueue, Queue!Spec

=============================================================================
