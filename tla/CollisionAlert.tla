--------------------------- MODULE CollisionAlert ---------------------------
(***************************************************************************)
(* The way of a collision warning, from the snapshot to the screen:        *)
(*                                                                         *)
(*  - the Computer's monitor thread reads a snapshot, checks its pairs of  *)
(*    aircraft second by second, and sends the conflicting ones in a       *)
(*    message to the Display;                                              *)
(*  - the Computer's operator thread (processMessage) meanwhile changes    *)
(*    timeConstraintCollisionFreq, a plain int that the check reads;       *)
(*  - the Display's listener thread replies to the message and then        *)
(*    replaces the warnings, which the display loop renders together with  *)
(*    a snapshot of its own;                                               *)
(*  - both processes end their loops at the first empty snapshot and then  *)
(*    join their threads.                                                  *)
(*                                                                         *)
(* Reading a snapshot is one step here: module SharedSnapshot says when it *)
(* is.  A blocked MsgSend is the location of its sender.                   *)
(***************************************************************************)
EXTENDS CollisionCheck, FiniteSets, Sequences

CONSTANTS Pictures,           \* the snapshots the Radar may write; <<>> is empty
          DefaultConstraint,  \* the initial timeConstraintCollisionFreq
          NewConstraints,     \* those the operator types
          Capacity,           \* pairs that fit into the data of one message
          MaxSnapshots,       \* bound: the Radar writes at most this many snapshots
          MaxCommands         \* bound: the operator types at most this many commands

ASSUME AlertAssumption ==
    /\ \A planes \in Pictures : planes \in Seq([id : Int, plane : Plane])
    /\ DefaultConstraint \in Int
    /\ NewConstraints \subseteq Int
    /\ Capacity \in Nat
    /\ MaxSnapshots \in Nat \ {0}
    /\ MaxCommands \in Nat

VARIABLES
    picture,       \* the aircraft in shared memory
    written,       \* the number of the snapshot
    monitor,       \* where monitorAirspace is
    alert,         \* the alert being computed and sent
    i, j,          \* the pair of aircraft checkCollision is at
    t,             \* the second checkAxes is at
    bound,         \* the value of timeConstraintCollisionFreq it last used
    timeConstraintCollisionFreq,
    operator,      \* where processMessage is
    operatorMsg,   \* the constraint in its message
    listen,
    console,       \* where the operator console is
    typed,         \* the constraint in the message it sends
    commands,      \* how many commands it has sent
    comms,         \* where HandleCommunications is
    computerMain,  \* where the Computer's main is
    listener,      \* where the Display's collisionListener is
    received,      \* its message
    pulses,        \* disconnect pulses in its channel
    warnings,      \* collision_warnings, as the alert they are made from
    displayLoop,   \* where displayLoop is
    displayed,     \* the number of the snapshot it has read
    screen,        \* what was rendered last: a snapshot's number and warnings
    running        \* the Display's flag

pairVars == <<alert, i, j, t, bound>>
monitorVars == <<monitor, pairVars>>
operatorVars == <<timeConstraintCollisionFreq, operator, operatorMsg>>
consoleVars == <<console, typed, commands>>
listenerVars == <<listener, received, warnings>>
displayVars == <<displayLoop, displayed, screen>>
computerVars == <<monitorVars, operatorVars, listen, consoleVars, comms, computerMain>>
airVars == <<picture, written>>

vars == <<airVars, computerVars, listenerVars, pulses, displayVars, running>>

(* What the Computer's steps leave alone, and what those of its monitor,   *)
(* of its other threads and of the Display's listener do.                  *)
beyondComputer == <<airVars, listenerVars, displayVars, running>>
beyondMonitor == <<operatorVars, listen, consoleVars, comms, computerMain, beyondComputer>>
beyondThreads == <<computerMain, pulses, beyondComputer>>
beyondListener == <<airVars, displayVars, running>>

-----------------------------------------------------------------------------
(* An alert: the snapshot it is about, by number and content, the pairs of *)
(* IDs in conflict and, as history, the lowest and the highest constraint  *)
(* in force while it was computed.                                         *)
NoAlert == [of |-> 0, planes |-> <<>>, pairs |-> {},
            lowest |-> DefaultConstraint, highest |-> DefaultConstraint]

(* Pairs of positions in a snapshot, each pair once.                       *)
PairsOf(planes) == {p \in (1..Len(planes)) \X (1..Len(planes)) : p[1] < p[2]}

inConflict(planes, p, constraint) ==
    checkAxes(planes[p[1]].plane, planes[p[2]].plane, constraint)

(* What checkCollision would find under one constraint.                    *)
collisionPairs(planes, constraint) ==
    {<<planes[p[1]].id, planes[p[2]].id>> :
        p \in {x \in PairsOf(planes) : inConflict(planes, x, constraint)}}

(* The display channel is attached; a name_open finds it.                  *)
Attached == listener \in {"running", "receive", "update"}

(* The Computer process has not corrupted its own memory.                  *)
ComputerAlive == monitor # "overrun"

Lesser(m, n) == IF m <= n THEN m ELSE n
Greater(m, n) == IF m <= n THEN n ELSE m

(* A thread goes from one location to the next.                            *)
MonitorGoes(from, to) == monitor = from /\ monitor' = to
OperatorGoes(from, to) == operator = from /\ operator' = to
ConsoleGoes(from, to) == console = from /\ console' = to
CommsGoes(from, to) == comms = from /\ comms' = to
MainGoes(from, to) == computerMain = from /\ computerMain' = to
ListenerGoes(from, to) == listener = from /\ listener' = to
DisplayGoes(from, to) == displayLoop = from /\ displayLoop' = to

-----------------------------------------------------------------------------
(* Both processes have mapped the shared memory and started their threads. *)
Init ==
    /\ picture \in Pictures
    /\ written = 1
    /\ monitor = "noData"
    /\ alert = NoAlert
    /\ i = 1 /\ j = 2 /\ t = 0
    /\ bound = DefaultConstraint
    /\ timeConstraintCollisionFreq = DefaultConstraint
    /\ operator = "receive"
    /\ operatorMsg = DefaultConstraint
    /\ listen = TRUE
    /\ console = "prompt"
    /\ typed = DefaultConstraint
    /\ commands = 0
    /\ comms = "receive"
    /\ computerMain = "joinMonitor"
    /\ listener = "attach"
    /\ received = NoAlert
    /\ pulses = 0
    /\ warnings = NoAlert
    /\ displayLoop = "noData"
    /\ displayed = 0
    /\ screen = [snapshot |-> 0, warnings |-> NoAlert]
    /\ running = TRUE

(* The Radar writes another snapshot.                                      *)
WriteSnapshot ==
    /\ written < MaxSnapshots
    /\ picture' \in Pictures
    /\ written' = written + 1
    /\ UNCHANGED <<computerVars, listenerVars, pulses, displayVars, running>>

-----------------------------------------------------------------------------
(* The monitor thread.                                                     *)

MonitorSeesData ==
    /\ MonitorGoes("noData", "read")
    /\ picture # <<>>
    /\ UNCHANGED <<pairVars, pulses, beyondMonitor>>

(* Seeded fault: the second index starts at the first one.                 *)
FirstPartner_Self(k) == k

(* The aircraft that the one at k is compared with first.                  *)
FirstPartner(k) == k + 1

(* One reading of the shared memory; the thread ends when it is empty.     *)
ReadSnapshot ==
    /\ \/ /\ picture = <<>>
          /\ MonitorGoes("read", "ended")
          /\ UNCHANGED pairVars
       \/ /\ picture # <<>>
          /\ MonitorGoes("read", "check")
          /\ alert' = [of |-> written, planes |-> picture, pairs |-> {},
                       lowest |-> timeConstraintCollisionFreq,
                       highest |-> timeConstraintCollisionFreq]
          /\ i' = 1 /\ j' = FirstPartner(1) /\ t' = 0
          /\ bound' = timeConstraintCollisionFreq
    /\ UNCHANGED <<pulses, beyondMonitor>>

(* checkAxes has a verdict; checkCollision records it and goes on to the   *)
(* next pair.                                                              *)
Verdict(conflict) ==
    /\ alert' = IF ~conflict THEN alert ELSE
           [alert EXCEPT !.pairs = @ \cup {<<alert.planes[i].id, alert.planes[j].id>>}]
    /\ IF j < Len(alert.planes) THEN i' = i /\ j' = j + 1
                                ELSE i' = i + 1 /\ j' = FirstPartner(i + 1)
    /\ t' = 0

ConflictAt(s) == conflictAt(alert.planes[i].plane, alert.planes[j].plane, s)

(* Checking a pair of the same velocity, at time 0 only.                   *)
CheckNow ==
    /\ MonitorGoes("check", "check") /\ j <= Len(alert.planes)
    /\ sameVelocity(alert.planes[i].plane, alert.planes[j].plane)
    /\ Verdict(ConflictAt(0))
    /\ UNCHANGED <<bound, pulses, beyondMonitor>>

(* Seeded fault: the last second of the constraint is not checked.         *)
Within_Strict(constraint) == t < constraint

Within(constraint) == t <= constraint

(* One turn of the loop over t.  The constraint it is compared with is the *)
(* current one or, since nothing synchronises the two threads, one the     *)
(* build has kept in a register.                                           *)
CheckSecond ==
    /\ MonitorGoes("check", "check") /\ j <= Len(alert.planes)
    /\ ~sameVelocity(alert.planes[i].plane, alert.planes[j].plane)
    /\ bound' \in {bound, timeConstraintCollisionFreq}
    /\ \/ ~Within(bound') /\ Verdict(FALSE)
       \/ Within(bound') /\ ConflictAt(t) /\ Verdict(TRUE)
       \/ Within(bound') /\ ~ConflictAt(t) /\ t' = t + 1 /\ UNCHANGED <<alert, i, j>>
    /\ UNCHANGED <<pulses, beyondMonitor>>

(* Seeded fault: nothing is sent when no pair is in conflict.              *)
AfterCheck_OnlyConflicts == IF alert.pairs = {} THEN "wait" ELSE "open"

(* The memcpy of the pairs into the message, whose data has a fixed size.  *)
AfterCheck == IF Cardinality(alert.pairs) > Capacity THEN "overrun" ELSE "open"

FillMessage ==
    /\ MonitorGoes("check", AfterCheck) /\ j > Len(alert.planes)
    /\ UNCHANGED <<pairVars, pulses, beyondMonitor>>

(* sendCollisionToDisplay: without a Display the alert is dropped.         *)
OpenDisplay ==
    /\ MonitorGoes("open", IF Attached THEN "sending" ELSE "wait")
    /\ UNCHANGED <<pairVars, pulses, beyondMonitor>>

(* MsgSend fails: the listener has detached its channel.                   *)
SendFails ==
    /\ MonitorGoes("sending", "close") /\ ~Attached
    /\ UNCHANGED <<pairVars, pulses, beyondMonitor>>

(* name_close, which leaves a pulse in the listener's channel; then the    *)
(* timer ends the wait.                                                    *)
CloseDisplay ==
    /\ MonitorGoes("close", "wait")
    /\ pulses' = IF Attached THEN 1 ELSE 0
    /\ UNCHANGED <<pairVars, beyondMonitor>>

MonitorTimer ==
    /\ MonitorGoes("wait", "read")
    /\ UNCHANGED <<pairVars, pulses, beyondMonitor>>

-----------------------------------------------------------------------------
(* The operator's console, and the thread that handles its command 5.      *)

(* Command 5: blocked in MsgSend to the Computer System.                   *)
TypeConstraint ==
    /\ ConsoleGoes("prompt", "toComputer") /\ ComputerAlive
    /\ commands < MaxCommands /\ commands' = commands + 1
    /\ typed' \in NewConstraints
    /\ UNCHANGED <<monitorVars, operatorVars, listen, comms, beyondThreads>>

(* A command to an aircraft: blocked in MsgSend to the Communications      *)
(* System (module OperatorCommands).                                       *)
TypeRelay ==
    /\ ConsoleGoes("prompt", "toComms") /\ ComputerAlive
    /\ commands < MaxCommands /\ commands' = commands + 1
    /\ UNCHANGED <<monitorVars, operatorVars, listen, typed, comms, beyondThreads>>

(* Command 0, or the end of the input.                                     *)
TypeExit ==
    /\ ConsoleGoes("prompt", "ended") /\ ComputerAlive
    /\ UNCHANGED <<monitorVars, operatorVars, listen, typed, commands, comms, beyondThreads>>

(* Seeded fault: the console is not replied to.                            *)
OperatorReply_Forgotten ==
    /\ OperatorGoes("receive", "handle") /\ console = "toComputer" /\ ComputerAlive
    /\ operatorMsg' = typed
    /\ UNCHANGED <<monitorVars, timeConstraintCollisionFreq, listen, consoleVars, comms>>
    /\ UNCHANGED beyondThreads

(* processMessage replies before it handles the message.                   *)
OperatorReply ==
    /\ OperatorGoes("receive", "handle") /\ ConsoleGoes("toComputer", "prompt")
    /\ ComputerAlive
    /\ operatorMsg' = typed
    /\ UNCHANGED <<monitorVars, timeConstraintCollisionFreq, listen, typed, commands, comms>>
    /\ UNCHANGED beyondThreads

(* The new constraint takes effect, and the loop looks at listen.          *)
OperatorHandle ==
    /\ OperatorGoes("handle", IF listen THEN "receive" ELSE "ended") /\ ComputerAlive
    /\ timeConstraintCollisionFreq' = operatorMsg
    /\ alert' = IF monitor = "check"
                THEN [alert EXCEPT !.lowest = Lesser(@, operatorMsg),
                                   !.highest = Greater(@, operatorMsg)]
                ELSE alert
    /\ UNCHANGED <<monitor, i, j, t, bound, operatorMsg, listen, consoleVars, comms>>
    /\ UNCHANGED beyondThreads

(* HandleCommunications replies and then messages the aircraft.            *)
CommsReply ==
    /\ CommsGoes("receive", "forward") /\ ConsoleGoes("toComms", "prompt") /\ ComputerAlive
    /\ UNCHANGED <<monitorVars, operatorVars, listen, typed, commands, beyondThreads>>

CommsForward ==
    /\ CommsGoes("forward", "receive") /\ ComputerAlive
    /\ UNCHANGED <<monitorVars, operatorVars, listen, consoleVars, beyondThreads>>

-----------------------------------------------------------------------------
(* The Computer's main: joinThread, then the destructors of the console,   *)
(* of the Computer System and of the Communications System.  The last one  *)
(* waits for HandleCommunications, which only an EXIT message would end    *)
(* and nothing sends one.                                                  *)
JoinMonitor ==
    /\ MainGoes("joinMonitor", "joinOperator") /\ monitor = "ended"
    /\ listen' = FALSE
    /\ UNCHANGED <<monitorVars, operatorVars, consoleVars, comms, pulses, beyondComputer>>

JoinOperator ==
    /\ MainGoes("joinOperator", "joinConsole") /\ operator = "ended"
    /\ UNCHANGED <<monitorVars, operatorVars, listen, consoleVars, comms, pulses, beyondComputer>>

JoinConsole ==
    /\ MainGoes("joinConsole", "joinComms") /\ console = "ended"
    /\ UNCHANGED <<monitorVars, operatorVars, listen, consoleVars, comms, pulses, beyondComputer>>

-----------------------------------------------------------------------------
(* The Display's listener thread.                                          *)

(* name_attach, tried five times; the thread ends when none succeeds.      *)
ListenerAttach ==
    /\ \E outcome \in {"running", "ended"} : ListenerGoes("attach", outcome)
    /\ UNCHANGED <<computerVars, received, warnings, pulses, beyondListener>>

(* while (running); name_detach after the loop.                            *)
ListenerLoop ==
    /\ ListenerGoes("running", IF running THEN "receive" ELSE "ended")
    /\ UNCHANGED <<computerVars, received, warnings, pulses, beyondListener>>

(* Seeded fault: a pulse clears the warnings.                              *)
ListenerPulse_Clears ==
    /\ ListenerGoes("receive", "running") /\ pulses > 0
    /\ pulses' = pulses - 1 /\ warnings' = NoAlert
    /\ UNCHANGED <<computerVars, received, beyondListener>>

ListenerPulse ==
    /\ ListenerGoes("receive", "running") /\ pulses > 0
    /\ pulses' = pulses - 1
    /\ UNCHANGED <<computerVars, received, warnings, beyondListener>>

(* Seeded fault: the message is answered and dropped.                      *)
AfterReply_Drops == "running"

AfterReply == "update"

(* MsgReceive of an alert, behind the pulse of the one before it, and      *)
(* MsgReply, which unblocks the monitor.                                   *)
ListenerReply ==
    /\ ListenerGoes("receive", AfterReply) /\ MonitorGoes("sending", "close") /\ pulses = 0
    /\ received' = alert
    /\ UNCHANGED <<pairVars, operatorVars, listen, consoleVars, comms, computerMain>>
    /\ UNCHANGED <<warnings, pulses, beyondListener>>

(* Under collision_mutex the warnings are replaced.                        *)
ListenerUpdate ==
    /\ ListenerGoes("update", "running")
    /\ warnings' = received
    /\ UNCHANGED <<computerVars, received, pulses, beyondListener>>

-----------------------------------------------------------------------------
(* The display loop.                                                       *)

DisplaySeesData ==
    /\ DisplayGoes("noData", "read")
    /\ picture # <<>>
    /\ UNCHANGED <<airVars, computerVars, listenerVars, pulses, displayed, screen, running>>

DisplayRead ==
    /\ DisplayGoes("read", IF picture = <<>> THEN "ended" ELSE "render")
    /\ running' = (running /\ picture # <<>>)
    /\ displayed' = IF picture = <<>> THEN displayed ELSE written
    /\ UNCHANGED <<airVars, computerVars, listenerVars, pulses, screen>>

(* render, which takes collision_mutex for the warnings; then the timer.   *)
Render ==
    /\ DisplayGoes("render", "read")
    /\ screen' = [snapshot |-> displayed, warnings |-> warnings]
    /\ UNCHANGED <<airVars, computerVars, listenerVars, pulses, displayed, running>>

-----------------------------------------------------------------------------
MonitorStep ==
    \/ MonitorSeesData \/ ReadSnapshot \/ CheckNow \/ CheckSecond \/ FillMessage
    \/ OpenDisplay \/ SendFails \/ CloseDisplay \/ MonitorTimer

OperatorStep == OperatorReply \/ OperatorHandle

CommsStep == CommsReply \/ CommsForward

ConsoleStep == TypeConstraint \/ TypeRelay \/ TypeExit

MainStep == JoinMonitor \/ JoinOperator \/ JoinConsole

ListenerStep ==
    \/ ListenerAttach \/ ListenerLoop \/ ListenerPulse \/ ListenerReply \/ ListenerUpdate

DisplayStep == DisplaySeesData \/ DisplayRead \/ Render

Next ==
    \/ WriteSnapshot
    \/ MonitorStep
    \/ OperatorStep
    \/ CommsStep
    \/ ConsoleStep
    \/ MainStep
    \/ ListenerStep
    \/ DisplayStep

(* Every thread is scheduled; the Radar need not write, nor the operator   *)
(* type, again.                                                            *)
Fairness ==
    /\ WF_vars(MonitorStep)
    /\ WF_vars(OperatorStep)
    /\ WF_vars(CommsStep)
    /\ WF_vars(MainStep)
    /\ WF_vars(ListenerStep)
    /\ WF_vars(DisplayStep)

Spec == Init /\ [][Next]_vars

FairSpec == Spec /\ Fairness

-----------------------------------------------------------------------------
(* Properties.                                                             *)

Alert ==
    [of : 0..MaxSnapshots, planes : Pictures \cup {<<>>}, pairs : SUBSET (Int \X Int),
     lowest : Int, highest : Int]

(* Every variable keeps its type: those of the monitor, of the Computer's  *)
(* other threads, and of the Display and its surroundings.                 *)
MonitorTypeOK ==
    /\ monitor \in {"noData", "read", "check", "open", "sending", "close", "wait", "ended",
                    "overrun"}
    /\ alert \in Alert
    /\ i \in Nat \ {0} /\ j \in Nat /\ t \in Nat
    /\ i < j
    /\ bound \in Int
    /\ timeConstraintCollisionFreq \in Int

OperatorTypeOK ==
    /\ operator \in {"receive", "handle", "ended"}
    /\ operatorMsg \in Int
    /\ listen \in BOOLEAN
    /\ console \in {"prompt", "toComputer", "toComms", "ended"}
    /\ typed \in Int
    /\ commands \in 0..MaxCommands
    /\ comms \in {"receive", "forward"}
    /\ computerMain \in {"joinMonitor", "joinOperator", "joinConsole", "joinComms"}

DisplayTypeOK ==
    /\ picture \in Pictures
    /\ written \in 1..MaxSnapshots
    /\ listener \in {"attach", "running", "receive", "update", "ended"}
    /\ received \in Alert /\ warnings \in Alert
    /\ pulses \in 0..1
    /\ displayLoop \in {"noData", "read", "render", "ended"}
    /\ displayed \in 0..MaxSnapshots
    /\ screen \in [snapshot : 0..MaxSnapshots, warnings : Alert]
    /\ running \in BOOLEAN

TypeOK == MonitorTypeOK /\ OperatorTypeOK /\ DisplayTypeOK

(* The pairs of an alert are those of its snapshot that conflict under a   *)
(* constraint that was in force while it was computed: all that do under   *)
(* the lowest, and only such as do under the highest.                      *)
Sound(a) ==
    /\ collisionPairs(a.planes, a.lowest) \subseteq a.pairs
    /\ a.pairs \subseteq collisionPairs(a.planes, a.highest)

(* Every alert that is sent, received, stored or on the screen is about    *)
(* one snapshot and sound, although the operator changes the constraint    *)
(* between two reads of it by checkAxes, and the display loop renders      *)
(* while the listener updates.                                             *)
AlertsAreSound ==
    /\ monitor \in {"open", "sending", "close"} => Sound(alert)
    /\ Sound(received)
    /\ Sound(warnings)
    /\ Sound(screen.warnings)

(* Neither part of the screen ever goes back to an older snapshot: alerts  *)
(* are not reordered on their way, although the listener replies before it *)
(* stores them.                                                            *)
ScreenAdvances ==
    [][/\ screen'.snapshot >= screen.snapshot
       /\ screen'.warnings.of >= screen.warnings.of]_vars

(* The listener takes a new alert only after it has stored the one before, *)
(* and none is older than that: none is lost between MsgReply and          *)
(* collision_warnings.                                                     *)
NoAlertOverwritten ==
    [][received' # received => received = warnings /\ received'.of >= received.of]_vars

(* The Display listens, and neither its loop nor the monitor has stopped.  *)
Monitoring ==
    /\ monitor \notin {"ended", "overrun"}
    /\ running
    /\ Attached

(* A pair of the last snapshot that conflicts under every constraint the   *)
(* operator can set.                                                       *)
LastingConflict(pair) ==
    /\ written = MaxSnapshots
    /\ \A constraint \in NewConstraints \cup {DefaultConstraint} :
           pair \in collisionPairs(picture, constraint)

AllPairs == UNION {{<<planes[p[1]].id, planes[p[2]].id>> : p \in PairsOf(planes)} :
                       planes \in Pictures}

(* A lasting conflict reaches the screen ("immediately sends a warning to  *)
(* the Display").                                                          *)
ConflictShown ==
    \A pair \in AllPairs :
        (LastingConflict(pair) /\ Monitoring) ~> (pair \in screen.warnings.pairs)

(* When the conflicts are over the warnings leave the screen.              *)
AllClearShown ==
    (/\ written = MaxSnapshots
     /\ picture # <<>>
     /\ \A constraint \in NewConstraints \cup {DefaultConstraint} :
            collisionPairs(picture, constraint) = {}
     /\ Monitoring) ~> (screen.warnings.pairs = {})

(* While the airspace is monitored, command 5 does not block the operator  *)
(* for good ("Commands are dispatched immediately").                       *)
OperatorServed ==
    (console = "toComputer") ~> (console = "prompt" \/ monitor \in {"ended", "overrun"})

(* The bound below which the message cannot be overrun: a snapshot of n    *)
(* aircraft has at most n(n-1)/2 pairs in conflict, so that of 16 aircraft *)
(* always fits the 128 pairs of the code, whatever the operator does while *)
(* they are collected (checkCollision visits no pair twice).               *)
SmallAlertsFit ==
    Len(alert.planes) * (Len(alert.planes) - 1) <= 2 * Capacity => monitor # "overrun"

(* README.md:126 and 149: a snapshot holds up to 100 aircraft, the maximum *)
(* load.  The alert about it must fit the message.  The code does not keep *)
(* this: the memcpy of ComputerSystem.cpp:185 is not bounded.              *)
AlertFits == monitor # "overrun"

(* Display.cpp:226, "No aircraft in airspace. Stopping.": when the display *)
(* loop has stopped the Display ends.  The code does not keep this: its    *)
(* listener stays in MsgReceive.                                           *)
DisplayStops == (displayLoop = "ended") ~> (listener = "ended")

(* ComputerSystem.cpp:110, "Method to join the threads": when the monitor  *)
(* has stopped both threads are joined.  The code does not keep this:      *)
(* processMessage stays in MsgReceive unless one more command comes.       *)
ThreadsJoined == (computerMain = "joinOperator") ~> (computerMain # "joinOperator")

=============================================================================
