------------------------------- MODULE Radar -------------------------------
(***************************************************************************)
(* The ATC process: aircraft threads, the two threads of the Radar and the *)
(* main thread that starts and stops them.                                 *)
(*                                                                         *)
(*  - every aircraft announces itself to the Radar (ENTER_AIRSPACE), makes *)
(*    itself reachable under its own channel name, and then moves once per *)
(*    message it serves until it leaves the airspace (EXIT_AIRSPACE);      *)
(*  - the listener thread keeps planesInAirspace, replying to the aircraft *)
(*    BEFORE it updates the set;                                           *)
(*  - the poller thread asks every registered aircraft for its position    *)
(*    and writes the replies to shared memory through a double buffer;     *)
(*  - main joins the aircraft and destroys the Radar.                      *)
(*                                                                         *)
(* A QNX MsgSend blocks its sender until the receiver replies, so a        *)
(* message in flight is the location of the blocked thread.  A position is *)
(* abstracted to the number of moves the aircraft had made; the order of a *)
(* buffer, which follows an unordered_set, is left out.                    *)
(***************************************************************************)
EXTENDS Naturals

CONSTANTS Planes,    \* the aircraft of planes.txt, by their unique IDs
          NoPlane,   \* "no aircraft", for the threads' local variables
          MaxMoves   \* every flight leaves the airspace after at most this many moves

ASSUME RadarAssumption ==
    /\ NoPlane \notin Planes
    /\ MaxMoves \in Nat \ {0}

VARIABLES
    flight,            \* where each aircraft thread is
    moves,             \* how often each aircraft has moved: its position
    planesInAirspace,  \* the Radar's set of registered aircraft
    listener,          \* where ListenAirspaceArrivalAndDeparture is
    caller,            \* the aircraft whose message the listener handles
    poller,            \* where ListenUpdatePosition is
    planesToPoll,      \* the poller's copy of planesInAirspace
    todo,              \* the part of the copy it has yet to visit
    target,            \* the aircraft it is polling
    planesInAirspaceData,  \* the two buffers of position reports
    activeBufferIndex,
    wasAirspaceEmpty,
    sharedMem,         \* the reports in shared memory; {} is is_empty, count 0
    radarChannel,      \* Radar_channel is attached (not NULL)
    stopThreads,
    mainThread         \* where main is

aircraftVars == <<flight, moves>>
listenerVars == <<listener, caller>>
pollVars == <<planesToPoll, todo, target>>
bufferVars == <<planesInAirspaceData, activeBufferIndex, wasAirspaceEmpty>>
pollerVars == <<poller, pollVars, bufferVars>>
radarVars == <<planesInAirspace, listenerVars, pollerVars, sharedMem, radarChannel>>
mainVars == <<stopThreads, mainThread>>

vars == <<aircraftVars, radarVars, mainVars>>

(* What the steps of the listener, and those of the poller, leave alone.   *)
beyondListener == <<moves, pollerVars, sharedMem, mainVars>>
beyondPoller == <<moves, listenerVars, radarChannel, mainVars>>

-----------------------------------------------------------------------------
(* A position report: aircraft, and its position as a number of moves.     *)
Report == [id : Planes, at : 1..MaxMoves]

(* The aircraft a set of reports speaks about.                             *)
Ids(reports) == {r.id : r \in reports}

FlightLocation ==
    {"approach",   \* before its arrival time
     "entering",   \* blocked in MsgSend(ENTER_AIRSPACE)
     "entered",    \* replied to, not yet attached to its own channel
     "moving",     \* before the next position update
     "receive",    \* in MsgReceive on its own channel
     "exiting",    \* blocked in MsgSend(EXIT_AIRSPACE)
     "leaving",    \* replied to, not yet detached from its channel
     "gone",       \* thread ended after leaving the airspace
     "failed"}     \* thread ended with EXIT_FAILURE

(* In its position-update loop: in the airspace and not on its way out.    *)
Flying(p) == flight[p] \in {"moving", "receive"}

(* Seeded fault: only an aircraft that waits in MsgReceive is reached.     *)
Reachable_Waiting(p) == flight[p] = "receive"

(* Seeded fault: the aircraft's thread ends without name_detach.           *)
Reachable_NoDetach(p) == flight[p] \in {"moving", "receive", "exiting", "leaving", "gone"}

(* name_open on the aircraft's name succeeds, and a MsgSend over that      *)
(* connection waits for it: its channel is attached.                       *)
Reachable(p) == flight[p] \in {"moving", "receive", "exiting", "leaving"}

Finished(p) == flight[p] \in {"gone", "failed"}

(* Seeded fault: the index is incremented but not wrapped.                 *)
Inactive_NoWrap == activeBufferIndex + 1

Inactive == (activeBufferIndex + 1) % 2

(* Seeded fault: the reports are copied behind the ones already there.     *)
ActiveBuffer_Appended == sharedMem \cup planesInAirspaceData[activeBufferIndex]

ActiveBuffer == planesInAirspaceData[activeBufferIndex]

(* The process has not been killed by a bad access of its listener.        *)
Alive == listener # "crashed"

(* A thread goes from one location to the next.                            *)
AircraftGoes(p, from, to) == flight[p] = from /\ flight' = [flight EXCEPT ![p] = to]
ListenerGoes(from, to) == listener = from /\ listener' = to
PollerGoes(from, to) == poller = from /\ poller' = to
MainGoes(from, to) == mainThread = from /\ mainThread' = to

-----------------------------------------------------------------------------
(* Initial state: main has constructed the Radar (both its threads exist   *)
(* and shared memory is cleared) and created the aircraft threads.         *)
Init ==
    /\ flight = [p \in Planes |-> "approach"]
    /\ moves = [p \in Planes |-> 0]
    /\ planesInAirspace = {}
    /\ listener = "attach"
    /\ caller = NoPlane
    /\ poller = "check"
    /\ planesToPoll = {}
    /\ todo = {}
    /\ target = NoPlane
    /\ planesInAirspaceData = [b \in 0..1 |-> {}]
    /\ activeBufferIndex = 0
    /\ wasAirspaceEmpty = TRUE
    /\ sharedMem = {}
    /\ radarChannel = FALSE
    /\ stopThreads = FALSE
    /\ mainThread = "joining"

-----------------------------------------------------------------------------
(* The aircraft thread, Aircraft::updatePosition.                          *)

(* The arrival time is reached.  name_open finds the Radar's channel and   *)
(* the aircraft blocks in MsgSend, or it fails and the thread ends.        *)
Arrive(p) ==
    /\ AircraftGoes(p, "approach", IF radarChannel THEN "entering" ELSE "failed")
    /\ UNCHANGED <<moves, radarVars, mainVars>>

(* name_attach of the aircraft's own name, only after the ENTER exchange.  *)
Attach(p) ==
    /\ \E outcome \in {"moving", "failed"} : AircraftGoes(p, "entered", outcome)
    /\ UNCHANGED <<moves, radarVars, mainVars>>

(* One timer tick: move by the velocity, then test the bounds.  Inside the *)
(* airspace the aircraft waits for one message; outside it sends its exit. *)
Move(p) ==
    /\ \/ moves[p] + 1 < MaxMoves /\ AircraftGoes(p, "moving", "receive")
       \/ AircraftGoes(p, "moving", "exiting")
    /\ moves' = [moves EXCEPT ![p] = @ + 1]
    /\ UNCHANGED <<radarVars, mainVars>>

(* Seeded fault: the aircraft answers every waiting message before it moves. *)
AfterMessage_Stays == "receive"

(* After one message, whatever it was, comes the next move.                *)
AfterMessage == "moving"

(* The message it gets is an operator's command or a pulse (rcvid = 0),    *)
(* not the Radar's: it handles that one and goes on to its next move.      *)
ServeOther(p) ==
    /\ AircraftGoes(p, "receive", AfterMessage)
    /\ UNCHANGED <<moves, radarVars, mainVars>>

(* name_detach, pthread_exit.                                              *)
Detach(p) ==
    /\ AircraftGoes(p, "leaving", "gone")
    /\ UNCHANGED <<moves, radarVars, mainVars>>

-----------------------------------------------------------------------------
(* The listener, Radar::ListenAirspaceArrivalAndDeparture.                 *)

ListenerAttach ==
    /\ ListenerGoes("attach", "check")
    /\ radarChannel' = TRUE
    /\ UNCHANGED <<flight, planesInAirspace, caller, beyondListener>>

(* while (!stopThreads.load())                                             *)
ListenerCheck ==
    /\ ListenerGoes("check", IF stopThreads THEN "stopped" ELSE "call")
    /\ UNCHANGED <<flight, planesInAirspace, caller, radarChannel, beyondListener>>

(* MsgReceive(Radar_channel->chid, ...): the call itself.  When main has   *)
(* detached the channel since the check, Radar_channel is NULL or points   *)
(* to freed memory: the process is killed, or MsgReceive fails and the     *)
(* loop ends.                                                              *)
ListenerCall ==
    /\ \E outcome \in IF radarChannel THEN {"receive"} ELSE {"crashed", "stopped"} :
           ListenerGoes("call", outcome)
    /\ UNCHANGED <<flight, planesInAirspace, caller, radarChannel, beyondListener>>

(* A message arrives and is replied to at once; the set is updated later.  *)
ReceiveEnter(p) ==
    /\ ListenerGoes("receive", "add")
    /\ AircraftGoes(p, "entering", "entered")
    /\ caller' = p
    /\ UNCHANGED <<planesInAirspace, radarChannel, beyondListener>>

ReceiveExit(p) ==
    /\ ListenerGoes("receive", "remove")
    /\ AircraftGoes(p, "exiting", "leaving")
    /\ caller' = p
    /\ UNCHANGED <<planesInAirspace, radarChannel, beyondListener>>

(* name_detach of the Radar's channel ends a blocked MsgReceive with -1.   *)
ListenerUnblocked ==
    /\ ~radarChannel
    /\ ListenerGoes("receive", IF stopThreads THEN "stopped" ELSE "check")
    /\ UNCHANGED <<flight, planesInAirspace, caller, radarChannel, beyondListener>>

addPlaneToAirspace ==
    /\ ListenerGoes("add", "check")
    /\ planesInAirspace' = planesInAirspace \cup {caller}
    /\ caller' = NoPlane
    /\ UNCHANGED <<flight, radarChannel, beyondListener>>

removePlaneFromAirspace ==
    /\ ListenerGoes("remove", "check")
    /\ planesInAirspace' = planesInAirspace \ {caller}
    /\ caller' = NoPlane
    /\ UNCHANGED <<flight, radarChannel, beyondListener>>

-----------------------------------------------------------------------------
(* The poller, Radar::ListenUpdatePosition.                                *)

(* while (!stopThreads.load())                                             *)
PollerCheck ==
    /\ PollerGoes("check", IF stopThreads THEN "stopped" ELSE "timer")
    /\ UNCHANGED <<flight, planesInAirspace, pollVars, bufferVars, sharedMem, beyondPoller>>

(* Seeded fault: nothing is written when the airspace has become empty.    *)
AfterTimer_NoEmptyWrite == IF planesInAirspace # {} THEN "copy" ELSE "check"

(* planesInAirspace.empty() is read without the mutex.                     *)
AfterTimer ==
    IF planesInAirspace # {} THEN "copy"
    ELSE IF ~wasAirspaceEmpty THEN "writeEmpty" ELSE "check"

(* The timer fires.                                                        *)
PollerWake ==
    /\ PollerGoes("timer", AfterTimer)
    /\ UNCHANGED <<flight, planesInAirspace, pollVars, bufferVars, sharedMem, beyondPoller>>

(* pollAirspace: copy the set under the mutex, clear the inactive buffer.  *)
CopyAirspace ==
    /\ PollerGoes("copy", "next")
    /\ planesToPoll' = planesInAirspace
    /\ todo' = planesInAirspace
    /\ planesInAirspaceData' = [planesInAirspaceData EXCEPT ![Inactive] = {}]
    /\ UNCHANGED <<flight, planesInAirspace, target, activeBufferIndex, wasAirspaceEmpty>>
    /\ UNCHANGED <<sharedMem, beyondPoller>>

(* Take an aircraft of the copy; skip it when it is no longer registered.  *)
SelectPlane(p) ==
    /\ p \in todo
    /\ todo' = todo \ {p}
    /\ \/ p \in planesInAirspace /\ PollerGoes("next", "open") /\ target' = p
       \/ p \notin planesInAirspace /\ PollerGoes("next", "next") /\ UNCHANGED target
    /\ UNCHANGED <<flight, planesInAirspace, planesToPoll, bufferVars, sharedMem, beyondPoller>>

(* getAircraftData: name_open, then MsgSend blocks; -1 throws.             *)
OpenPlane ==
    /\ PollerGoes("open", IF Reachable(target) THEN "sent" ELSE "erase")
    /\ UNCHANGED <<flight, planesInAirspace, pollVars, bufferVars, sharedMem, beyondPoller>>

(* The aircraft receives REQUEST_POSITION and replies; the poller keeps    *)
(* the reply in the inactive buffer.                                       *)
AnswerRadar(p) ==
    /\ PollerGoes("sent", "next")
    /\ AircraftGoes(p, "receive", AfterMessage)
    /\ target = p
    /\ target' = NoPlane
    /\ planesInAirspaceData' =
           [planesInAirspaceData EXCEPT ![Inactive] = @ \cup {[id |-> p, at |-> moves[p]]}]
    /\ UNCHANGED <<planesInAirspace, planesToPoll, todo, activeBufferIndex, wasAirspaceEmpty>>
    /\ UNCHANGED <<sharedMem, beyondPoller>>

(* The aircraft detached its channel while the request was waiting.        *)
SendFails ==
    /\ PollerGoes("sent", "erase")
    /\ ~Reachable(target)
    /\ UNCHANGED <<flight, planesInAirspace, pollVars, bufferVars, sharedMem, beyondPoller>>

(* Seeded fault: the catch block ends the whole loop over the copy.        *)
ErasePlane_AbandonsPoll ==
    /\ PollerGoes("erase", "next")
    /\ planesInAirspace' = planesInAirspace \ {target}
    /\ target' = NoPlane /\ todo' = {}
    /\ UNCHANGED <<flight, planesToPoll, bufferVars, sharedMem, beyondPoller>>

(* catch: "no longer reachable, remove it from the airspace".              *)
ErasePlane ==
    /\ PollerGoes("erase", "next")
    /\ planesInAirspace' = planesInAirspace \ {target}
    /\ target' = NoPlane
    /\ UNCHANGED <<flight, planesToPoll, todo, bufferVars, sharedMem, beyondPoller>>

(* Every aircraft of the copy was visited: make the new buffer active.     *)
SwitchBuffer ==
    /\ PollerGoes("next", "write")
    /\ todo = {}
    /\ activeBufferIndex' = Inactive
    /\ planesToPoll' = {}
    /\ UNCHANGED <<flight, planesInAirspace, todo, target, planesInAirspaceData>>
    /\ UNCHANGED <<wasAirspaceEmpty, sharedMem, beyondPoller>>

(* Seeded fault: the written buffer is not cleared.                        *)
Drained_Forgotten == planesInAirspaceData

(* The buffers after the write.                                            *)
Drained == [planesInAirspaceData EXCEPT ![activeBufferIndex] = {}]

(* writeToSharedMemory, whole: the semaphore makes it one step for every   *)
(* reader that takes it (module SharedSnapshot).                           *)
writeToSharedMemory ==
    /\ \E from \in {"write", "writeEmpty"} :
           PollerGoes(from, "check") /\ wasAirspaceEmpty' = (from = "writeEmpty")
    /\ sharedMem' = ActiveBuffer
    /\ planesInAirspaceData' = Drained
    /\ UNCHANGED <<flight, planesInAirspace, pollVars, activeBufferIndex, beyondPoller>>

-----------------------------------------------------------------------------
(* The main thread: startPlanes joins the aircraft, then main returns and  *)
(* ~Radar runs shutdown() and clearSharedMemory().                         *)

(* Seeded fault: main does not wait for the aircraft.                      *)
AllJoined_Skipped == TRUE

AllJoined == \A p \in Planes : Finished(p)

MainJoined ==
    /\ AllJoined
    /\ MainGoes("joining", "detach")
    /\ stopThreads' = TRUE
    /\ UNCHANGED <<aircraftVars, radarVars>>

(* Seeded fault: shutdown() leaves the Radar's channel attached.           *)
MainDetach_KeepsChannel ==
    /\ MainGoes("detach", "joinThreads")
    /\ UNCHANGED <<aircraftVars, radarVars, stopThreads>>

MainDetach ==
    /\ MainGoes("detach", "joinThreads")
    /\ radarChannel' = FALSE
    /\ UNCHANGED <<aircraftVars, planesInAirspace, listenerVars, pollerVars, sharedMem>>
    /\ UNCHANGED stopThreads

clearSharedMemory ==
    /\ MainGoes("joinThreads", "done")
    /\ listener = "stopped" /\ poller = "stopped"
    /\ sharedMem' = {}
    /\ UNCHANGED <<aircraftVars, planesInAirspace, listenerVars, pollerVars, radarChannel>>
    /\ UNCHANGED stopThreads

-----------------------------------------------------------------------------
AircraftStep(p) ==
    Alive /\ (Arrive(p) \/ Attach(p) \/ Move(p) \/ Detach(p))

ListenerStep ==
    Alive /\ ( \/ ListenerAttach \/ ListenerCheck \/ ListenerCall \/ ListenerUnblocked
               \/ addPlaneToAirspace \/ removePlaneFromAirspace
               \/ \E p \in Planes : ReceiveEnter(p) \/ ReceiveExit(p) )

PollerStep ==
    Alive /\ ( \/ PollerCheck \/ PollerWake \/ CopyAirspace \/ OpenPlane \/ SendFails
               \/ ErasePlane \/ SwitchBuffer \/ writeToSharedMemory
               \/ \E p \in Planes : SelectPlane(p) \/ AnswerRadar(p) )

MainStep == Alive /\ (MainJoined \/ MainDetach \/ clearSharedMemory)

(* The process has ended: main returned, or the process was killed.        *)
Terminated == (mainThread = "done" \/ ~Alive) /\ UNCHANGED vars

Next ==
    \/ \E p \in Planes : AircraftStep(p)
    \/ \E p \in Planes : Alive /\ ServeOther(p)
    \/ ListenerStep
    \/ PollerStep
    \/ MainStep
    \/ Terminated

(* Every thread keeps being scheduled; a command or pulse for an aircraft  *)
(* may never come, so ServeOther is not fair.                              *)
Fairness ==
    /\ \A p \in Planes : WF_vars(AircraftStep(p))
    /\ WF_vars(ListenerStep)
    /\ WF_vars(PollerStep)
    /\ WF_vars(MainStep)

Spec == Init /\ [][Next]_vars

FairSpec == Spec /\ Fairness

-----------------------------------------------------------------------------
(* Properties.                                                             *)

Buffers == {planesInAirspaceData[0], planesInAirspaceData[1], sharedMem}

(* Every variable keeps its type.                                          *)
TypeOK ==
    /\ flight \in [Planes -> FlightLocation]
    /\ moves \in [Planes -> 0..MaxMoves]
    /\ planesInAirspace \subseteq Planes
    /\ listener \in {"attach", "check", "call", "receive", "add", "remove",
                     "stopped", "crashed"}
    /\ caller \in Planes \cup {NoPlane}
    /\ poller \in {"check", "timer", "copy", "next", "open", "sent", "erase",
                   "write", "writeEmpty", "stopped"}
    /\ planesToPoll \subseteq Planes
    /\ todo \subseteq planesToPoll
    /\ target \in planesToPoll \cup {NoPlane}
    /\ planesInAirspaceData \in [0..1 -> SUBSET Report]
    /\ activeBufferIndex \in 0..1
    /\ wasAirspaceEmpty \in BOOLEAN
    /\ sharedMem \subseteq Report
    /\ radarChannel \in BOOLEAN
    /\ stopThreads \in BOOLEAN
    /\ mainThread \in {"joining", "detach", "joinThreads", "done"}

(* An aircraft that once answered the Radar and is still flying stays      *)
(* registered: neither a late removal by the listener nor the poller's     *)
(* catch block may drop it (Radar::removePlaneFromAirspace,                *)
(* Radar::pollAirspace).                                                   *)
ReportedStaysTracked ==
    \A reports \in Buffers : \A p \in Ids(reports) :
        Flying(p) => p \in planesInAirspace

(* A buffer, and shared memory, holds at most one report of an aircraft:   *)
(* no report of an earlier poll survives in the buffer that is reused      *)
(* (Radar::pollAirspace, Radar::writeToSharedMemory).                      *)
OneReportPerPlane ==
    \A reports \in Buffers : \A r, s \in reports : r.id = s.id => r = s

(* When a poll has visited its whole copy of the airspace, every aircraft  *)
(* of the copy that is still registered is in the new buffer               *)
(* (Radar::pollAirspace).                                                  *)
PollIsComplete ==
    (poller = "next" /\ todo = {}) =>
        planesToPoll \cap planesInAirspace \subseteq Ids(planesInAirspaceData[Inactive])

(* The write that announces an empty airspace finds the active buffer      *)
(* drained, though no poll ran before it (Radar::ListenUpdatePosition).    *)
EmptyWriteIsEmpty ==
    poller = "writeEmpty" => ActiveBuffer = {}

(* The loop takes the airspace for announced as empty, and will write no   *)
(* more until an aircraft arrives, only when the picture in shared memory  *)
(* is empty: no departed aircraft is left in a picture that nobody will    *)
(* replace (Radar::ListenUpdatePosition, wasAirspaceEmpty).                *)
NobodyLeftBehind ==
    wasAirspaceEmpty => sharedMem = {}

(* From one picture in shared memory to the next, an aircraft in both has  *)
(* moved in between: no picture repeats or goes back to an older report    *)
(* (Radar::pollAirspace, Radar::writeToSharedMemory).                      *)
ReportsAdvance ==
    [][\A r \in sharedMem, s \in sharedMem' : r.id = s.id => s.at > r.at]_sharedMem

(* An aircraft drops out of the picture only when it has left: while it    *)
(* flies, no picture misses an aircraft the picture before it showed.      *)
(* The Radar registers, polls and publishes in three steps that the        *)
(* listener interleaves with (Radar::pollAirspace,                         *)
(* Radar::ListenUpdatePosition).                                           *)
NoDropouts ==
    [][\A p \in Ids(sharedMem) \ Ids(sharedMem') : ~Flying(p)]_sharedMem

(* The process is killed, if at all, when the flights are over: the        *)
(* listener uses Radar_channel after its check of stopThreads, while       *)
(* shutdown() detaches it only after main has joined every aircraft        *)
(* (Radar::shutdown, Radar::ListenAirspaceArrivalAndDeparture).            *)
CrashIsLate == ~Alive => stopThreads /\ \A p \in Planes : Finished(p)

(* What others see of the Radar: flights and published pictures.           *)
Traffic == INSTANCE TrafficPicture
               WITH airborne <- {p \in Planes : Flying(p)}, picture <- sharedMem

(* With all its threads, blocking messages and buffers the Radar publishes *)
(* what module TrafficPicture allows: whole pictures, one current report   *)
(* of an aircraft, none of the flying ones lost (Radar::pollAirspace,      *)
(* Radar::writeToSharedMemory).                                            *)
PublishesTraffic == Traffic!Spec

(* The poller's MsgSend to an aircraft does not block for ever: it is      *)
(* answered, or the aircraft detaches its channel                          *)
(* (Radar::getAircraftData).                                               *)
PollerUnblocked == (poller = "sent") ~> (poller # "sent" \/ ~Alive)

(* An aircraft in the picture keeps being polled, so it keeps moving until *)
(* it has left the airspace (Aircraft::updatePosition moves only after a   *)
(* message).                                                               *)
ReportedFliesOn ==
    \A p \in Planes : (p \in Ids(sharedMem)) ~> (flight[p] = "gone")

(* An aircraft that has left disappears from shared memory for good, also  *)
(* when it was the last one (wasAirspaceEmpty).  A process killed while it *)
(* shuts down leaves its last picture behind.                              *)
DepartedIsForgotten ==
    \A p \in Planes :
        (flight[p] = "gone") ~> (~Alive \/ [](p \notin Ids(sharedMem)))

(* Once main has set stopThreads, both threads end and main returns        *)
(* (Radar::shutdown).                                                      *)
ShutdownCompletes == stopThreads ~> (mainThread = "done" \/ ~Alive)

(* README.md:47, "It keeps track of which aircraft are currently in the    *)
(* airspace": an aircraft in its update loop whose ENTER_AIRSPACE the      *)
(* listener has handled is registered.  The code does not keep this.       *)
FlyingIsTracked ==
    \A p \in Planes :
        (Flying(p) /\ ~(listener = "add" /\ caller = p)) => p \in planesInAirspace

(* README.md:44, "an independent thread that enters the airspace at its    *)
(* scheduled time": an aircraft whose time has come announces itself.  The *)
(* code does not keep this: the Radar may not have its channel yet.        *)
EveryAircraftEnters ==
    [][\A p \in Planes : flight[p] = "approach" => flight'[p] \in {"approach", "entering"}]_flight

=============================================================================
