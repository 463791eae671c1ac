---------------------------- MODULE RadarProofs ----------------------------
(***************************************************************************)
(* What module Radar promises for every set of aircraft and every bound on *)
(* their moves: its type invariant, its safety invariants and its action   *)
(* properties, all from one inductive invariant.                           *)
(***************************************************************************)
EXTENDS Radar, TLAPS

(* pollAirspace is visiting the aircraft of its copy.                      *)
Polling == poller \in {"next", "open", "sent", "erase"}

(* The thread between its two exchanges with the Radar's listener, or past *)
(* them: it is registered, or will be before it sends EXIT_AIRSPACE.       *)
Announced(p) == flight[p] \notin {"approach", "entering"}

(* The local variables of the threads hold an aircraft where they are used. *)
LocalsOK ==
    /\ listener \in {"add", "remove"} => caller \in Planes
    /\ poller \in {"open", "sent", "erase"} <=> target # NoPlane
    /\ Polling \/ planesToPoll = {}
    /\ target \notin todo

(* A flight's moves, by where its thread is.                               *)
MovesOK ==
    \A p \in Planes :
        /\ flight[p] \in {"approach", "entering", "entered"} => moves[p] = 0
        /\ Flying(p) => moves[p] < MaxMoves
        /\ flight[p] = "receive" => moves[p] > 0

(* What the listener is about to do agrees with where its caller is.       *)
ListenerOK ==
    /\ listener = "add" => Announced(caller)
    /\ listener = "remove" => flight[caller] \in {"leaving", "gone"}

(* An aircraft is registered once, after its ENTER_AIRSPACE: what has not  *)
(* been added yet is in no copy of the set.                                *)
RegistrationOK ==
    \A p \in planesInAirspace \cup planesToPoll :
        Announced(p) /\ ~(listener = "add" /\ caller = p)

(* A report is of an aircraft that has been in its update loop, and is not *)
(* newer than its last move; while it waits for the next request it has    *)
(* moved since its last report.                                            *)
ReportsOK ==
    \A reports \in Buffers : \A r \in reports :
        /\ flight[r.id] \in {"moving", "receive", "exiting", "leaving", "gone"}
        /\ r.at <= moves[r.id]
        /\ flight[r.id] = "receive" => r.at < moves[r.id]

(* The aircraft being polled is registered while it can still answer, and  *)
(* is erased only if it never answered or flies no more.                   *)
TargetOK ==
    /\ poller \in {"open", "sent"} =>
           (flight[target] = "entered" \/ Flying(target) => target \in planesInAirspace)
    /\ poller = "erase" =>
           \A reports \in Buffers : target \in Ids(reports) => ~Flying(target)

(* The double buffer: the active buffer is drained except between a poll   *)
(* and its write, the inactive one is in use only during a poll and holds  *)
(* nothing of an aircraft that is still to be asked.                       *)
BuffersOK ==
    /\ poller # "write" => planesInAirspaceData[activeBufferIndex] = {}
    /\ ~Polling => planesInAirspaceData[Inactive] = {}
    /\ Ids(planesInAirspaceData[Inactive]) \cap (todo \cup {target}) = {}

(* The aircraft of the copy that were visited and are still registered     *)
(* have reported.                                                          *)
VisitedOK ==
    Polling => \A p \in (planesToPoll \cap planesInAirspace) \ (todo \cup {target}) :
                   p \in Ids(planesInAirspaceData[Inactive])

(* Reports waiting to be published are newer than the published ones.      *)
NewerOK ==
    \A b \in 0..1 : \A r \in sharedMem, s \in planesInAirspaceData[b] :
        r.id = s.id => s.at > r.at

(* No aircraft of the picture is lost on the way to the next picture while *)
(* it flies.                                                               *)
PictureOK ==
    \A p \in Ids(sharedMem) :
        Flying(p) => /\ Polling => p \in planesToPoll
                     /\ poller = "write" => p \in Ids(planesInAirspaceData[activeBufferIndex])
                     /\ poller # "writeEmpty"

(* main stops the Radar, and detaches a channel the listener has attached, *)
(* after the last aircraft thread has ended.                               *)
MainOK ==
    /\ mainThread # "joining" => stopThreads /\ \A p \in Planes : Finished(p)
    /\ listener \notin {"attach", "stopped"} /\ ~radarChannel => mainThread # "joining"
    /\ listener = "crashed" => mainThread # "joining"

IInv ==
    /\ TypeOK
    /\ LocalsOK
    /\ MovesOK
    /\ ListenerOK
    /\ RegistrationOK
    /\ ReportsOK
    /\ TargetOK
    /\ BuffersOK
    /\ VisitedOK
    /\ NewerOK
    /\ PictureOK
    /\ MainOK
    /\ ReportedStaysTracked
    /\ OneReportPerPlane

-----------------------------------------------------------------------------
USE RadarAssumption DEF aircraftVars, listenerVars, pollVars, bufferVars, pollerVars,
    radarVars, mainVars, vars, beyondListener, beyondPoller, AircraftGoes, ListenerGoes,
    PollerGoes, MainGoes, AfterMessage, AfterTimer, ActiveBuffer, Drained, AllJoined

(* The aircraft of a set of reports that one report is added to.           *)
LEMMA IdsAdd ==
  ASSUME NEW reports, NEW r
  PROVE  Ids(reports \cup {r}) = Ids(reports) \cup {r.id}
BY DEF Ids

(* The steps of an aircraft's thread.                                      *)
LEMMA AircraftInv ==
  ASSUME IInv, NEW p \in Planes, AircraftStep(p) \/ ServeOther(p)
  PROVE  IInv'
<1>1. CASE Arrive(p) \/ ServeOther(p) \/ Detach(p)
  BY <1>1
  DEF IInv, Arrive, ServeOther, Detach, TypeOK, LocalsOK, MovesOK, ListenerOK,
      RegistrationOK, ReportsOK, TargetOK, BuffersOK, VisitedOK, NewerOK,
      PictureOK, MainOK, ReportedStaysTracked, OneReportPerPlane, Announced,
      Buffers, Finished, FlightLocation, Flying, Ids, Inactive, Polling,
      Report
<1>2. CASE Attach(p)
  (* It has not reported before it attaches. *)
  <2>1. TargetOK' /\ PictureOK' /\ ReportedStaysTracked'
    BY <1>2
    DEF IInv, Attach, ReportsOK, TargetOK, PictureOK, ReportedStaysTracked,
        Buffers, Flying, Ids, Polling
  <2> QED
    BY <1>2, <2>1
    DEF IInv, Attach, TypeOK, LocalsOK, MovesOK, ListenerOK, RegistrationOK,
        ReportsOK, BuffersOK, VisitedOK, NewerOK, MainOK, OneReportPerPlane,
        Announced, Buffers, Finished, FlightLocation, Flying, Ids, Inactive,
        Polling, Report
<1>3. CASE Move(p)
  (* It leaves the loop after MaxMoves moves. *)
  <2>1. TypeOK'
    BY <1>3
    DEF IInv, Move, TypeOK, MovesOK, FlightLocation, Flying, Inactive, Report
  (* It is not the listener's caller before it exits. *)
  <2>2. ListenerOK' /\ TargetOK'
    BY <1>3
    DEF IInv, Move, TypeOK, LocalsOK, ListenerOK, TargetOK, Announced,
        Buffers, FlightLocation, Flying, Ids, Inactive, Polling, Report
  <2> QED
    BY <1>3, <2>1, <2>2
    DEF IInv, Move, TypeOK, LocalsOK, MovesOK, RegistrationOK, ReportsOK,
        BuffersOK, VisitedOK, NewerOK, PictureOK, MainOK,
        ReportedStaysTracked, OneReportPerPlane, Announced, Buffers, Finished,
        FlightLocation, Flying, Ids, Inactive, Polling, Report
<1> QED
  BY <1>1, <1>2, <1>3 DEF AircraftStep

(* The steps of the listener's thread.                                     *)
LEMMA ListenerInv ==
  ASSUME IInv, ListenerStep
  PROVE  IInv'
<1>1. CASE ListenerAttach \/ ListenerCheck \/ ListenerCall \/ ListenerUnblocked
  <2>1. TypeOK'
    <3>1. UNCHANGED <<aircraftVars, planesInAirspace, caller, pollerVars, sharedMem, mainVars>>
      BY <1>1 DEF ListenerAttach, ListenerCheck, ListenerCall, ListenerUnblocked
    <3>2. /\ listener' \in {"check", "call", "receive", "stopped", "crashed"}
          /\ radarChannel' \in BOOLEAN
      BY <1>1
      DEF IInv, TypeOK, ListenerAttach, ListenerCheck, ListenerCall, ListenerUnblocked
    <3>3. TypeOK
      BY DEF IInv
    <3>4. stopThreads' \in BOOLEAN /\ wasAirspaceEmpty' \in BOOLEAN
      BY <3>1, <3>3 DEF TypeOK
    <3> QED
      BY <3>1, <3>2, <3>3, <3>4 DEF TypeOK
  <2>2. LocalsOK' /\ MovesOK' /\ ListenerOK' /\ RegistrationOK'
         /\ ReportsOK' /\ TargetOK' /\ BuffersOK' /\ VisitedOK' /\ NewerOK' /\ PictureOK'
         /\ MainOK' /\ ReportedStaysTracked' /\ OneReportPerPlane'
    BY <1>1
    DEF IInv, ListenerAttach, ListenerCheck, ListenerCall, ListenerUnblocked,
        TypeOK, LocalsOK, MovesOK, ListenerOK, RegistrationOK, ReportsOK,
        TargetOK, BuffersOK, VisitedOK, NewerOK, PictureOK, MainOK,
        ReportedStaysTracked, OneReportPerPlane, Announced, Buffers, Finished,
        FlightLocation, Flying, Ids, Inactive, Polling, Report
  <2> QED
    BY <2>1, <2>2 DEF IInv
<1>2. ASSUME NEW p \in Planes, ReceiveEnter(p)
      PROVE  IInv'
  (* The poller has no aircraft that is still to be registered. *)
  <2>1. TargetOK'
    BY <1>2
    DEF IInv, ReceiveEnter, TypeOK, RegistrationOK, TargetOK, Announced,
        Buffers, FlightLocation, Flying, Ids, Inactive, Report
  <2> QED
    BY <1>2, <2>1
    DEF IInv, ReceiveEnter, TypeOK, LocalsOK, MovesOK, ListenerOK,
        RegistrationOK, ReportsOK, BuffersOK, VisitedOK, NewerOK, PictureOK,
        MainOK, ReportedStaysTracked, OneReportPerPlane, Announced, Buffers,
        Finished, FlightLocation, Flying, Ids, Inactive, Polling, Report
<1>3. ASSUME NEW p \in Planes, ReceiveExit(p)
      PROVE  IInv'
  BY <1>3
  DEF IInv, ReceiveExit, TypeOK, LocalsOK, MovesOK, ListenerOK,
      RegistrationOK, ReportsOK, TargetOK, BuffersOK, VisitedOK, NewerOK,
      PictureOK, MainOK, ReportedStaysTracked, OneReportPerPlane, Announced,
      Buffers, Finished, FlightLocation, Flying, Ids, Inactive, Polling,
      Report
<1>4. CASE addPlaneToAirspace
  (* The caller is an aircraft. *)
  <2>1. TypeOK'
    BY <1>4
    DEF IInv, addPlaneToAirspace, TypeOK, LocalsOK, FlightLocation, Inactive,
        Polling, Report
  (* It has announced itself. *)
  <2>2. RegistrationOK'
    BY <1>4
    DEF IInv, addPlaneToAirspace, ListenerOK, RegistrationOK, Announced
  (* It is not in the poller's copy, so it need not have reported. *)
  <2>3. VisitedOK'
    BY <1>4
    DEF IInv, addPlaneToAirspace, TypeOK, RegistrationOK, VisitedOK,
        Announced, FlightLocation, Ids, Inactive, Polling, Report
  <2> QED
    BY <1>4, <2>1, <2>2, <2>3
    DEF IInv, addPlaneToAirspace, TypeOK, LocalsOK, MovesOK, ListenerOK,
        ReportsOK, TargetOK, BuffersOK, NewerOK, PictureOK, MainOK,
        ReportedStaysTracked, OneReportPerPlane, Announced, Buffers, Finished,
        FlightLocation, Flying, Ids, Inactive, Polling, Report
<1>5. CASE removePlaneFromAirspace
  (* The caller flies no more. *)
  <2>1. TargetOK' /\ ReportedStaysTracked'
    BY <1>5
    DEF IInv, removePlaneFromAirspace, ListenerOK, TargetOK,
        ReportedStaysTracked, Announced, Buffers, Flying, Ids
  <2> QED
    BY <1>5, <2>1
    DEF IInv, removePlaneFromAirspace, TypeOK, LocalsOK, MovesOK, ListenerOK,
        RegistrationOK, ReportsOK, BuffersOK, VisitedOK, NewerOK, PictureOK,
        MainOK, OneReportPerPlane, Announced, Buffers, Finished,
        FlightLocation, Flying, Ids, Inactive, Polling, Report
<1> QED
  BY <1>1, <1>2, <1>3, <1>4, <1>5 DEF ListenerStep

(* The steps of the poller's thread.                                       *)
LEMMA PollerInv ==
  ASSUME IInv, PollerStep
  PROVE  IInv'
<1>1. CASE PollerCheck
  BY <1>1
  DEF IInv, PollerCheck, TypeOK, LocalsOK, MovesOK, ListenerOK,
      RegistrationOK, ReportsOK, TargetOK, BuffersOK, VisitedOK, NewerOK,
      PictureOK, MainOK, ReportedStaysTracked, OneReportPerPlane, Announced,
      Buffers, Finished, FlightLocation, Flying, Ids, Inactive, Polling,
      Report
<1>2. CASE PollerWake
  (* An empty set: no aircraft of the picture flies. *)
  <2>1. PictureOK'
    BY <1>2
    DEF IInv, PollerWake, PictureOK, ReportedStaysTracked, Buffers, Flying,
        Ids, Polling
  <2> QED
    BY <1>2, <2>1
    DEF IInv, PollerWake, TypeOK, LocalsOK, MovesOK, ListenerOK,
        RegistrationOK, ReportsOK, TargetOK, BuffersOK, VisitedOK, NewerOK,
        MainOK, ReportedStaysTracked, OneReportPerPlane, Announced, Buffers,
        Finished, FlightLocation, Flying, Ids, Inactive, Polling, Report
<1>3. CASE CopyAirspace
  (* No aircraft is being polled. *)
  <2>1. TypeOK'
    BY <1>3
    DEF IInv, CopyAirspace, TypeOK, LocalsOK, FlightLocation, Inactive,
        Polling, Report
  (* The flying aircraft of the picture are all in the set. *)
  <2>2. PictureOK'
    BY <1>3
    DEF IInv, CopyAirspace, PictureOK, ReportedStaysTracked, Buffers, Flying,
        Ids, Inactive, Polling
  <2> QED
    BY <1>3, <2>1, <2>2
    DEF IInv, CopyAirspace, TypeOK, LocalsOK, MovesOK, ListenerOK,
        RegistrationOK, ReportsOK, TargetOK, BuffersOK, VisitedOK, NewerOK,
        MainOK, ReportedStaysTracked, OneReportPerPlane, Announced, Buffers,
        Finished, FlightLocation, Flying, Ids, Inactive, Polling, Report
<1>4. ASSUME NEW p \in Planes, SelectPlane(p)
      PROVE  IInv'
  (* An aircraft that is skipped is not registered. *)
  <2>1. VisitedOK'
    BY <1>4
    DEF IInv, SelectPlane, TypeOK, LocalsOK, VisitedOK, FlightLocation, Ids,
        Inactive, Polling, Report
  <2> QED
    BY <1>4, <2>1
    DEF IInv, SelectPlane, TypeOK, LocalsOK, MovesOK, ListenerOK,
        RegistrationOK, ReportsOK, TargetOK, BuffersOK, NewerOK, PictureOK,
        MainOK, ReportedStaysTracked, OneReportPerPlane, Announced, Buffers,
        Finished, FlightLocation, Flying, Ids, Inactive, Polling, Report
<1>5. CASE OpenPlane \/ SendFails
  BY <1>5
  DEF IInv, OpenPlane, SendFails, TypeOK, LocalsOK, MovesOK, ListenerOK,
      RegistrationOK, ReportsOK, TargetOK, BuffersOK, VisitedOK, NewerOK,
      PictureOK, MainOK, ReportedStaysTracked, OneReportPerPlane, Announced,
      Buffers, Finished, FlightLocation, Flying, Ids, Inactive, Polling,
      Reachable, Report
<1>6. ASSUME NEW p \in Planes, AnswerRadar(p)
      PROVE  IInv'
  (* It has moved at least once. *)
  <2>1. TypeOK'
    BY <1>6
    DEF IInv, AnswerRadar, TypeOK, MovesOK, FlightLocation, Flying, Inactive,
        Report
  (* Nothing of the aircraft still to be asked. *)
  <2>2. BuffersOK'
    BY <1>6
    DEF IInv, AnswerRadar, TypeOK, LocalsOK, BuffersOK, FlightLocation, Ids,
        Inactive, Polling, Report
  (* The target has now reported. *)
  <2>3. VisitedOK'
    <3>1. /\ Inactive \in 0..1
          /\ Inactive' = Inactive
          /\ planesInAirspaceData'[Inactive] =
                 planesInAirspaceData[Inactive] \cup {[id |-> p, at |-> moves[p]]}
      BY <1>6 DEF IInv, AnswerRadar, TypeOK, Inactive
    <3>2. Ids(planesInAirspaceData[Inactive] \cup {[id |-> p, at |-> moves[p]]}) =
              Ids(planesInAirspaceData[Inactive]) \cup {p}
      BY IdsAdd
    <3>3. Ids(planesInAirspaceData'[Inactive']) = Ids(planesInAirspaceData[Inactive]) \cup {p}
      BY <3>1, <3>2
    <3> QED
      BY <1>6, <3>3 DEF IInv, AnswerRadar, VisitedOK, Polling
  (* It has moved since its published report. *)
  <2>4. NewerOK'
    BY <1>6
    DEF IInv, AnswerRadar, ReportsOK, NewerOK, Buffers, Inactive
  (* The target is registered. *)
  <2>5. ReportedStaysTracked'
    BY <1>6
    DEF IInv, AnswerRadar, TargetOK, ReportedStaysTracked, Buffers, Flying,
        Ids, Inactive
  (* The target had no report in the inactive buffer. *)
  <2>6. OneReportPerPlane'
    BY <1>6
    DEF IInv, AnswerRadar, BuffersOK, OneReportPerPlane, Buffers, Ids,
        Inactive, Polling
  <2> QED
    BY <1>6, <2>1, <2>2, <2>3, <2>4, <2>5, <2>6
    DEF IInv, AnswerRadar, TypeOK, LocalsOK, MovesOK, ListenerOK,
        RegistrationOK, ReportsOK, TargetOK, PictureOK, MainOK, Announced,
        Buffers, Finished, FlightLocation, Flying, Ids, Inactive, Polling,
        Report
<1>7. CASE ErasePlane
  (* The target has not reported, or flies no more. *)
  <2>1. ReportedStaysTracked'
    BY <1>7
    DEF IInv, ErasePlane, TargetOK, ReportedStaysTracked, Buffers, Flying, Ids
  <2> QED
    BY <1>7, <2>1
    DEF IInv, ErasePlane, TypeOK, LocalsOK, MovesOK, ListenerOK,
        RegistrationOK, ReportsOK, TargetOK, BuffersOK, VisitedOK, NewerOK,
        PictureOK, MainOK, OneReportPerPlane, Announced, Buffers, Finished,
        FlightLocation, Flying, Ids, Inactive, Polling, Report
<1>8. CASE SwitchBuffer
  (* No aircraft is being polled. *)
  <2>1. TypeOK'
    BY <1>8
    DEF IInv, SwitchBuffer, TypeOK, LocalsOK, FlightLocation, Inactive,
        Polling, Report
  (* The copy has been visited. *)
  <2>2. PictureOK'
    BY <1>8
    DEF IInv, SwitchBuffer, TypeOK, LocalsOK, VisitedOK, PictureOK,
        ReportedStaysTracked, Buffers, FlightLocation, Flying, Ids, Inactive,
        Polling, Report
  <2>3. LocalsOK' /\ MovesOK' /\ ListenerOK' /\ RegistrationOK'
         /\ ReportsOK' /\ TargetOK' /\ BuffersOK' /\ VisitedOK' /\ NewerOK' /\ MainOK'
         /\ ReportedStaysTracked' /\ OneReportPerPlane'
    BY <1>8
    DEF IInv, SwitchBuffer, TypeOK, LocalsOK, MovesOK, ListenerOK,
        RegistrationOK, ReportsOK, TargetOK, BuffersOK, VisitedOK, NewerOK,
        MainOK, ReportedStaysTracked, OneReportPerPlane, Announced, Buffers,
        Finished, FlightLocation, Flying, Ids, Inactive, Polling, Report
  <2> QED
    BY <2>1, <2>2, <2>3 DEF IInv
<1>9. CASE writeToSharedMemory
  (* The other buffer is drained. *)
  <2>1. NewerOK'
    BY <1>9
    DEF IInv, writeToSharedMemory, TypeOK, BuffersOK, NewerOK, FlightLocation,
        Ids, Inactive, Polling, Report
  <2> QED
    BY <1>9, <2>1
    DEF IInv, writeToSharedMemory, TypeOK, LocalsOK, MovesOK, ListenerOK,
        RegistrationOK, ReportsOK, TargetOK, BuffersOK, VisitedOK, PictureOK,
        MainOK, ReportedStaysTracked, OneReportPerPlane, Announced, Buffers,
        Finished, FlightLocation, Flying, Ids, Inactive, Polling, Report
<1> QED
  BY <1>1, <1>2, <1>3, <1>4, <1>5, <1>6, <1>7, <1>8, <1>9 DEF PollerStep

(* The steps of the main thread.                                           *)
LEMMA MainInv ==
  ASSUME IInv, MainStep
  PROVE  IInv'
<1>1. CASE MainJoined
  BY <1>1
  DEF IInv, MainJoined, TypeOK, LocalsOK, MovesOK, ListenerOK, RegistrationOK,
      ReportsOK, TargetOK, BuffersOK, VisitedOK, NewerOK, PictureOK, MainOK,
      ReportedStaysTracked, OneReportPerPlane, Announced, Buffers, Finished,
      FlightLocation, Flying, Ids, Inactive, Polling, Report
<1>2. CASE MainDetach
  <2>1. TypeOK'
    <3>1. /\ UNCHANGED <<aircraftVars, planesInAirspace, listenerVars, pollerVars, sharedMem>>
          /\ UNCHANGED stopThreads
          /\ radarChannel' = FALSE /\ mainThread' = "joinThreads"
      BY <1>2 DEF MainDetach
    <3>2. TypeOK
      BY DEF IInv
    <3>3. radarChannel' \in BOOLEAN /\ stopThreads' \in BOOLEAN /\ wasAirspaceEmpty' \in BOOLEAN
      BY <3>1, <3>2 DEF TypeOK
    <3> QED
      BY <3>1, <3>2, <3>3 DEF TypeOK
  <2>2. LocalsOK' /\ MovesOK' /\ ListenerOK' /\ RegistrationOK'
         /\ ReportsOK' /\ TargetOK' /\ BuffersOK' /\ VisitedOK' /\ NewerOK' /\ PictureOK'
         /\ MainOK' /\ ReportedStaysTracked' /\ OneReportPerPlane'
    BY <1>2
    DEF IInv, MainDetach, TypeOK, LocalsOK, MovesOK, ListenerOK,
        RegistrationOK, ReportsOK, TargetOK, BuffersOK, VisitedOK, NewerOK,
        PictureOK, MainOK, ReportedStaysTracked, OneReportPerPlane, Announced,
        Buffers, Finished, FlightLocation, Flying, Ids, Inactive, Polling,
        Report
  <2> QED
    BY <2>1, <2>2 DEF IInv
<1>3. CASE clearSharedMemory
  BY <1>3
  DEF IInv, clearSharedMemory, TypeOK, LocalsOK, MovesOK, ListenerOK,
      RegistrationOK, ReportsOK, TargetOK, BuffersOK, VisitedOK, NewerOK,
      PictureOK, MainOK, ReportedStaysTracked, OneReportPerPlane, Announced,
      Buffers, Finished, FlightLocation, Flying, Ids, Inactive, Polling,
      Report
<1> QED
  BY <1>1, <1>2, <1>3 DEF MainStep

(* The initial state: no aircraft, no report.                              *)
LEMMA InitIInv ==
  ASSUME Init
  PROVE  IInv
<1>1. TypeOK
  <2>1. planesInAirspaceData \in [0..1 -> SUBSET Report] /\ sharedMem \subseteq Report
    BY DEF Init
  <2>2. flight \in [Planes -> FlightLocation] /\ moves \in [Planes -> 0..MaxMoves]
    BY DEF Init, FlightLocation
  <2>3. /\ planesInAirspace \subseteq Planes
        /\ planesToPoll \subseteq Planes
        /\ todo \subseteq planesToPoll
        /\ target \in planesToPoll \cup {NoPlane}
        /\ caller \in Planes \cup {NoPlane}
        /\ activeBufferIndex \in 0..1
    BY DEF Init
  <2>4. wasAirspaceEmpty \in BOOLEAN /\ radarChannel \in BOOLEAN /\ stopThreads \in BOOLEAN
    BY DEF Init
  <2>5. listener = "attach" /\ poller = "check" /\ mainThread = "joining"
    BY DEF Init
  <2> QED
    BY <2>1, <2>2, <2>3, <2>4, <2>5 DEF TypeOK
<1>2. /\ planesInAirspaceData[0] = {}
      /\ planesInAirspaceData[1] = {}
      /\ sharedMem = {}
      /\ Inactive = 1
  BY DEF Init, Inactive
<1>3. BuffersOK /\ NewerOK /\ PictureOK
  BY <1>2 DEF Init, BuffersOK, NewerOK, PictureOK, Ids, Polling
<1>4. ReportsOK /\ TargetOK /\ ReportedStaysTracked /\ OneReportPerPlane
  BY <1>2 DEF Init, ReportsOK, TargetOK, ReportedStaysTracked, OneReportPerPlane, Buffers, Ids
<1>5. LocalsOK /\ MovesOK /\ ListenerOK /\ RegistrationOK /\ VisitedOK /\ MainOK
  BY DEF Init, LocalsOK, MovesOK, ListenerOK, RegistrationOK, VisitedOK, MainOK, Polling, Flying,
      Announced
<1> QED
  BY <1>1, <1>3, <1>4, <1>5 DEF IInv

(* Every step of the process keeps the invariant.                          *)
LEMMA NextIInv ==
  ASSUME IInv, [Next]_vars
  PROVE  IInv'
<1>1. CASE \E p \in Planes : AircraftStep(p) \/ ServeOther(p)
  BY <1>1, AircraftInv
<1>2. CASE ListenerStep
  BY <1>2, ListenerInv
<1>3. CASE PollerStep
  BY <1>3, PollerInv
<1>4. CASE MainStep
  BY <1>4, MainInv
<1>5. CASE UNCHANGED vars
  BY <1>5
  DEF IInv, TypeOK, LocalsOK, MovesOK, ListenerOK, RegistrationOK, ReportsOK,
      TargetOK, BuffersOK, VisitedOK, NewerOK, PictureOK, MainOK,
      ReportedStaysTracked, OneReportPerPlane, Announced, Buffers, Finished,
      FlightLocation, Flying, Ids, Inactive, Polling, Report
<1> QED
  BY <1>1, <1>2, <1>3, <1>4, <1>5 DEF Next, Terminated

(* The inductive invariant holds throughout.                               *)
THEOREM InductiveInvariant == Spec => []IInv
<1>1. Init => IInv
  BY InitIInv
<1>2. IInv /\ [Next]_vars => IInv'
  BY NextIInv
<1> QED
  BY <1>1, <1>2, PTL DEF Spec

-----------------------------------------------------------------------------
(* Every variable keeps its type, whatever the threads' schedule.          *)
THEOREM TypeCorrect == Spec => []TypeOK
<1>1. IInv => TypeOK
  BY DEF IInv
<1> QED
  BY <1>1, InductiveInvariant, PTL

(* An aircraft that has answered the Radar stays registered while it       *)
(* flies: neither removePlaneFromAirspace nor the catch block of           *)
(* pollAirspace drops it.                                                  *)
THEOREM TrackingCorrect == Spec => []ReportedStaysTracked
<1>1. IInv => ReportedStaysTracked
  BY DEF IInv
<1> QED
  BY <1>1, InductiveInvariant, PTL

(* No buffer and no picture ever holds two reports of one aircraft.        *)
THEOREM OneReportCorrect == Spec => []OneReportPerPlane
<1>1. IInv => OneReportPerPlane
  BY DEF IInv
<1> QED
  BY <1>1, InductiveInvariant, PTL

(* A finished poll has a report of every aircraft of its copy that is      *)
(* still registered.                                                       *)
THEOREM PollComplete == Spec => []PollIsComplete
<1>1. IInv => PollIsComplete
  BY DEF IInv, LocalsOK, VisitedOK, RegistrationOK, TypeOK, PollIsComplete, Polling
<1> QED
  BY <1>1, InductiveInvariant, PTL

(* The write that announces an empty airspace announces an empty one.      *)
THEOREM EmptyWriteCorrect == Spec => []EmptyWriteIsEmpty
<1>1. IInv => EmptyWriteIsEmpty
  BY DEF IInv, BuffersOK, EmptyWriteIsEmpty
<1> QED
  BY <1>1, InductiveInvariant, PTL

(* While the loop takes the airspace for announced as empty, the picture   *)
(* is empty: it says so only in the write that finds the active buffer     *)
(* drained, and only a write with the flag cleared fills the picture.      *)
THEOREM NobodyLeftCorrect == Spec => []NobodyLeftBehind
<1>1. Init => NobodyLeftBehind
  BY DEF Init, NobodyLeftBehind
<1>2. ASSUME IInv, NobodyLeftBehind, [Next]_vars
      PROVE  NobodyLeftBehind'
  <2>1. CASE writeToSharedMemory
    <3>1. sharedMem' = planesInAirspaceData[activeBufferIndex]
          /\ (wasAirspaceEmpty' => poller = "writeEmpty")
      BY <2>1 DEF writeToSharedMemory
    <3>2. poller = "writeEmpty" => planesInAirspaceData[activeBufferIndex] = {}
      BY <1>2 DEF IInv, BuffersOK
    <3> QED
      BY <3>1, <3>2 DEF NobodyLeftBehind
  <2>2. CASE clearSharedMemory
    BY <2>2 DEF clearSharedMemory, NobodyLeftBehind
  <2>3. CASE /\ ~writeToSharedMemory /\ ~clearSharedMemory
    <3>1. UNCHANGED <<wasAirspaceEmpty, sharedMem>>
      BY <1>2, <2>3
      DEF Next, AircraftStep, Arrive, Attach, Move, Detach, ServeOther, ListenerStep,
          ListenerAttach, ListenerCheck, ListenerCall, ListenerUnblocked, addPlaneToAirspace,
          removePlaneFromAirspace, ReceiveEnter, ReceiveExit, PollerStep, PollerCheck,
          PollerWake, CopyAirspace, OpenPlane, SendFails, ErasePlane, SwitchBuffer,
          SelectPlane, AnswerRadar, MainStep, MainJoined, MainDetach, Terminated
    <3> QED
      BY <1>2, <3>1 DEF NobodyLeftBehind
  <2> QED
    BY <2>1, <2>2, <2>3
<1> QED
  BY <1>1, <1>2, InductiveInvariant, PTL DEF Spec

-----------------------------------------------------------------------------
(* Shared memory is written by two steps only.                             *)
LEMMA PictureWriters ==
  ASSUME [Next]_vars, sharedMem' # sharedMem
  PROVE  writeToSharedMemory \/ clearSharedMemory
<1>1. ASSUME NEW p \in Planes, AircraftStep(p) \/ ServeOther(p)
      PROVE  sharedMem' = sharedMem
  BY <1>1 DEF AircraftStep, Arrive, Attach, Move, Detach, ServeOther
<1>2. ASSUME ListenerStep
      PROVE  sharedMem' = sharedMem
  BY <1>2
  DEF ListenerStep, ListenerAttach, ListenerCheck, ListenerCall, ListenerUnblocked,
      addPlaneToAirspace, removePlaneFromAirspace, ReceiveEnter, ReceiveExit
<1>3. ASSUME PollerStep
      PROVE  sharedMem' = sharedMem \/ writeToSharedMemory
  BY <1>3
  DEF PollerStep, PollerCheck, PollerWake, CopyAirspace, OpenPlane, SendFails, ErasePlane,
      SwitchBuffer, SelectPlane, AnswerRadar
<1>4. ASSUME MainStep
      PROVE  sharedMem' = sharedMem \/ clearSharedMemory
  BY <1>4 DEF MainStep, MainJoined, MainDetach
<1> QED
  BY <1>1, <1>2, <1>3, <1>4 DEF Next, Terminated

(* From one picture to the next every aircraft in both has moved: a        *)
(* published report is never repeated or replaced by an older one.         *)
THEOREM ReportsAdvanceCorrect == Spec => ReportsAdvance
<1> DEFINE Advance == \A r \in sharedMem, s \in sharedMem' : r.id = s.id => s.at > r.at
<1>1. ASSUME IInv, [Next]_vars
      PROVE  [Advance]_sharedMem
  <2>1. CASE writeToSharedMemory
    BY <1>1, <2>1 DEF IInv, TypeOK, NewerOK, writeToSharedMemory
  <2>2. CASE clearSharedMemory
    BY <2>2 DEF clearSharedMemory
  <2> QED
    BY <1>1, <2>1, <2>2, PictureWriters
<1> QED
  BY <1>1, InductiveInvariant, PTL DEF Spec, ReportsAdvance

(* An aircraft that is missing from a picture after it was in the one      *)
(* before has left its update loop.                                        *)
THEOREM NoDropoutsCorrect == Spec => NoDropouts
<1> DEFINE Kept == \A p \in Ids(sharedMem) \ Ids(sharedMem') : ~Flying(p)
<1>1. ASSUME IInv, [Next]_vars
      PROVE  [Kept]_sharedMem
  <2>1. CASE writeToSharedMemory
    BY <1>1, <2>1 DEF IInv, PictureOK, writeToSharedMemory
  <2>2. CASE clearSharedMemory
    <3>1. \A p \in Ids(sharedMem) : p \in Planes
      BY <1>1 DEF IInv, TypeOK, Ids, Report
    <3> QED
      BY <1>1, <2>2, <3>1 DEF IInv, MainOK, clearSharedMemory, Finished, Flying
  <2> QED
    BY <1>1, <2>1, <2>2, PictureWriters
<1> QED
  BY <1>1, InductiveInvariant, PTL DEF Spec, NoDropouts

-----------------------------------------------------------------------------
(* The process is killed, if at all, after every aircraft thread has ended *)
(* and main has set stopThreads: no flight is cut short by the listener's  *)
(* use of Radar_channel after its check.                                   *)
THEOREM CrashCorrect == Spec => []CrashIsLate
<1>1. IInv => CrashIsLate
  BY DEF IInv, MainOK, CrashIsLate, Alive
<1> QED
  BY <1>1, InductiveInvariant, PTL

Airborne == {p \in Planes : Flying(p)}

(* The steps that an observer of flights and pictures does not see.        *)
LEMMA TrafficStutters ==
  ASSUME IInv, Airborne' = Airborne, moves' = moves, sharedMem' = sharedMem
  PROVE  UNCHANGED Traffic!vars
BY DEF Traffic!vars, Airborne

(* An aircraft appears in the airspace when it starts its update loop, and *)
(* flies on until a move takes it out; its other steps are not seen.       *)
LEMMA AircraftTraffic ==
  ASSUME IInv, NEW p \in Planes, AircraftStep(p) \/ ServeOther(p)
  PROVE  Traffic!Next \/ UNCHANGED Traffic!vars
<1> USE DEF IInv, Airborne, Flying
<1>1. flight \in [Planes -> FlightLocation] /\ moves \in [Planes -> 0..MaxMoves]
  BY DEF TypeOK
<1>2. CASE Arrive(p) \/ ServeOther(p) \/ Detach(p)
  <2>1. Airborne' = Airborne /\ moves' = moves /\ sharedMem' = sharedMem
    BY <1>1, <1>2 DEF Arrive, ServeOther, Detach
  <2> QED
    BY <2>1, TrafficStutters
<1>3. CASE Attach(p)
  <2>1. moves[p] = 0 /\ moves' = moves /\ sharedMem' = sharedMem /\ flight[p] = "entered"
    BY <1>3 DEF Attach, MovesOK
  <2>2. Airborne' = Airborne \/ (p \notin Airborne /\ Airborne' = Airborne \cup {p})
    BY <1>1, <1>3 DEF Attach
  <2> QED
    BY <2>1, <2>2, TrafficStutters DEF Traffic!Next, Traffic!Appear
<1>4. CASE Move(p)
  <2>1. p \in Airborne /\ sharedMem' = sharedMem /\ moves' = [moves EXCEPT ![p] = @ + 1]
    BY <1>4 DEF Move
  <2>2. Airborne' = Airborne \ {p} \/ (moves'[p] < MaxMoves /\ Airborne' = Airborne)
    <3>1. CASE AircraftGoes(p, "moving", "exiting")
      BY <1>1, <3>1
    <3>2. CASE moves[p] + 1 < MaxMoves /\ AircraftGoes(p, "moving", "receive")
      <4>1. moves'[p] < MaxMoves
        BY <1>1, <2>1, <3>2
      <4>2. Airborne' = Airborne
        BY <1>1, <3>2
      <4> QED
        BY <4>1, <4>2
    <3> QED
      BY <1>4, <3>1, <3>2 DEF Move
  <2> QED
    BY <2>1, <2>2 DEF Traffic!Next, Traffic!Fly
<1> QED
  BY <1>2, <1>3, <1>4 DEF AircraftStep

(* No step of the Radar's threads or of main is a flight's.                *)
LEMMA RadarTraffic ==
  ASSUME IInv, ListenerStep \/ PollerStep \/ MainStep
  PROVE  Airborne' = Airborne /\ moves' = moves
<1> USE DEF IInv, Airborne, Flying
<1>1. flight \in [Planes -> FlightLocation]
  BY DEF TypeOK
<1>2. CASE ListenerStep
  <2>1. CASE \E p \in Planes : ReceiveEnter(p) \/ ReceiveExit(p)
    BY <1>1, <2>1 DEF ReceiveEnter, ReceiveExit
  <2> QED
    BY <1>2, <2>1
    DEF ListenerStep, ListenerAttach, ListenerCheck, ListenerCall, ListenerUnblocked,
        addPlaneToAirspace, removePlaneFromAirspace
<1>3. CASE PollerStep
  <2>1. CASE \E p \in Planes : AnswerRadar(p)
    BY <1>1, <2>1 DEF AnswerRadar
  <2> QED
    BY <1>3, <2>1
    DEF PollerStep, PollerCheck, PollerWake, CopyAirspace, OpenPlane, SendFails, ErasePlane,
        SwitchBuffer, SelectPlane, writeToSharedMemory
<1>4. CASE MainStep
  BY <1>4 DEF MainStep, MainJoined, MainDetach, clearSharedMemory
<1> QED
  BY <1>2, <1>3, <1>4

(* A change of shared memory publishes a picture.                          *)
LEMMA PictureTraffic ==
  ASSUME IInv, IInv', [Next]_vars, sharedMem' # sharedMem,
         Airborne' = Airborne, moves' = moves
  PROVE  Traffic!Publish
<1>1. sharedMem' \in SUBSET Report /\ Report = Traffic!Report
  BY DEF IInv, TypeOK, Report, Traffic!Report
<1>2. \A r, s \in sharedMem' : r.id = s.id => r = s
  BY DEF IInv, OneReportPerPlane, Buffers
<1>3. \A r \in sharedMem' : r.at <= moves[r.id]
  BY DEF IInv, ReportsOK, Buffers
<1>4. CASE writeToSharedMemory
  <2>1. \A r \in sharedMem, s \in sharedMem' : r.id = s.id => s.at > r.at
    BY <1>4 DEF IInv, TypeOK, NewerOK, writeToSharedMemory
  <2>2. Ids(sharedMem) \cap Airborne \subseteq Ids(sharedMem')
    BY <1>4 DEF IInv, PictureOK, writeToSharedMemory, Airborne
  <2> QED
    BY <1>1, <1>2, <1>3, <2>1, <2>2
    DEF Traffic!Publish, Traffic!Ids, Traffic!Report, Ids, Airborne
<1>5. CASE clearSharedMemory
  <2>1. Airborne = {} /\ sharedMem' = {}
    BY <1>5 DEF IInv, MainOK, clearSharedMemory, Airborne, Finished, Flying
  <2> QED
    BY <1>1, <1>2, <1>3, <2>1 DEF Traffic!Publish, Traffic!Ids, Airborne
<1> QED
  BY <1>4, <1>5, PictureWriters

(* The Radar implements TrafficPicture: whatever its threads do, its       *)
(* readers see flights and pictures as that specification allows them.     *)
THEOREM PublishesTrafficCorrect == Spec => PublishesTraffic
<1>1. Init => Traffic!Init
  BY DEF Init, Traffic!Init, Flying
<1>2. ASSUME IInv, IInv', [Next]_vars
      PROVE  [Traffic!Next]_(Traffic!vars)
  <2>1. CASE \E p \in Planes : AircraftStep(p) \/ ServeOther(p)
    BY <1>2, <2>1, AircraftTraffic
  <2>2. CASE ListenerStep \/ PollerStep \/ MainStep
    BY <1>2, <2>2, RadarTraffic, PictureTraffic, TrafficStutters DEF Traffic!Next
  <2>3. CASE UNCHANGED vars
    BY <2>3 DEF Traffic!vars, Flying
  <2> QED
    BY <1>2, <2>1, <2>2, <2>3 DEF Next, Terminated
<1> QED
  BY <1>1, <1>2, InductiveInvariant, PTL DEF Spec, PublishesTraffic, Traffic!Spec

=============================================================================
