------------------------ MODULE SafeSeparationProofs ------------------------
(***************************************************************************)
(* A verdict of the separation check on reports is a verdict on the        *)
(* aircraft, for every airspace, every constraint and every sequence of    *)
(* commands: the proof carries the prediction of module OperatorCommands   *)
(* through the definitions of module CollisionCheck.                       *)
(***************************************************************************)
EXTENDS SafeSeparation, OperatorCommandsProofs

USE SeparationAssumption
USE DEF stateVars, counters, aircraftVars, consoleVars, clientVars, vars, Clients, Note

(* A report is not from the future.                                        *)
AgesOK == \A r \in Reports : r.at <= moves[r.plane]

(* A report is made with the moves of the moment, which only grow.         *)
LEMMA AgesStep ==
  ASSUME IInv, AgesOK, [Next]_vars
  PROVE  AgesOK'
<1>1. /\ TypeOK /\ moves \in [Planes -> Nat]
      /\ \A r \in Reports : r.plane \in Planes /\ r.at \in Nat
  BY DEF IInv, TypeOK, AircraftTypeOK, ClientTypeOK, Reports, Report
<1>2. ASSUME NEW p \in Planes, Move(p)
      PROVE  AgesOK'
  <2>1. Reports' = Reports /\ moves' = [moves EXCEPT ![p] = @ + 1]
    BY <1>2 DEF Move, Reports
  <2>2. \A q \in Planes : moves[q] <= moves'[q] /\ moves'[q] \in Nat
    BY <1>1, <2>1
  <2> QED
    BY <1>1, <2>1, <2>2 DEF AgesOK
<1>3. ASSUME NEW p \in Planes, NEW c \in Clients, Receive(p, c)
      PROVE  AgesOK'
  <2>1. moves' = moves /\ Reports' \subseteq Reports \cup {ReportOf(p)}
    BY <1>3, ReceiveEffect DEF Receive
  <2>2. ReportOf(p).plane = p /\ ReportOf(p).at = moves[p]
    BY <1>1, ReportType
  <2> QED
    BY <1>1, <2>1, <2>2 DEF AgesOK
<1>4. CASE Next /\ \A p \in Planes : ~Move(p) /\ \A c \in Clients : ~Receive(p, c)
  <2>1. UNCHANGED moves /\ Reports' \subseteq Reports
    BY <1>1, <1>4, AircraftUnchanged, ReportsKept
  <2> QED
    BY <2>1 DEF AgesOK
<1>5. CASE UNCHANGED vars
  BY <1>5 DEF AgesOK, Reports
<1> QED
  BY <1>2, <1>3, <1>4, <1>5

(* No report is ever from the future.                                      *)
LEMMA AgesInvariant == Spec => []AgesOK
<1>1. Init => AgesOK
  BY DEF Init, AgesOK, Reports
<1>2. IInv /\ AgesOK /\ [Next]_vars => AgesOK'
  BY AgesStep
<1> QED
  BY <1>1, <1>2, InductiveInvariant, PTL DEF Spec

-----------------------------------------------------------------------------
(* Where the aircraft of a current report is now, the check foretells.     *)
LEMMA Foretold ==
  ASSUME IInv, AgesOK, NEW r \in Reports, Current(r)
  PROVE  /\ pos[r.plane] = Check!future(Entry(r), Age(r))
         /\ pos[r.plane] \in Vector /\ Age(r) \in Nat
<1>1. /\ r.plane \in Planes /\ r.at \in Nat /\ moves[r.plane] \in Nat
      /\ r.pos \in Vector /\ r.speed \in Vector /\ pos[r.plane] \in Vector
  BY DEF IInv, TypeOK, AircraftTypeOK, ClientTypeOK, Reports, Report
<1>2. Age(r) \in Nat
  BY <1>1 DEF Age, AgesOK
<1>3. \A a \in Axes : pos[r.plane][a] = r.pos[a] + Age(r) * r.speed[a]
  BY DEF IInv, ReportsPredict, Predicts, Current, Age
<1>4. \A k, v \in Int : k * v = v * k
  OBVIOUS
<1>5. ASSUME NEW a \in Axes
      PROVE  pos[r.plane][a] = r.pos[a] + r.speed[a] * Age(r)
  <2>1. Age(r) * r.speed[a] = r.speed[a] * Age(r)
    BY <1>1, <1>2, <1>4 DEF Vector
  <2> QED
    BY <1>3, <2>1
<1>6. Check!future(Entry(r), Age(r)) = [a \in Axes |-> r.pos[a] + r.speed[a] * Age(r)]
  BY DEF Check!future, Entry
<1>7. pos[r.plane] = [a \in Axes |-> pos[r.plane][a]]
  BY <1>1 DEF Vector
<1> QED
  BY <1>1, <1>2, <1>5, <1>6, <1>7

(* Two aircraft are too close now exactly when the check would have found  *)
(* their reports in conflict at the second that is now.                    *)
LEMMA VerdictForetells ==
  ASSUME IInv, AgesOK, NEW r \in Reports, NEW s \in Reports,
         Current(r), Current(s), Age(r) = Age(s)
  PROVE  Check!tooClose(pos[r.plane], pos[s.plane])
             <=> Check!conflictAt(Entry(r), Entry(s), Age(r))
BY Foretold DEF Check!conflictAt

(* Equal velocities keep their distance.                                   *)
LEMMA DistanceKept ==
  ASSUME NEW p \in Vector, NEW q \in Vector, NEW v \in Vector, NEW k \in Nat,
         Check!conflictAt([Position |-> p, Velocity |-> v], [Position |-> q, Velocity |-> v], k)
  PROVE  Check!conflictAt([Position |-> p, Velocity |-> v], [Position |-> q, Velocity |-> v], 0)
<1> DEFINE P == [Position |-> p, Velocity |-> v]
           Q == [Position |-> q, Velocity |-> v]
<1>1. ASSUME NEW a \in Axes
      PROVE  Check!future(P, k)[a] - Check!future(Q, k)[a]
                 = Check!future(P, 0)[a] - Check!future(Q, 0)[a]
  <2>1. v[a] * k \in Int /\ v[a] * 0 = 0 /\ p[a] \in Int /\ q[a] \in Int
    BY DEF Vector
  <2>2. /\ Check!future(P, k)[a] = p[a] + v[a] * k /\ Check!future(Q, k)[a] = q[a] + v[a] * k
        /\ Check!future(P, 0)[a] = p[a] + v[a] * 0 /\ Check!future(Q, 0)[a] = q[a] + v[a] * 0
    BY DEF Check!future
  <2> QED
    BY <2>1, <2>2
<1> QED
  BY <1>1 DEF Check!conflictAt, Check!tooClose

-----------------------------------------------------------------------------
(* As long as neither obeys a command, two aircraft whose reports the      *)
(* check found clear keep their separation for as many moves as it looked  *)
(* ahead: poll, shared memory and check lose nothing of what the aircraft  *)
(* will do.                                                                *)
THEOREM ClearIsSafeCorrect == Spec => []ClearIsSafe
<1>1. IInv /\ AgesOK => ClearIsSafe
  <2> SUFFICES ASSUME IInv, AgesOK, NEW r \in Reports, NEW s \in Reports,
                      Current(r), Current(s), Age(r) = Age(s), Age(r) <= TimeConstraint,
                      Check!sameVelocity(Entry(r), Entry(s)) => r.speed = s.speed,
                      Check!tooClose(pos[r.plane], pos[s.plane])
               PROVE  Check!checkAxes(Entry(r), Entry(s), TimeConstraint)
    BY DEF ClearIsSafe
  <2>1. Age(r) \in 0..TimeConstraint
    BY Foretold
  <2>2. Check!conflictAt(Entry(r), Entry(s), Age(r))
    BY VerdictForetells
  <2>3. CASE ~Check!sameVelocity(Entry(r), Entry(s))
    BY <2>1, <2>2, <2>3 DEF Check!checkAxes
  <2>4. CASE Check!sameVelocity(Entry(r), Entry(s))
    <3>1. r.pos \in Vector /\ s.pos \in Vector /\ s.speed \in Vector /\ r.speed = s.speed
      BY <2>4 DEF IInv, TypeOK, ClientTypeOK, Reports, Report
    <3>2. Check!conflictAt(Entry(r), Entry(s), 0)
      BY <2>1, <2>2, <3>1, DistanceKept DEF Entry
    <3> QED
      BY <2>4, <3>2 DEF Check!checkAxes
  <2> QED
    BY <2>3, <2>4
<1> QED
  BY <1>1, InductiveInvariant, AgesInvariant, PTL

=============================================================================
