------------------------ MODULE CollisionAlertProofs ------------------------
(***************************************************************************)
(* The alerts of module CollisionAlert are sound and reach the screen in   *)
(* order, for all snapshots, constraints and commands of the operator.     *)
(***************************************************************************)
EXTENDS CollisionAlert, CollisionCheckProofs, FiniteSetTheorems, FunctionTheorems

(* A pair of positions p in the snapshot, by the aircraft's IDs.           *)
Ids(planes, p) == <<planes[p[1]].id, planes[p[2]].id>>

(* The pairs that checkCollision has come past.                            *)
Before(p) == p[1] < i \/ (p[1] = i /\ p[2] < j)

(* The snapshot being checked, and where the check is in it.               *)
CheckPlace ==
    /\ alert.planes # <<>>
    /\ j > Len(alert.planes) => i >= Len(alert.planes)

(* Every constraint in use is between the recorded ones.                   *)
CheckBounds ==
    /\ alert.lowest <= bound /\ bound <= alert.highest
    /\ alert.lowest <= timeConstraintCollisionFreq
    /\ timeConstraintCollisionFreq <= alert.highest

(* The pairs before the current one have been judged.                      *)
CheckDone ==
    /\ \A p \in PairsOf(alert.planes) :
           Before(p) /\ inConflict(alert.planes, p, alert.lowest)
               => Ids(alert.planes, p) \in alert.pairs
    /\ alert.pairs \subseteq collisionPairs(alert.planes, alert.highest)

(* The current pair is not in conflict in the seconds before t.            *)
CheckSeconds ==
    j <= Len(alert.planes) =>
        \A s \in Nat :
            s < t => ~conflictAt(alert.planes[i].plane, alert.planes[j].plane, s)

CheckInv == monitor = "check" => CheckPlace /\ CheckBounds /\ CheckDone /\ CheckSeconds

(* The snapshots on the way to the screen, newest first.                   *)
OrderInv ==
    /\ alert.of <= written
    /\ received.of <= alert.of
    /\ warnings.of <= received.of
    /\ screen.warnings.of <= warnings.of
    /\ displayed <= written
    /\ screen.snapshot <= displayed
    /\ listener # "update" => received = warnings

IInv == TypeOK /\ CheckInv /\ OrderInv /\ AlertsAreSound /\ SmallAlertsFit

-----------------------------------------------------------------------------
USE AlertAssumption
USE DEF pairVars, monitorVars, operatorVars, consoleVars, listenerVars, displayVars,
        computerVars, airVars, vars, beyondComputer, beyondMonitor, beyondThreads,
        beyondListener, MonitorGoes, OperatorGoes, ConsoleGoes, CommsGoes, MainGoes,
        ListenerGoes, DisplayGoes, FirstPartner, Within, ConflictAt, AfterCheck, AfterReply

(* What an entry of a snapshot is.                                         *)
LEMMA PlanesType ==
  ASSUME NEW planes \in Pictures \cup {<<>>}
  PROVE  /\ planes \in Seq([id : Int, plane : Plane])
         /\ Len(planes) \in Nat
         /\ \A k \in 1..Len(planes) : planes[k].id \in Int /\ planes[k].plane \in Plane
<1>1. planes \in Seq([id : Int, plane : Plane])
  <2>1. CASE planes \in Pictures
    BY <2>1
  <2>2. CASE planes = <<>>
    BY <2>2
  <2> QED
    BY <2>1, <2>2
<1>2. ASSUME NEW S, NEW q \in Seq(S)
      PROVE  Len(q) \in Nat /\ \A k \in 1..Len(q) : q[k] \in S
  OBVIOUS
<1>3. Len(planes) \in Nat /\ \A k \in 1..Len(planes) : planes[k] \in [id : Int, plane : Plane]
  BY <1>1, <1>2
<1> QED
  BY <1>1, <1>3

(* A pair in conflict stays so under a higher constraint.                  *)
LEMMA ConflictMonotone ==
  ASSUME NEW planes \in Pictures \cup {<<>>}, NEW p \in PairsOf(planes),
         NEW T \in Int, NEW U \in Int, T <= U, inConflict(planes, p, T)
  PROVE  inConflict(planes, p, U)
<1>1. p[1] \in 1..Len(planes) /\ p[2] \in 1..Len(planes)
  BY DEF PairsOf
<1>2. planes[p[1]].plane \in Plane /\ planes[p[2]].plane \in Plane
  BY <1>1, PlanesType
<1> QED
  BY <1>2, CheckMonotone DEF inConflict

(* The same for all pairs of a snapshot.                                   *)
LEMMA PairsMonotone ==
  ASSUME NEW planes \in Pictures \cup {<<>>}, NEW T \in Int, NEW U \in Int, T <= U
  PROVE  collisionPairs(planes, T) \subseteq collisionPairs(planes, U)
BY ConflictMonotone DEF collisionPairs

(* Among n places there are at most n(n-1)/2 pairs: the pairs, the same    *)
(* pairs turned round and the n places paired with themselves are disjoint *)
(* parts of the square of the places.                                      *)
LEMMA PairCount ==
  ASSUME NEW n \in Nat, NEW P, P = {x \in (1..n) \X (1..n) : x[1] < x[2]}
  PROVE  /\ IsFiniteSet(P) /\ Cardinality(P) \in Nat
         /\ 2 * Cardinality(P) <= n * (n - 1)
<1> DEFINE Places == 1..n
           Square == Places \X Places
           Q == {x \in Square : x[2] < x[1]}
           D == {x \in Square : x[1] = x[2]}
<1>1. IsFiniteSet(Places) /\ Cardinality(Places) = n
  BY FS_Interval
<1>2. IsFiniteSet(Square) /\ Cardinality(Square) = n * n
  BY <1>1, FS_Product
<1>3. P \in SUBSET Square /\ Q \in SUBSET Square /\ D \in SUBSET Square
  OBVIOUS
<1>4. /\ IsFiniteSet(P) /\ IsFiniteSet(Q) /\ IsFiniteSet(D)
      /\ Cardinality(P) \in Nat /\ Cardinality(Q) \in Nat /\ Cardinality(D) \in Nat
  BY <1>2, <1>3, FS_Subset, FS_CardinalityType
<1>5. Cardinality(Q) = Cardinality(P)
  <2> DEFINE turned == [x \in P |-> <<x[2], x[1]>>]
  <2>1. turned \in [P -> Q]
    OBVIOUS
  <2>2. \A x, y \in P : turned[x] = turned[y] => x = y
    OBVIOUS
  <2>3. ASSUME NEW y \in Q
        PROVE  \E x \in P : turned[x] = y
    <3>1. <<y[2], y[1]>> \in P
      OBVIOUS
    <3>2. turned[<<y[2], y[1]>>] = y
      BY <3>1
    <3> QED
      BY <3>1, <3>2
  <2> HIDE DEF turned, Q
  <2>4. turned \in Bijection(P, Q)
    BY <2>1, <2>2, <2>3, Fun_IsBij
  <2>5. ExistsBijection(P, Q)
    BY <2>4, Fun_ExistsBij
  <2> QED
    BY <1>4, <2>5, FS_Bijection
<1>6. Cardinality(D) = n
  <2> DEFINE twice == [k \in Places |-> <<k, k>>]
  <2>1. twice \in [Places -> D]
    OBVIOUS
  <2>2. \A k, m \in Places : twice[k] = twice[m] => k = m
    OBVIOUS
  <2>3. \A x \in D : \E k \in Places : twice[k] = x
    OBVIOUS
  <2> HIDE DEF twice, D
  <2>4. twice \in Bijection(Places, D)
    BY <2>1, <2>2, <2>3, Fun_IsBij
  <2>5. ExistsBijection(Places, D)
    BY <2>4, Fun_ExistsBij
  <2> QED
    BY <1>1, <2>5, FS_Bijection
<1>7. P \cap Q = {} /\ (P \cup Q) \cap D = {}
  <2>1. \A x \in Square : x[1] \in Int /\ x[2] \in Int
    OBVIOUS
  <2>2. \A x \in P : x \in Square /\ x[1] < x[2]
    OBVIOUS
  <2> HIDE DEF Square
  <2>3. \A x \in P : x \notin Q /\ x \notin D
    BY <2>1, <2>2
  <2>4. \A x \in Q : x \notin D
    BY <2>1
  <2> QED
    BY <2>3, <2>4
<1>8. (P \cup Q) \cup D \in SUBSET Square
  BY <1>3
<1> HIDE DEF Q, D, Square, Places
<1>9. IsFiniteSet(P \cup Q) /\ Cardinality(P \cup Q) = 2 * Cardinality(P)
  <2>1. Cardinality(P \cap Q) = 0
    BY <1>7, FS_EmptySet
  <2>2. /\ IsFiniteSet(P \cup Q)
        /\ Cardinality(P \cup Q) = Cardinality(P) + Cardinality(Q) - Cardinality(P \cap Q)
    BY <1>4, FS_Union
  <2> QED
    BY <1>4, <1>5, <2>1, <2>2
<1>10. Cardinality((P \cup Q) \cup D) = 2 * Cardinality(P) + n
  <2>1. Cardinality((P \cup Q) \cap D) = 0
    BY <1>7, FS_EmptySet
  <2>2. Cardinality((P \cup Q) \cup D)
            = Cardinality(P \cup Q) + Cardinality(D) - Cardinality((P \cup Q) \cap D)
    BY <1>4, <1>9, FS_Union
  <2> QED
    BY <1>4, <1>6, <1>9, <2>1, <2>2
<1>11. 2 * Cardinality(P) + n <= n * n
  BY <1>2, <1>8, <1>10, FS_Subset
<1>12. n * (n - 1) = n * n - n
  OBVIOUS
<1> QED
  BY <1>4, <1>11, <1>12

(* So has a set of conflicting pairs, at most.                             *)
LEMMA PairsBounded ==
  ASSUME NEW planes, Len(planes) \in Nat, NEW T, NEW pairs,
         pairs \subseteq collisionPairs(planes, T)
  PROVE  /\ IsFiniteSet(pairs) /\ Cardinality(pairs) \in Nat
         /\ 2 * Cardinality(pairs) <= Len(planes) * (Len(planes) - 1)
<1> DEFINE X == {x \in PairsOf(planes) : inConflict(planes, x, T)}
           Y == collisionPairs(planes, T)
           names == [x \in X |-> Ids(planes, x)]
<1>1. /\ IsFiniteSet(X) /\ Cardinality(X) \in Nat
      /\ Cardinality(X) <= Cardinality(PairsOf(planes))
      /\ Cardinality(PairsOf(planes)) \in Nat
  BY PairCount, FS_Subset, FS_CardinalityType DEF PairsOf
<1>2. names \in Surjection(X, Y)
  <2>1. Y = {Ids(planes, x) : x \in X}
    BY DEF collisionPairs, Ids
  <2> HIDE DEF X, Y
  <2>2. names \in [X -> Y]
    BY <2>1
  <2>3. \A y \in Y : \E x \in X : names[x] = y
    BY <2>1
  <2> QED
    BY <2>2, <2>3, Fun_IsSurj
<1>3. IsFiniteSet(Y) /\ Cardinality(Y) <= Cardinality(X) /\ Cardinality(Y) \in Nat
  BY <1>1, <1>2, FS_Surjection, FS_CardinalityType
<1>4. /\ IsFiniteSet(pairs) /\ Cardinality(pairs) <= Cardinality(Y)
      /\ Cardinality(pairs) \in Nat
  BY <1>3, FS_Subset, FS_CardinalityType
<1> HIDE DEF X, Y
<1>5. Cardinality(pairs) <= Cardinality(PairsOf(planes))
  BY <1>1, <1>3, <1>4
<1> QED
  BY <1>1, <1>4, <1>5, PairCount DEF PairsOf

(* A verdict that is right keeps the invariant of the check.               *)
LEMMA VerdictInv ==
  ASSUME TypeOK, monitor = "check", monitor' = "check", CheckInv,
         j <= Len(alert.planes),
         NEW c \in BOOLEAN, Verdict(c),
         inConflict(alert.planes, <<i, j>>, alert.lowest) => c,
         c => inConflict(alert.planes, <<i, j>>, alert.highest),
         alert.lowest <= bound', bound' <= alert.highest,
         timeConstraintCollisionFreq' = timeConstraintCollisionFreq
  PROVE  CheckInv'
<1>1. /\ alert \in Alert /\ i \in Nat \ {0} /\ j \in Nat /\ i < j
      /\ CheckPlace /\ CheckBounds /\ CheckDone
  BY DEF TypeOK, MonitorTypeOK, OperatorTypeOK, DisplayTypeOK, CheckInv
<1>2. /\ alert'.planes = alert.planes
      /\ alert'.lowest = alert.lowest
      /\ alert'.highest = alert.highest
      /\ alert'.pairs = IF c THEN alert.pairs \cup {Ids(alert.planes, <<i, j>>)}
                             ELSE alert.pairs
  BY <1>1 DEF Verdict, Alert, Ids
<1>3. Len(alert.planes) \in Nat
  BY <1>1, PlanesType DEF Alert
<1>4. CheckPlace'
  BY <1>1, <1>2, <1>3 DEF CheckPlace, Verdict
<1>5. CheckBounds'
  BY <1>1, <1>2 DEF CheckBounds
<1>6. CheckSeconds'
  <2>1. t' = 0
    BY DEF Verdict
  <2> QED
    BY <2>1 DEF CheckSeconds
<1>7. <<i, j>> \in PairsOf(alert.planes)
  BY <1>1, <1>3 DEF PairsOf
<1>8. \A p \in PairsOf(alert.planes) : Before(p)' => Before(p) \/ p = <<i, j>>
  BY <1>1, <1>3 DEF Before, Verdict, PairsOf
<1>9. CheckDone'
  <2>1. ASSUME NEW p \in PairsOf(alert.planes), Before(p)',
               inConflict(alert.planes, p, alert.lowest)
        PROVE  Ids(alert.planes, p) \in alert'.pairs
    BY <1>1, <1>2, <1>8, <2>1 DEF CheckDone
  <2>2. c => Ids(alert.planes, <<i, j>>) \in collisionPairs(alert.planes, alert.highest)
    BY <1>7 DEF collisionPairs, Ids
  <2>3. alert'.pairs \subseteq collisionPairs(alert.planes, alert.highest)
    BY <1>1, <1>2, <2>2 DEF CheckDone
  <2> QED
    BY <1>2, <2>1, <2>3 DEF CheckDone
<1> QED
  BY <1>4, <1>5, <1>6, <1>9 DEF CheckInv

(* Nothing the check depends on changes.                                   *)
LEMMA CheckFrame ==
  ASSUME CheckInv,
         monitor' = monitor \/ monitor' # "check",
         UNCHANGED <<alert, i, j, t, bound, timeConstraintCollisionFreq>>
  PROVE  CheckInv'
BY DEF CheckInv, CheckPlace, CheckBounds, CheckDone, CheckSeconds, Before

(* A new check starts with no pair judged.                                 *)
LEMMA ReadCheck ==
  ASSUME TypeOK, CheckInv, ReadSnapshot
  PROVE  CheckInv'
<1>1. CASE monitor' # "check"
  BY <1>1 DEF CheckInv
<1>2. CASE monitor' = "check"
  <2>1. /\ picture # <<>> /\ picture \in Pictures
        /\ alert'.planes = picture /\ alert'.pairs = {}
        /\ alert'.lowest = timeConstraintCollisionFreq
        /\ alert'.highest = timeConstraintCollisionFreq
        /\ i' = 1 /\ j' = 2 /\ t' = 0
        /\ bound' = timeConstraintCollisionFreq
        /\ timeConstraintCollisionFreq' = timeConstraintCollisionFreq
        /\ timeConstraintCollisionFreq \in Int
    BY <1>2 DEF ReadSnapshot, TypeOK, MonitorTypeOK, DisplayTypeOK
  <2>2. Len(picture) \in Nat
    BY <2>1, PlanesType
  <2>3. CheckPlace'
    BY <2>1, <2>2 DEF CheckPlace
  <2>4. CheckBounds'
    BY <2>1 DEF CheckBounds
  <2>5. \A p \in PairsOf(picture) : ~Before(p)'
    BY <2>1, <2>2 DEF Before, PairsOf
  <2>6. CheckDone'
    BY <2>1, <2>5 DEF CheckDone
  <2>7. CheckSeconds'
    BY <2>1 DEF CheckSeconds
  <2> QED
    BY <2>3, <2>4, <2>6, <2>7 DEF CheckInv
<1> QED
  BY <1>1, <1>2

(* A pair of the same velocity is judged at time 0.                        *)
LEMMA NowCheck ==
  ASSUME TypeOK, CheckInv, CheckNow
  PROVE  CheckInv'
<1> DEFINE c == conflictAt(alert.planes[i].plane, alert.planes[j].plane, 0)
<1>1. \A T : inConflict(alert.planes, <<i, j>>, T) <=> c
  BY DEF CheckNow, inConflict, checkAxes
<1>2. c \in BOOLEAN
  BY DEF conflictAt, tooClose
<1>3. /\ Verdict(c) /\ monitor = "check" /\ monitor' = "check" /\ j <= Len(alert.planes)
      /\ bound' = bound /\ timeConstraintCollisionFreq' = timeConstraintCollisionFreq
  BY DEF CheckNow
<1>4. alert.lowest <= bound' /\ bound' <= alert.highest
  BY <1>3 DEF CheckInv, CheckBounds
<1> HIDE DEF c
<1> QED
  BY <1>1, <1>2, <1>3, <1>4, VerdictInv

(* One second of a pair: beyond every constraint in use it is judged safe, *)
(* and in conflict only within one of them.                                *)
LEMMA SecondCheck ==
  ASSUME TypeOK, CheckInv, CheckSecond
  PROVE  CheckInv'
<1> DEFINE p == alert.planes[i].plane
           q == alert.planes[j].plane
<1>1. /\ alert \in Alert /\ t \in Nat /\ bound \in Int /\ timeConstraintCollisionFreq \in Int
      /\ alert.lowest \in Int /\ alert.highest \in Int
      /\ CheckPlace /\ CheckBounds /\ CheckDone /\ CheckSeconds
  BY DEF TypeOK, MonitorTypeOK, OperatorTypeOK, DisplayTypeOK, CheckInv, CheckSecond, Alert
<1>2. PICK constraint \in {bound, timeConstraintCollisionFreq} :
          /\ bound' = constraint
          /\ \/ t > constraint /\ Verdict(FALSE)
             \/ t <= constraint /\ conflictAt(p, q, t) /\ Verdict(TRUE)
             \/ /\ t <= constraint /\ ~conflictAt(p, q, t)
                /\ t' = t + 1
                /\ UNCHANGED <<alert, i, j>>
  <2>1. bound' \in {bound, timeConstraintCollisionFreq} /\ bound' \in Int
    BY <1>1 DEF CheckSecond
  <2>2. /\ ~(t <= bound') <=> t > bound'
        /\ ConflictAt(t) <=> conflictAt(p, q, t)
    BY <1>1, <2>1 DEF ConflictAt
  <2>3. \/ ~(t <= bound') /\ Verdict(FALSE)
        \/ t <= bound' /\ ConflictAt(t) /\ Verdict(TRUE)
        \/ t <= bound' /\ ~ConflictAt(t) /\ t' = t + 1 /\ UNCHANGED <<alert, i, j>>
    BY DEF CheckSecond, Within
  <2> QED
    BY <2>1, <2>2, <2>3
<1>3. /\ monitor = "check" /\ monitor' = "check" /\ j <= Len(alert.planes)
      /\ timeConstraintCollisionFreq' = timeConstraintCollisionFreq
      /\ ~sameVelocity(p, q)
  BY DEF CheckSecond
<1>4. alert.lowest <= constraint /\ constraint <= alert.highest /\ constraint \in Int
  BY <1>1, <1>2 DEF CheckBounds
<1>5. \A T : inConflict(alert.planes, <<i, j>>, T) <=> \E s \in 0..T : conflictAt(p, q, s)
  BY <1>3 DEF inConflict, checkAxes
<1>6. \A s \in Nat : s < t => ~conflictAt(p, q, s)
  BY <1>1, <1>3 DEF CheckSeconds
<1> HIDE DEF p, q
<1>7. CASE t > constraint /\ Verdict(FALSE)
  <2>1. ~inConflict(alert.planes, <<i, j>>, alert.lowest)
    BY <1>1, <1>4, <1>5, <1>6, <1>7
  <2> QED
    BY <1>2, <1>3, <1>4, <1>7, <2>1, VerdictInv
<1>8. CASE t <= constraint /\ conflictAt(p, q, t) /\ Verdict(TRUE)
  <2>1. inConflict(alert.planes, <<i, j>>, alert.highest)
    BY <1>1, <1>4, <1>5, <1>8
  <2> QED
    BY <1>2, <1>3, <1>4, <1>8, <2>1, VerdictInv
<1>9. CASE ~conflictAt(p, q, t) /\ t' = t + 1 /\ UNCHANGED <<alert, i, j>>
  <2>1. CheckPlace' /\ CheckDone'
    BY <1>1, <1>9 DEF CheckPlace, CheckDone, Before
  <2>2. CheckBounds'
    BY <1>1, <1>2, <1>3, <1>4, <1>9 DEF CheckBounds
  <2>3. \A s \in Nat : s < t' => s < t \/ s = t
    BY <1>1, <1>9
  <2>4. CheckSeconds'
    BY <1>6, <1>9, <2>3 DEF CheckSeconds, p, q
  <2> QED
    BY <2>1, <2>2, <2>4 DEF CheckInv
<1> QED
  BY <1>2, <1>7, <1>8, <1>9

(* When the pairs are exhausted the alert is sound.                        *)
LEMMA FillCheck ==
  ASSUME TypeOK, CheckInv, FillMessage
  PROVE  Sound(alert) /\ alert' = alert
<1>1. /\ alert \in Alert /\ i \in Nat \ {0} /\ j \in Nat
      /\ CheckPlace /\ CheckDone /\ j > Len(alert.planes)
  BY DEF TypeOK, MonitorTypeOK, OperatorTypeOK, DisplayTypeOK, CheckInv, FillMessage
<1>2. Len(alert.planes) \in Nat
  BY <1>1, PlanesType DEF Alert
<1>3. \A p \in PairsOf(alert.planes) : Before(p)
  BY <1>1, <1>2 DEF PairsOf, CheckPlace, Before
<1>4. collisionPairs(alert.planes, alert.lowest) \subseteq alert.pairs
  BY <1>1, <1>3 DEF collisionPairs, CheckDone, Ids
<1> QED
  BY <1>1, <1>4 DEF Sound, CheckDone, FillMessage

(* A new constraint widens the recorded range, which keeps an alert sound  *)
(* so far.                                                                 *)
LEMMA HandleCheck ==
  ASSUME TypeOK, CheckInv, OperatorHandle
  PROVE  CheckInv'
<1>1. CASE monitor # "check"
  BY <1>1 DEF CheckInv, OperatorHandle
<1>2. CASE monitor = "check"
  <2>1. /\ alert \in Alert /\ operatorMsg \in Int
        /\ bound \in Int /\ timeConstraintCollisionFreq \in Int
        /\ alert.planes \in Pictures \cup {<<>>}
        /\ alert.lowest \in Int /\ alert.highest \in Int
        /\ CheckPlace /\ CheckBounds /\ CheckDone /\ CheckSeconds
    BY <1>2 DEF TypeOK, MonitorTypeOK, OperatorTypeOK, DisplayTypeOK, CheckInv, Alert
  <2>2. /\ alert'.planes = alert.planes /\ alert'.pairs = alert.pairs
        /\ alert'.lowest = Lesser(alert.lowest, operatorMsg)
        /\ alert'.highest = Greater(alert.highest, operatorMsg)
    BY <1>2, <2>1 DEF OperatorHandle, Alert
  <2>3. /\ UNCHANGED <<monitor, i, j, t, bound>>
        /\ timeConstraintCollisionFreq' = operatorMsg
    BY DEF OperatorHandle
  <2>4. /\ alert'.lowest \in Int /\ alert'.lowest <= alert.lowest
        /\ alert'.lowest <= operatorMsg
        /\ alert'.highest \in Int /\ alert.highest <= alert'.highest
        /\ operatorMsg <= alert'.highest
    BY <2>1, <2>2 DEF Lesser, Greater
  <2>5. CheckPlace' /\ CheckSeconds'
    BY <2>1, <2>2, <2>3 DEF CheckPlace, CheckSeconds
  <2>6. CheckBounds'
    BY <2>1, <2>3, <2>4 DEF CheckBounds
  <2>7. \A p \in PairsOf(alert.planes) :
            inConflict(alert.planes, p, alert'.lowest) => inConflict(alert.planes, p, alert.lowest)
    BY <2>1, <2>4, ConflictMonotone
  <2>8. collisionPairs(alert.planes, alert.highest)
            \subseteq collisionPairs(alert.planes, alert'.highest)
    BY <2>1, <2>4, PairsMonotone
  <2>9. CheckDone'
    BY <2>1, <2>2, <2>3, <2>7, <2>8 DEF CheckDone, Before
  <2> QED
    BY <2>5, <2>6, <2>9 DEF CheckInv
<1> QED
  BY <1>1, <1>2

-----------------------------------------------------------------------------
(* The inductive invariant.                                                *)

(* What an action makes of an alert is an alert.                           *)
LEMMA AlertType ==
  /\ NoAlert \in Alert
  /\ \A a \in Alert, p \in Int \X Int : [a EXCEPT !.pairs = @ \cup {p}] \in Alert
  /\ \A a \in Alert, m \in Int, n \in Int : [a EXCEPT !.lowest = m, !.highest = n] \in Alert
<1>1. NoAlert \in Alert
  BY DEF NoAlert, Alert
<1>2. ASSUME NEW a \in Alert, NEW p \in Int \X Int
      PROVE  [a EXCEPT !.pairs = @ \cup {p}] \in Alert
  BY DEF Alert
<1>3. ASSUME NEW a \in Alert, NEW m \in Int, NEW n \in Int
      PROVE  [a EXCEPT !.lowest = m, !.highest = n] \in Alert
  BY DEF Alert
<1> QED
  BY <1>1, <1>2, <1>3

(* A verdict keeps the types of the alert and of the pair.                 *)
LEMMA VerdictType ==
  ASSUME TypeOK, j <= Len(alert.planes), NEW c, Verdict(c)
  PROVE  /\ alert' \in Alert
         /\ i' \in Nat \ {0} /\ j' \in Nat /\ i' < j' /\ t' \in Nat
<1>1. /\ alert \in Alert /\ alert.planes \in Pictures \cup {<<>>}
      /\ i \in Nat \ {0} /\ j \in Nat /\ i < j
  BY DEF TypeOK, MonitorTypeOK, OperatorTypeOK, DisplayTypeOK, Alert
<1>2. <<alert.planes[i].id, alert.planes[j].id>> \in Int \X Int
  <2>1. Len(alert.planes) \in Nat
    BY <1>1, PlanesType
  <2>2. i \in 1..Len(alert.planes) /\ j \in 1..Len(alert.planes)
    BY <1>1, <2>1
  <2> QED
    BY <1>1, <2>2, PlanesType
<1>3. alert' \in Alert
  BY <1>1, <1>2, AlertType DEF Verdict
<1> QED
  BY <1>1, <1>3 DEF Verdict

(* Every step keeps the types of the monitor's variables.                  *)
LEMMA MonitorTypes ==
  ASSUME TypeOK, Next
  PROVE  MonitorTypeOK'
<1> USE DEF TypeOK, MonitorTypeOK
<1>1. CASE WriteSnapshot \/ CommsStep \/ ConsoleStep \/ MainStep \/ DisplayStep
  <2>1. UNCHANGED <<monitorVars, timeConstraintCollisionFreq>>
    BY <1>1
    DEF WriteSnapshot, CommsStep, CommsReply, CommsForward, ConsoleStep, TypeConstraint,
        TypeRelay, TypeExit, MainStep, JoinMonitor, JoinOperator, JoinConsole, DisplayStep,
        DisplaySeesData, DisplayRead, Render
  <2> QED
    BY <2>1
<1>2. CASE MonitorSeesData \/ FillMessage \/ OpenDisplay \/ SendFails \/ CloseDisplay
           \/ MonitorTimer \/ ListenerStep \/ OperatorReply
  <2>1. UNCHANGED <<alert, i, j, t, bound, timeConstraintCollisionFreq>>
    BY <1>2
    DEF MonitorSeesData, FillMessage, OpenDisplay, SendFails, CloseDisplay, MonitorTimer,
        OperatorReply, ListenerStep, ListenerAttach, ListenerLoop, ListenerPulse, ListenerReply,
        ListenerUpdate
  <2>2. monitor' \in {monitor, "read", "overrun", "open", "sending", "wait", "close"}
    BY <1>2
    DEF MonitorSeesData, FillMessage, OpenDisplay, SendFails, CloseDisplay, MonitorTimer,
        OperatorReply, ListenerStep, ListenerAttach, ListenerLoop, ListenerPulse, ListenerReply,
        ListenerUpdate
  <2> QED
    BY <2>1, <2>2
<1>3. CASE ReadSnapshot
  <2>1. alert' \in Alert
    <3>1. CASE picture = <<>>
      BY <1>3, <3>1 DEF ReadSnapshot
    <3>2. CASE picture # <<>>
      <4>1. {} \in SUBSET (Int \X Int) /\ written \in 0..MaxSnapshots /\ picture \in Pictures
        BY DEF DisplayTypeOK
      <4>2. alert' = [of |-> written, planes |-> picture, pairs |-> {},
                      lowest |-> timeConstraintCollisionFreq,
                      highest |-> timeConstraintCollisionFreq]
        BY <1>3, <3>2 DEF ReadSnapshot
      <4> QED
        BY <4>1, <4>2 DEF Alert
    <3> QED
      BY <3>1, <3>2
  <2>2. /\ i' \in Nat \ {0} /\ j' \in Nat /\ t' \in Nat /\ i' < j'
        /\ bound' \in Int /\ timeConstraintCollisionFreq' \in Int
        /\ monitor' \in {"ended", "check"}
    BY <1>3 DEF ReadSnapshot
  <2> QED
    BY <2>1, <2>2
<1>4. CASE CheckNow
  <2>1. /\ alert' \in Alert
        /\ i' \in Nat \ {0} /\ j' \in Nat /\ i' < j' /\ t' \in Nat
    BY <1>4, VerdictType DEF CheckNow
  <2>2. UNCHANGED <<monitor, bound, timeConstraintCollisionFreq>>
    BY <1>4 DEF CheckNow
  <2> QED
    BY <2>1, <2>2
<1>5. CASE CheckSecond
  <2>1. /\ alert' \in Alert
        /\ i' \in Nat \ {0} /\ j' \in Nat /\ i' < j' /\ t' \in Nat
    <3>1. j <= Len(alert.planes)
      BY <1>5 DEF CheckSecond
    <3>2. CASE Verdict(FALSE)
      BY <3>1, <3>2, VerdictType
    <3>3. CASE Verdict(TRUE)
      BY <3>1, <3>3, VerdictType
    <3>4. CASE t' = t + 1 /\ UNCHANGED <<alert, i, j>>
      BY <3>4
    <3> QED
      BY <1>5, <3>2, <3>3, <3>4 DEF CheckSecond
  <2>2. bound' \in Int /\ UNCHANGED <<monitor, timeConstraintCollisionFreq>>
    BY <1>5 DEF CheckSecond
  <2> QED
    BY <2>1, <2>2
<1>6. CASE OperatorHandle
  <2>1. alert' \in Alert
    <3>1. /\ Lesser(alert.lowest, operatorMsg) \in Int
          /\ Greater(alert.highest, operatorMsg) \in Int
      BY DEF Alert, Lesser, Greater, OperatorTypeOK
    <3>2. alert' = alert \/ alert' = [alert EXCEPT !.lowest = Lesser(alert.lowest, operatorMsg),
                                                   !.highest = Greater(alert.highest, operatorMsg)]
      BY <1>6 DEF OperatorHandle
    <3>3. CASE alert' = alert
      BY <3>3
    <3>4. CASE alert' # alert
      <4> DEFINE l == Lesser(alert.lowest, operatorMsg)
                 h == Greater(alert.highest, operatorMsg)
      <4>1. l \in Int /\ h \in Int /\ alert \in Alert
        BY <3>1
      <4>2. alert' = [alert EXCEPT !.lowest = l, !.highest = h]
        BY <3>2, <3>4
      <4> HIDE DEF l, h
      <4> QED
        BY <4>1, <4>2 DEF Alert
    <3> QED
      BY <3>3, <3>4
  <2>2. timeConstraintCollisionFreq' \in Int /\ UNCHANGED <<monitor, i, j, t, bound>>
    BY <1>6 DEF OperatorHandle, OperatorTypeOK
  <2> QED
    BY <2>1, <2>2
<1> QED
  BY <1>1, <1>2, <1>3, <1>4, <1>5, <1>6 DEF Next, MonitorStep, OperatorStep

(* Those of the Computer's other threads.                                  *)
LEMMA OperatorTypes ==
  ASSUME TypeOK, Next
  PROVE  OperatorTypeOK'
<1> USE DEF TypeOK, MonitorTypeOK, OperatorTypeOK, DisplayTypeOK, OperatorTypeOK
<1>1. CASE OperatorStep
  BY <1>1 DEF OperatorStep, OperatorReply, OperatorHandle
<1>2. CASE CommsStep
  BY <1>2 DEF CommsStep, CommsReply, CommsForward
<1>3. CASE ConsoleStep
  <2>1. CASE TypeConstraint
    BY <2>1 DEF TypeConstraint
  <2>2. CASE TypeRelay
    BY <2>2 DEF TypeRelay
  <2>3. CASE TypeExit
    BY <2>3 DEF TypeExit
  <2> QED
    BY <1>3, <2>1, <2>2, <2>3 DEF ConsoleStep
<1>4. CASE MainStep
  BY <1>4 DEF MainStep, JoinMonitor, JoinOperator, JoinConsole
<1>5. CASE WriteSnapshot \/ MonitorStep \/ ListenerStep \/ DisplayStep
  <2>1. UNCHANGED <<operator, operatorMsg, listen, consoleVars, comms, computerMain>>
    BY <1>5
    DEF WriteSnapshot, MonitorStep, MonitorSeesData, ReadSnapshot, CheckNow, CheckSecond,
        FillMessage, OpenDisplay, SendFails, CloseDisplay, MonitorTimer, ListenerStep,
        ListenerAttach, ListenerLoop, ListenerPulse, ListenerReply, ListenerUpdate, DisplayStep,
        DisplaySeesData, DisplayRead, Render
  <2> QED
    BY <2>1
<1> QED
  BY <1>1, <1>2, <1>3, <1>4, <1>5 DEF Next

(* Those of the Display and of the snapshots.                              *)
LEMMA DisplayTypes ==
  ASSUME TypeOK, Next
  PROVE  DisplayTypeOK'
<1> USE DEF TypeOK, MonitorTypeOK, OperatorTypeOK, DisplayTypeOK, DisplayTypeOK
<1>1. CASE WriteSnapshot
  BY <1>1 DEF WriteSnapshot
<1>2. CASE CloseDisplay
  BY <1>2 DEF CloseDisplay
<1>3. CASE ListenerStep
  <2>1. CASE ListenerAttach
    BY <2>1 DEF ListenerAttach
  <2>2. CASE ListenerLoop
    BY <2>2 DEF ListenerLoop
  <2>3. CASE ListenerPulse
    BY <2>3 DEF ListenerPulse
  <2>4. CASE ListenerReply
    <3>1. received' = alert /\ alert \in Alert /\ listener' = "update"
      BY <2>4 DEF ListenerReply
    <3>2. UNCHANGED <<airVars, warnings, pulses, displayVars, running>>
      BY <2>4 DEF ListenerReply
    <3> QED
      BY <3>1, <3>2 DEF airVars, displayVars
  <2>5. CASE ListenerUpdate
    BY <2>5 DEF ListenerUpdate
  <2> QED
    BY <1>3, <2>1, <2>2, <2>3, <2>4, <2>5 DEF ListenerStep
<1>4. CASE DisplayStep
  <2>1. CASE DisplaySeesData
    BY <2>1 DEF DisplaySeesData
  <2>2. CASE DisplayRead
    <3>1. displayed' \in 0..MaxSnapshots
      BY <2>2 DEF DisplayRead
    <3>2. running' \in BOOLEAN
      BY <2>2 DEF DisplayRead
    <3>3. /\ displayLoop' \in {"ended", "render"}
          /\ UNCHANGED <<picture, written, listener, received, warnings, pulses, screen>>
      BY <2>2 DEF DisplayRead
    <3> QED
      BY <3>1, <3>2, <3>3
  <2>3. CASE Render
    BY <2>3 DEF Render
  <2> QED
    BY <1>4, <2>1, <2>2, <2>3 DEF DisplayStep
<1>5. CASE (MonitorStep /\ ~CloseDisplay) \/ OperatorStep \/ CommsStep \/ ConsoleStep \/ MainStep
  <2>1. UNCHANGED <<airVars, listenerVars, pulses, displayVars, running>>
    BY <1>5
    DEF MonitorStep, MonitorSeesData, ReadSnapshot, CheckNow, CheckSecond, FillMessage,
        OpenDisplay, SendFails, MonitorTimer, OperatorStep, OperatorReply, OperatorHandle,
        CommsStep, CommsReply, CommsForward, ConsoleStep, TypeConstraint, TypeRelay, TypeExit,
        MainStep, JoinMonitor, JoinOperator, JoinConsole
  <2> QED
    BY <2>1
<1> QED
  BY <1>1, <1>2, <1>3, <1>4, <1>5 DEF Next

(* Every step keeps the invariant of the check.                            *)
LEMMA NextCheck ==
  ASSUME TypeOK, CheckInv, Next
  PROVE  CheckInv'
<1>1. CASE WriteSnapshot \/ CommsStep \/ ConsoleStep \/ MainStep \/ DisplayStep
  BY <1>1, CheckFrame
  DEF WriteSnapshot, CommsStep, CommsReply, CommsForward, ConsoleStep, TypeConstraint, TypeRelay,
      TypeExit, MainStep, JoinMonitor, JoinOperator, JoinConsole, DisplayStep, DisplaySeesData,
      DisplayRead, Render
<1>2. CASE MonitorSeesData \/ FillMessage \/ OpenDisplay \/ SendFails \/ CloseDisplay
           \/ MonitorTimer
  BY <1>2, CheckFrame
  DEF MonitorSeesData, FillMessage, OpenDisplay, SendFails, CloseDisplay, MonitorTimer
<1>3. CASE OperatorReply
  BY <1>3, CheckFrame DEF OperatorReply
<1>4. CASE ListenerStep
  BY <1>4, CheckFrame
  DEF ListenerStep, ListenerAttach, ListenerLoop, ListenerPulse, ListenerReply, ListenerUpdate
<1> QED
  BY <1>1, <1>2, <1>3, <1>4, ReadCheck, NowCheck, SecondCheck, HandleCheck
  DEF Next, MonitorStep, OperatorStep

(* The snapshot an alert is about changes only when a new one is read.     *)
LEMMA AlertOf ==
  ASSUME TypeOK, Next, ~ReadSnapshot
  PROVE  alert'.of = alert.of
<1>1. alert \in Alert
  BY DEF TypeOK, MonitorTypeOK, OperatorTypeOK, DisplayTypeOK
<1>2. CASE alert' = alert
  BY <1>2
<1>3. CASE CheckNow \/ CheckSecond
  BY <1>1, <1>3 DEF CheckNow, CheckSecond, Verdict, Alert
<1>4. CASE OperatorHandle
  BY <1>1, <1>4 DEF OperatorHandle, Alert
<1>5. CASE ~CheckNow /\ ~CheckSecond /\ ~OperatorHandle
  BY <1>5
  DEF Next, WriteSnapshot, MonitorStep, MonitorSeesData, FillMessage, OpenDisplay, SendFails,
      CloseDisplay, MonitorTimer, OperatorStep, OperatorReply, CommsStep, CommsReply,
      CommsForward, ConsoleStep, TypeConstraint, TypeRelay, TypeExit, MainStep, JoinMonitor,
      JoinOperator, JoinConsole, ListenerStep, ListenerAttach, ListenerLoop, ListenerPulse,
      ListenerReply, ListenerUpdate, DisplayStep, DisplaySeesData, DisplayRead, Render
<1> QED
  BY <1>3, <1>4, <1>5

(* Alerts keep their order: one is read, sent, received, stored and        *)
(* rendered before a later one follows it on the same step of its way.     *)
LEMMA NextOrder ==
  ASSUME TypeOK, OrderInv, Next
  PROVE  OrderInv'
<1>1. /\ alert.of \in Nat /\ received.of \in Nat /\ warnings.of \in Nat
      /\ screen.warnings.of \in Nat /\ screen.snapshot \in Nat
      /\ displayed \in Nat /\ written \in Nat
  BY DEF TypeOK, MonitorTypeOK, DisplayTypeOK, Alert
<1>2. CASE WriteSnapshot
  BY <1>1, <1>2 DEF OrderInv, WriteSnapshot
<1>3. CASE ReadSnapshot
  BY <1>1, <1>3 DEF OrderInv, ReadSnapshot
<1>4. CASE ListenerStep
  <2>1. CASE ListenerReply
    BY <1>1, <2>1 DEF OrderInv, ListenerReply
  <2>2. CASE ListenerUpdate
    BY <1>1, <2>2 DEF OrderInv, ListenerUpdate
  <2>3. CASE ListenerAttach \/ ListenerLoop \/ ListenerPulse
    BY <1>1, <2>3 DEF OrderInv, ListenerAttach, ListenerLoop, ListenerPulse
  <2> QED
    BY <1>4, <2>1, <2>2, <2>3 DEF ListenerStep
<1>5. CASE DisplayStep
  BY <1>1, <1>5 DEF OrderInv, DisplayStep, DisplaySeesData, DisplayRead, Render
<1>6. CASE \/ (MonitorStep /\ ~ReadSnapshot) \/ OperatorStep \/ CommsStep \/ ConsoleStep
           \/ MainStep
  <2>1. UNCHANGED <<written, listener, received, warnings, displayed, screen>>
    BY <1>6
    DEF MonitorStep, MonitorSeesData, CheckNow, CheckSecond, FillMessage,
        OpenDisplay, SendFails, CloseDisplay, MonitorTimer, OperatorStep, OperatorReply,
        OperatorHandle, CommsStep, CommsReply, CommsForward, ConsoleStep, TypeConstraint,
        TypeRelay, TypeExit, MainStep, JoinMonitor, JoinOperator, JoinConsole
  <2>2. CASE ReadSnapshot
    BY <1>3, <2>2
  <2>3. CASE ~ReadSnapshot
    BY <2>1, <2>3, AlertOf DEF OrderInv
  <2> QED
    BY <2>2, <2>3
<1> QED
  BY <1>2, <1>3, <1>4, <1>5, <1>6 DEF Next

(* Every step keeps the alerts sound: FillMessage makes one public, the    *)
(* others hand it on.                                                      *)
LEMMA NextAlerts ==
  ASSUME TypeOK, CheckInv, AlertsAreSound, Next
  PROVE  AlertsAreSound'
<1>1. CASE FillMessage
  <2>1. Sound(alert)
    BY <1>1, FillCheck
  <2>2. UNCHANGED <<alert, received, warnings, screen>>
    BY <1>1 DEF FillMessage
  <2> QED
    BY <2>1, <2>2 DEF AlertsAreSound, Sound
<1>2. CASE WriteSnapshot \/ CommsStep \/ ConsoleStep \/ MainStep \/ OperatorReply
  <2>1. UNCHANGED <<monitor, alert, received, warnings, screen>>
    BY <1>2
    DEF WriteSnapshot, CommsStep, CommsReply, CommsForward, ConsoleStep, TypeConstraint,
        TypeRelay, TypeExit, MainStep, JoinMonitor, JoinOperator, JoinConsole, OperatorReply
  <2> QED
    BY <2>1 DEF AlertsAreSound, Sound
<1>3. CASE OperatorHandle
  <2>1. UNCHANGED <<monitor, received, warnings, screen>> /\ (monitor # "check" => alert' = alert)
    BY <1>3 DEF OperatorHandle
  <2> QED
    BY <2>1 DEF AlertsAreSound, Sound
<1>4. CASE ReadSnapshot \/ CheckNow \/ CheckSecond
  <2>1. monitor' \in {"ended", "check"} /\ UNCHANGED <<received, warnings, screen>>
    BY <1>4 DEF ReadSnapshot, CheckNow, CheckSecond
  <2> QED
    BY <2>1 DEF AlertsAreSound, Sound
<1>5. CASE MonitorSeesData \/ OpenDisplay \/ SendFails \/ CloseDisplay \/ MonitorTimer
  <2>1. /\ monitor' \in {"open", "sending", "close"} => monitor \in {"open", "sending", "close"}
        /\ UNCHANGED <<alert, received, warnings, screen>>
    BY <1>5 DEF MonitorSeesData, OpenDisplay, SendFails, CloseDisplay, MonitorTimer
  <2> QED
    BY <2>1 DEF AlertsAreSound, Sound
<1>6. CASE ListenerStep
  <2>1. CASE ListenerReply
    <3>1. received' = alert /\ monitor = "sending" /\ UNCHANGED <<alert, warnings, screen>>
      BY <2>1 DEF ListenerReply
    <3> QED
      BY <3>1 DEF AlertsAreSound, Sound
  <2>2. CASE ListenerUpdate
    <3>1. warnings' = received /\ UNCHANGED <<monitor, alert, received, screen>>
      BY <2>2 DEF ListenerUpdate
    <3> QED
      BY <3>1 DEF AlertsAreSound, Sound
  <2>3. CASE ListenerAttach \/ ListenerLoop \/ ListenerPulse
    <3>1. UNCHANGED <<monitor, alert, received, warnings, screen>>
      BY <2>3 DEF ListenerAttach, ListenerLoop, ListenerPulse
    <3> QED
      BY <3>1 DEF AlertsAreSound, Sound
  <2> QED
    BY <1>6, <2>1, <2>2, <2>3 DEF ListenerStep
<1>7. CASE DisplayStep
  <2>1. /\ screen' = screen \/ screen'.warnings = warnings
        /\ UNCHANGED <<monitor, alert, received, warnings>>
    BY <1>7 DEF DisplayStep, DisplaySeesData, DisplayRead, Render
  <2> QED
    BY <2>1 DEF AlertsAreSound, Sound
<1> QED
  BY <1>1, <1>2, <1>3, <1>4, <1>5, <1>6, <1>7 DEF Next, MonitorStep, OperatorStep

(* A message is overrun only by FillMessage, with pairs of one snapshot;   *)
(* then nothing changes the alert any more.                                *)
LEMMA NextFits ==
  ASSUME TypeOK, CheckInv, SmallAlertsFit, Next
  PROVE  SmallAlertsFit'
<1>1. CASE FillMessage
  <2>1. /\ alert' = alert /\ alert \in Alert
        /\ alert.pairs \subseteq collisionPairs(alert.planes, alert.highest)
    BY <1>1 DEF FillMessage, CheckInv, CheckDone, TypeOK, MonitorTypeOK
  <2>2. Len(alert.planes) \in Nat
    BY <2>1, PlanesType DEF Alert
  <2>3. /\ Cardinality(alert.pairs) \in Nat
        /\ 2 * Cardinality(alert.pairs) <= Len(alert.planes) * (Len(alert.planes) - 1)
    BY <2>1, <2>2, PairsBounded
  <2>4. monitor' = "overrun" => Cardinality(alert.pairs) > Capacity
    BY <1>1 DEF FillMessage
  <2> DEFINE all == Len(alert.planes) * (Len(alert.planes) - 1)
  <2>5. all \in Int
    BY <2>2
  <2>6. ASSUME all <= 2 * Capacity
        PROVE  monitor' # "overrun"
    <3> HIDE DEF all
    <3> QED
      BY <2>3, <2>4, <2>5, <2>6 DEF all
  <2> QED
    BY <2>1, <2>6 DEF SmallAlertsFit
<1>2. CASE ~FillMessage
  <2>1. monitor' = "overrun" => monitor = "overrun" /\ alert' = alert
    BY <1>2
    DEF Next, WriteSnapshot, MonitorStep, MonitorSeesData, ReadSnapshot, CheckNow, CheckSecond,
        OpenDisplay, SendFails, CloseDisplay, MonitorTimer, OperatorStep, OperatorReply,
        OperatorHandle, CommsStep, CommsReply, CommsForward, ConsoleStep, TypeConstraint,
        TypeRelay, TypeExit, MainStep, JoinMonitor, JoinOperator, JoinConsole, ListenerStep,
        ListenerAttach, ListenerLoop, ListenerPulse, ListenerReply, ListenerUpdate, DisplayStep,
        DisplaySeesData, DisplayRead, Render, ComputerAlive
  <2> QED
    BY <2>1 DEF SmallAlertsFit
<1> QED
  BY <1>1, <1>2

-----------------------------------------------------------------------------
(* The empty alert is sound, and the initial states satisfy the invariant. *)
LEMMA InitIInv ==
  ASSUME Init
  PROVE  IInv
<1>1. NoAlert \in Alert
  <2>1. 0 \in 0..MaxSnapshots /\ <<>> \in Pictures \cup {<<>>} /\ {} \in SUBSET (Int \X Int)
    OBVIOUS
  <2> QED
    BY <2>1 DEF NoAlert, Alert
<1>2. Sound(NoAlert)
  <2>1. PairsOf(<<>>) = {}
    BY DEF PairsOf
  <2>2. \A n : collisionPairs(<<>>, n) = {}
    BY <2>1 DEF collisionPairs
  <2> QED
    BY <2>2 DEF Sound, NoAlert
<1>3. TypeOK
  <2>1. MonitorTypeOK
    BY <1>1 DEF Init, MonitorTypeOK
  <2>2. OperatorTypeOK
    BY DEF Init, OperatorTypeOK
  <2>3. DisplayTypeOK
    <3>1. [snapshot |-> 0, warnings |-> NoAlert] \in [snapshot : 0..MaxSnapshots, warnings : Alert]
      BY <1>1
    <3> QED
      BY <1>1, <3>1 DEF Init, DisplayTypeOK
  <2> QED
    BY <2>1, <2>2, <2>3 DEF TypeOK
<1>4. CheckInv /\ OrderInv
  BY DEF Init, CheckInv, OrderInv, NoAlert
<1>5. AlertsAreSound
  <2>1. monitor = "noData" /\ received = NoAlert /\ warnings = NoAlert
        /\ screen.warnings = NoAlert
    BY DEF Init
  <2> QED
    BY <1>2, <2>1 DEF AlertsAreSound
<1>6. SmallAlertsFit
  BY DEF Init, SmallAlertsFit
<1> QED
  BY <1>3, <1>4, <1>5, <1>6 DEF IInv

(* Every step keeps the invariant.                                         *)
LEMMA NextIInv ==
  ASSUME IInv, [Next]_vars
  PROVE  IInv'
<1>1. CASE Next
  <2>1. TypeOK'
    BY <1>1, MonitorTypes, OperatorTypes, DisplayTypes DEF IInv, TypeOK
  <2>2. CheckInv'
    BY <1>1, NextCheck DEF IInv
  <2>3. OrderInv'
    BY <1>1, NextOrder DEF IInv
  <2>4. AlertsAreSound'
    BY <1>1, NextAlerts DEF IInv
  <2>5. SmallAlertsFit'
    BY <1>1, NextFits DEF IInv
  <2> QED
    BY <2>1, <2>2, <2>3, <2>4, <2>5 DEF IInv
<1>2. CASE UNCHANGED vars
  <2>1. TypeOK'
    BY <1>2 DEF IInv, TypeOK, MonitorTypeOK, OperatorTypeOK, DisplayTypeOK
  <2>2. CheckInv'
    BY <1>2, CheckFrame DEF IInv
  <2>3. OrderInv'
    BY <1>2 DEF IInv, OrderInv
  <2>4. AlertsAreSound'
    BY <1>2 DEF IInv, AlertsAreSound, Sound
  <2>5. SmallAlertsFit'
    BY <1>2 DEF IInv, SmallAlertsFit
  <2> QED
    BY <2>1, <2>2, <2>3, <2>4, <2>5 DEF IInv
<1> QED
  BY <1>1, <1>2

(* The invariant holds in every behaviour of the two processes.            *)
THEOREM InductiveInvariant == Spec => []IInv
<1> QED
  BY InitIInv, NextIInv, PTL DEF Spec

(* Every variable keeps its type, whatever the snapshots and commands.     *)
THEOREM TypeCorrect == Spec => []TypeOK
<1>1. IInv => TypeOK
  BY DEF IInv
<1> QED
  BY <1>1, InductiveInvariant, PTL

(* Every alert that is sent, received, stored or shown is about one        *)
(* snapshot, and its pairs lie between what the lowest and what the        *)
(* highest constraint in force give, although checkAxes may use several.   *)
THEOREM AlertsCorrect == Spec => []AlertsAreSound
<1>1. IInv => AlertsAreSound
  BY DEF IInv
<1> QED
  BY <1>1, InductiveInvariant, PTL

(* A snapshot whose pairs fit the message, all of them, never overruns it. *)
THEOREM SmallAlertsFitCorrect == Spec => []SmallAlertsFit
<1>1. IInv => SmallAlertsFit
  BY DEF IInv
<1> QED
  BY <1>1, InductiveInvariant, PTL

(* Neither part of the screen goes back to an older snapshot.              *)
THEOREM ScreenAdvancesCorrect == Spec => ScreenAdvances
<1>1. ASSUME IInv, [Next]_vars
      PROVE  [/\ screen'.snapshot >= screen.snapshot
              /\ screen'.warnings.of >= screen.warnings.of]_vars
  <2>1. screen.snapshot \in Nat /\ screen.warnings.of \in Nat /\ warnings.of \in Nat
        /\ displayed \in Nat
    BY <1>1 DEF IInv, TypeOK, DisplayTypeOK, Alert
  <2>2. CASE Render
    BY <1>1, <2>1, <2>2 DEF IInv, OrderInv, Render
  <2>3. CASE Next /\ ~Render
    <3>1. UNCHANGED screen
      BY <2>3
      DEF Next, WriteSnapshot, MonitorStep, MonitorSeesData, ReadSnapshot, CheckNow, CheckSecond,
          FillMessage, OpenDisplay, SendFails, CloseDisplay, MonitorTimer, OperatorStep,
          OperatorReply, OperatorHandle, CommsStep, CommsReply, CommsForward, ConsoleStep,
          TypeConstraint, TypeRelay, TypeExit, MainStep, JoinMonitor, JoinOperator, JoinConsole,
          ListenerStep, ListenerAttach, ListenerLoop, ListenerPulse, ListenerReply,
          ListenerUpdate, DisplayStep, DisplaySeesData, DisplayRead
    <3> QED
      BY <2>1, <3>1
  <2> QED
    BY <1>1, <2>2, <2>3
<1> QED
  BY <1>1, InductiveInvariant, PTL DEF Spec, ScreenAdvances

(* The listener stores every alert before it takes another, and takes them *)
(* in the order of their snapshots.                                        *)
THEOREM NoAlertOverwrittenCorrect == Spec => NoAlertOverwritten
<1>1. ASSUME IInv, [Next]_vars
      PROVE  [received' # received => received = warnings /\ received'.of >= received.of]_vars
  <2>1. received.of \in Nat /\ alert.of \in Nat
    BY <1>1 DEF IInv, TypeOK, MonitorTypeOK, DisplayTypeOK, Alert
  <2>2. CASE ListenerReply
    BY <1>1, <2>1, <2>2 DEF IInv, OrderInv, ListenerReply
  <2>3. CASE Next /\ ~ListenerReply
    <3>1. UNCHANGED received
      BY <2>3
      DEF Next, WriteSnapshot, MonitorStep, MonitorSeesData, ReadSnapshot, CheckNow, CheckSecond,
          FillMessage, OpenDisplay, SendFails, CloseDisplay, MonitorTimer, OperatorStep,
          OperatorReply, OperatorHandle, CommsStep, CommsReply, CommsForward, ConsoleStep,
          TypeConstraint, TypeRelay, TypeExit, MainStep, JoinMonitor, JoinOperator, JoinConsole,
          ListenerStep, ListenerAttach, ListenerLoop, ListenerPulse, ListenerUpdate,
          DisplayStep, DisplaySeesData, DisplayRead, Render
    <3> QED
      BY <3>1
  <2> QED
    BY <1>1, <2>2, <2>3
<1> QED
  BY <1>1, InductiveInvariant, PTL DEF Spec, NoAlertOverwritten

=============================================================================
