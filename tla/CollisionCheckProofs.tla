------------------------ MODULE CollisionCheckProofs ------------------------
(***************************************************************************)
(* What the separation check promises, for all positions, velocities and   *)
(* time constraints.                                                       *)
(***************************************************************************)
EXTENDS CollisionCheck, TLAPS

USE CheckAssumption

(* Absolute differences do not depend on the order of their operands.      *)
LEMMA DifferenceSymmetric ==
  ASSUME NEW m \in Int, NEW n \in Int
  PROVE  fabs(m - n) = fabs(n - m)
BY DEF fabs

(* A future position is a position.                                        *)
LEMMA FutureType ==
  ASSUME NEW p \in Plane, NEW t \in Int
  PROVE  future(p, t) \in [Axes -> Int]
BY DEF future, Plane

(* The verdict on two aircraft does not depend on which of them comes      *)
(* first in the snapshot, whose order is that of a hash table              *)
(* (ComputerSystem::checkCollision visits each pair once).                 *)
THEOREM CheckSymmetric ==
  ASSUME NEW p \in Plane, NEW q \in Plane, NEW T \in Int
  PROVE  checkAxes(p, q, T) <=> checkAxes(q, p, T)
<1>1. sameVelocity(p, q) <=> sameVelocity(q, p)
  BY DifferenceSymmetric DEF sameVelocity, sameSpeed, Plane
<1>2. ASSUME NEW t \in Int
      PROVE  conflictAt(p, q, t) <=> conflictAt(q, p, t)
  BY DifferenceSymmetric, FutureType DEF conflictAt, tooClose
<1> QED
  BY <1>1, <1>2 DEF checkAxes

(* A longer time constraint never hides a warning (the operator's command  *)
(* 5 only adds warnings when it raises the constraint).                    *)
THEOREM CheckMonotone ==
  ASSUME NEW p \in Plane, NEW q \in Plane, NEW T \in Int, NEW U \in Int, T <= U,
         checkAxes(p, q, T)
  PROVE  checkAxes(p, q, U)
<1>1. \A t \in 0..T : t \in 0..U
  OBVIOUS
<1> QED
  BY <1>1 DEF checkAxes

(* The distance of two aircraft of the same velocity never changes, so the *)
(* check at time 0 alone (the comment in checkAxes) is the check at every  *)
(* second of the constraint.                                               *)
THEOREM EqualVelocityShortcut ==
  ASSUME NEW p \in Plane, NEW q \in Plane, NEW T \in Nat, p.Velocity = q.Velocity
  PROVE  checkAxes(p, q, T) <=> \E t \in 0..T : conflictAt(p, q, t)
<1>1. sameVelocity(p, q)
  BY DEF sameVelocity, sameSpeed, fabs, Plane
<1>2. ASSUME NEW t \in 0..T
      PROVE  conflictAt(p, q, t) <=> conflictAt(p, q, 0)
  <2>1. ASSUME NEW a \in Axes
        PROVE  future(p, t)[a] - future(q, t)[a] = future(p, 0)[a] - future(q, 0)[a]
    <3>1. p.Velocity[a] * t = q.Velocity[a] * t /\ p.Velocity[a] * 0 = q.Velocity[a] * 0
      OBVIOUS
    <3>2. /\ p.Position[a] \in Int /\ q.Position[a] \in Int
          /\ p.Velocity[a] * t \in Int /\ q.Velocity[a] * t \in Int
          /\ p.Velocity[a] * 0 \in Int /\ q.Velocity[a] * 0 \in Int
      BY DEF Plane
    <3> QED
      BY <3>1, <3>2 DEF future
  <2> QED
    BY <2>1 DEF conflictAt, tooClose
<1>3. 0 \in 0..T
  OBVIOUS
<1> QED
  BY <1>1, <1>2, <1>3 DEF checkAxes

(* An aircraft that has flown on is an aircraft.                           *)
LEMMA FlownType ==
  ASSUME NEW p \in Plane
  PROVE  flown(p) \in Plane
<1>1. future(p, 1) \in [Axes -> Int]
  BY FutureType
<1> QED
  BY <1>1 DEF flown, Plane

(* Flying on for a second and then t more is flying on for t + 1 seconds.  *)
LEMMA FlownFuture ==
  ASSUME NEW p \in Plane, NEW t \in Int
  PROVE  future(flown(p), t) = future(p, t + 1)
<1>1. ASSUME NEW a \in Axes
      PROVE  future(flown(p), t)[a] = future(p, t + 1)[a]
  <2>1. /\ flown(p).Position = future(p, 1) /\ flown(p).Velocity = p.Velocity
    BY DEF flown, Plane
  <2>2. p.Velocity[a] \in Int /\ p.Position[a] \in Int
    BY DEF Plane
  <2>3. ASSUME NEW v \in Int
        PROVE  v * 1 + v * t = v * (t + 1)
    OBVIOUS
  <2> QED
    BY <2>1, <2>2, <2>3 DEF future
<1> QED
  BY <1>1 DEF future

(* A warning does not flicker: a pair that is warned of before it is too   *)
(* close is warned of a second later too, as long as neither aircraft gets *)
(* a command (Aircraft::updatePosition moves them by their velocity, and   *)
(* ComputerSystem::monitorAirspace checks the next snapshot).              *)
THEOREM PredictionPersists ==
  ASSUME NEW p \in Plane, NEW q \in Plane, NEW T \in Int,
         checkAxes(p, q, T), ~conflictAt(p, q, 0)
  PROVE  checkAxes(flown(p), flown(q), T - 1) /\ checkAxes(flown(p), flown(q), T)
<1>1. ~sameVelocity(p, q)
  BY DEF checkAxes
<1>2. PICK t \in 0..T : conflictAt(p, q, t)
  BY <1>1 DEF checkAxes
<1>3. t - 1 \in 0..(T - 1)
  BY <1>2
<1>4. conflictAt(flown(p), flown(q), t - 1)
  <2>1. future(flown(p), t - 1) = future(p, t) /\ future(flown(q), t - 1) = future(q, t)
    BY FlownFuture
  <2> QED
    BY <1>2, <2>1 DEF conflictAt
<1>5. ~sameVelocity(flown(p), flown(q))
  <2>1. flown(p).Velocity = p.Velocity
    BY DEF flown, Plane
  <2>2. flown(q).Velocity = q.Velocity
    BY DEF flown, Plane
  <2> QED
    BY <1>1, <2>1, <2>2 DEF sameVelocity
<1>6. checkAxes(flown(p), flown(q), T - 1)
  BY <1>3, <1>4, <1>5 DEF checkAxes
<1>7. flown(p) \in Plane /\ flown(q) \in Plane
  BY FlownType
<1> QED
  BY <1>6, <1>7, CheckMonotone

-----------------------------------------------------------------------------
(* Several seconds of flight.                                              *)

(* s seconds of flight with the velocity it has.                           *)
flownFor(p, s) == [p EXCEPT !.Position = future(p, s)]

(* On one axis: s seconds and then t more are s + t seconds.               *)
LEMMA SteadyFlight ==
  ASSUME NEW x \in Int, NEW v \in Int, NEW s \in Int, NEW t \in Int
  PROVE  x + v * s + v * t = x + v * (s + t)
<1>1. v * (s + t) = v * s + v * t /\ v * s \in Int /\ v * t \in Int
  OBVIOUS
<1> DEFINE k == v * s
           l == v * t
<1> HIDE DEF k, l
<1>2. k \in Int /\ l \in Int => x + k + l = x + (k + l)
  OBVIOUS
<1> QED
  BY <1>1, <1>2 DEF k, l

(* After s seconds the position in t more is the one in s + t.             *)
LEMMA FlownForFuture ==
  ASSUME NEW r \in Plane, NEW s \in Int, NEW t \in Int
  PROVE  /\ flownFor(r, s).Velocity = r.Velocity
         /\ future(flownFor(r, s), t) = future(r, s + t)
<1>1. flownFor(r, s).Position = future(r, s) /\ flownFor(r, s).Velocity = r.Velocity
  BY DEF flownFor, Plane
<1>2. ASSUME NEW a \in Axes
      PROVE  r.Position[a] + r.Velocity[a] * s + r.Velocity[a] * t
                 = r.Position[a] + r.Velocity[a] * (s + t)
  <2>1. r.Velocity[a] \in Int /\ r.Position[a] \in Int
    BY DEF Plane
  <2> QED
    BY <2>1, SteadyFlight
<1> QED
  BY <1>1, <1>2 DEF future

(* They are as many single seconds, one after the other.                   *)
LEMMA FlownStep ==
  ASSUME NEW p \in Plane, NEW s \in Nat
  PROVE  flownFor(p, 0) = p /\ flownFor(p, s + 1) = flown(flownFor(p, s))
<1>1. future(p, 0) = p.Position
  <2>1. \A a \in Axes : p.Position[a] + p.Velocity[a] * 0 = p.Position[a]
    BY DEF Plane
  <2> QED
    BY <2>1 DEF future, Plane
<1>2. flownFor(p, 0) = p
  BY <1>1 DEF flownFor, Plane
<1>3. future(flownFor(p, s), 1) = future(p, s + 1)
  BY FlownForFuture
<1>4. flownFor(p, s + 1) = flown(flownFor(p, s))
  BY <1>3 DEF flownFor, flown, Plane
<1> QED
  BY <1>2, <1>4

(* After s seconds of flight the conflicts to come are s seconds nearer.   *)
LEMMA FlownForConflict ==
  ASSUME NEW p \in Plane, NEW q \in Plane, NEW s \in Int, NEW t \in Int
  PROVE  /\ conflictAt(flownFor(p, s), flownFor(q, s), t) <=> conflictAt(p, q, s + t)
         /\ sameVelocity(flownFor(p, s), flownFor(q, s)) <=> sameVelocity(p, q)
BY FlownForFuture DEF conflictAt, sameVelocity

(* No conflict of two aircraft on steady courses comes as a surprise: in   *)
(* each of the T seconds before it the check with the time constraint T    *)
(* warns of it.  Only velocities that are nearly but not quite equal, for  *)
(* which checkAxes looks at time 0 alone, are left out; the theorem after  *)
(* this one is about them.                                                 *)
THEOREM WarnedAhead ==
  ASSUME NEW p \in Plane, NEW q \in Plane, NEW T \in Nat, NEW s \in 0..T,
         conflictAt(p, q, T), sameVelocity(p, q) => p.Velocity = q.Velocity
  PROVE  checkAxes(flownFor(p, s), flownFor(q, s), T)
<1> DEFINE P == flownFor(p, s)
           Q == flownFor(q, s)
<1> HIDE DEF P, Q
<1>1. T - s \in 0..T /\ s + (T - s) = T
  OBVIOUS
<1>2. conflictAt(P, Q, T - s) /\ (sameVelocity(P, Q) <=> sameVelocity(p, q))
  <2>1. s \in Int /\ T - s \in Int
    OBVIOUS
  <2> QED
    BY <1>1, <2>1, FlownForConflict DEF P, Q
<1>3. CASE ~sameVelocity(p, q)
  <2>1. checkAxes(P, Q, T)
    BY <1>1, <1>2, <1>3 DEF checkAxes
  <2> QED
    BY <2>1 DEF P, Q
<1>4. CASE sameVelocity(p, q)
  <2>1. future(p, s) \in [Axes -> Int] /\ future(q, s) \in [Axes -> Int]
    BY FutureType
  <2>2. P \in Plane /\ Q \in Plane
    BY <2>1 DEF P, Q, flownFor, Plane
  <2>3. P.Velocity = Q.Velocity
    BY <1>4 DEF P, Q, flownFor, Plane
  <2>4. checkAxes(P, Q, T)
    BY <1>1, <1>2, <2>2, <2>3, EqualVelocityShortcut
  <2> QED
    BY <2>4 DEF P, Q
<1> QED
  BY <1>3, <1>4

(* A difference that changes by less than N a second changes by at most    *)
(* N * t in t seconds.                                                     *)
LEMMA Drift ==
  ASSUME NEW d \in Int, NEW v \in Int, NEW N \in Nat, NEW t \in Nat, fabs(v) < N
  PROVE  /\ fabs(d) <= fabs(d + v * t) + N * t
         /\ fabs(d + v * t) <= fabs(d) + N * t
<1>1. v <= N /\ -N <= v
  BY DEF fabs
<1>2. \A x, y \in Int : x <= y => x * t <= y * t
  OBVIOUS
<1>3. v * t <= N * t /\ (-N) * t <= v * t /\ (-N) * t = -(N * t)
  BY <1>1, <1>2
<1>4. v * t \in Int /\ N * t \in Int
  OBVIOUS
<1> DEFINE w == v * t
           M == N * t
<1> HIDE DEF w, M
<1>5. w \in Int /\ M \in Int /\ w <= M /\ -M <= w
  BY <1>3, <1>4 DEF w, M
<1>6. fabs(d) <= fabs(d + w) + M /\ fabs(d + w) <= fabs(d) + M
  BY <1>5 DEF fabs
<1> QED
  BY <1>6 DEF w, M

(* What the check at time 0 alone can miss: aircraft whose velocities      *)
(* sameVelocity takes for equal are, at a conflict t seconds ahead that it *)
(* does not look for, already within the constraint and the negligible     *)
(* difference times t.                                                     *)
THEOREM NearlyEqualVelocityShortcut ==
  ASSUME NEW p \in Plane, NEW q \in Plane, NEW t \in Nat,
         sameVelocity(p, q), conflictAt(p, q, t), NEW a \in Axes
  PROVE  fabs(p.Position[a] - q.Position[a]) <= Constraint[a] + NegligibleDifference * t
<1> DEFINE d == p.Position[a] - q.Position[a]
           v == p.Velocity[a] - q.Velocity[a]
<1>1. /\ p.Position[a] \in Int /\ q.Position[a] \in Int
      /\ p.Velocity[a] \in Int /\ q.Velocity[a] \in Int
  BY DEF Plane
<1>2. \A x, y \in Int : (x - y) * t = x * t - y * t
  OBVIOUS
<1>3. future(p, t)[a] - future(q, t)[a] = d + v * t
  <2>1. p.Velocity[a] * t \in Int /\ q.Velocity[a] * t \in Int
    BY <1>1
  <2> QED
    BY <1>1, <1>2, <2>1 DEF future
<1>4. fabs(v) < NegligibleDifference
  BY DEF sameVelocity, sameSpeed
<1>5. fabs(d + v * t) <= Constraint[a]
  BY <1>3 DEF conflictAt, tooClose
<1>6. d \in Int /\ v \in Int /\ v * t \in Int
  BY <1>1
<1> HIDE DEF d, v
<1>7. fabs(d) <= fabs(d + v * t) + NegligibleDifference * t
  BY <1>4, <1>6, Drift
<1>8. /\ fabs(d) \in Int /\ fabs(d + v * t) \in Int /\ NegligibleDifference * t \in Int
      /\ Constraint[a] \in Int
  BY <1>6 DEF fabs
<1>9. fabs(d) <= Constraint[a] + NegligibleDifference * t
  BY <1>5, <1>7, <1>8
<1> QED
  BY <1>9 DEF d

-----------------------------------------------------------------------------
(* Between two seconds.                                                    *)

(* Factors that keep an order.                                             *)
LEMMA Scale ==
  ASSUME NEW x \in Int, NEW y \in Int, NEW k \in Nat, x <= y
  PROVE  k * x <= k * y /\ k * x \in Int /\ k * y \in Int
OBVIOUS

(* On one axis: m n-ths of a second after a difference of d that changes   *)
(* by v a second, the difference is at least |d| - |v|.                    *)
LEMMA Halfway ==
  ASSUME NEW d \in Int, NEW v \in Int, NEW C \in Nat, NEW n \in Nat \ {0}, NEW m \in 0..n,
         fabs(n * d + m * v) <= n * C
  PROVE  fabs(d) <= C + fabs(v)
<1> DEFINE V == fabs(v)
<1>1. V \in Nat /\ v <= V /\ -V <= v
  BY DEF fabs
<1> HIDE DEF V
<1>2. -(n * V) <= m * v /\ m * v <= n * V /\ m * v \in Int /\ n * V \in Int
  <2>1. m * v <= m * V /\ m * (-V) <= m * v /\ m * v \in Int /\ m * V \in Int
    BY <1>1, Scale
  <2>2. m * (-V) = -(m * V)
    BY <1>1
  <2>3. V * m <= V * n
    BY <1>1, Scale
  <2>4. V * m = m * V /\ V * n = n * V /\ n * V \in Int
    BY <1>1
  <2> QED
    BY <2>1, <2>2, <2>3, <2>4
<1>3. n * d \in Int /\ n * C \in Int /\ -(n * C) <= n * d + m * v /\ n * d + m * v <= n * C
  BY <1>2 DEF fabs
<1>4. n * (C + V + 1) = n * C + n * V + n
  BY <1>1
<1>5. ~(C + V + 1 <= d)
  <2> SUFFICES ASSUME C + V + 1 <= d
               PROVE  FALSE
    OBVIOUS
  <2>1. n * (C + V + 1) <= n * d
    BY <1>1, Scale
  <2> QED
    BY <1>2, <1>3, <1>4, <2>1
<1>6. ~(C + V + 1 <= -d)
  <2> SUFFICES ASSUME C + V + 1 <= -d
               PROVE  FALSE
    OBVIOUS
  <2>1. n * (C + V + 1) <= n * (-d)
    BY <1>1, Scale
  <2>2. n * (-d) = -(n * d)
    OBVIOUS
  <2> QED
    BY <1>2, <1>3, <1>4, <2>1, <2>2
<1> QED
  BY <1>1, <1>5, <1>6 DEF fabs, V

(* What the check of whole seconds can miss: aircraft that are too close   *)
(* m n-ths of a second after second t are then, at second t itself, apart  *)
(* by no more than the constraint and what they fly towards each other in  *)
(* a second (n times their distance on each axis is n times the one at t   *)
(* and m times the difference of their velocities).                        *)
THEOREM BetweenSeconds ==
  ASSUME NEW p \in Plane, NEW q \in Plane, NEW t \in Nat,
         NEW n \in Nat \ {0}, NEW m \in 0..n,
         \A a \in Axes :
             fabs(n * (future(p, t)[a] - future(q, t)[a])
                      + m * (p.Velocity[a] - q.Velocity[a])) <= n * Constraint[a]
  PROVE  \A a \in Axes :
             fabs(future(p, t)[a] - future(q, t)[a])
                 <= Constraint[a] + fabs(p.Velocity[a] - q.Velocity[a])
<1> SUFFICES ASSUME NEW a \in Axes
             PROVE  fabs(future(p, t)[a] - future(q, t)[a])
                        <= Constraint[a] + fabs(p.Velocity[a] - q.Velocity[a])
  OBVIOUS
<1>1. /\ future(p, t)[a] - future(q, t)[a] \in Int
      /\ p.Velocity[a] - q.Velocity[a] \in Int /\ Constraint[a] \in Nat
  <2>1. future(p, t) \in [Axes -> Int] /\ future(q, t) \in [Axes -> Int]
    BY FutureType
  <2> QED
    BY <2>1 DEF Plane
<1> QED
  BY <1>1, Halfway

=============================================================================
