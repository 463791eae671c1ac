--------------------------- MODULE CollisionCheck ---------------------------
(***************************************************************************)
(* The separation check of the Computer System: whether two aircraft are   *)
(* too close now, or will be within a number of seconds if both fly on     *)
(* with the velocity they have.                                            *)
(*                                                                         *)
(* Positions and velocities are doubles in the code and integers here, in  *)
(* a unit small enough for the negligible difference of two speeds to be a *)
(* whole number of it.                                                     *)
(***************************************************************************)
EXTENDS Integers

CONSTANTS Axes,                 \* X, Y and Z
          Constraint,           \* CONSTRAINT_X, CONSTRAINT_Y, CONSTRAINT_Z
          NegligibleDifference  \* NEGLIGIBLE_DIFFERENCE of sameSpeed

ASSUME CheckAssumption ==
    /\ Constraint \in [Axes -> Nat]
    /\ NegligibleDifference \in Nat \ {0}

(* msg_plane_info without the aircraft's ID.                               *)
Plane == [Position : [Axes -> Int], Velocity : [Axes -> Int]]

fabs(n) == IF n < 0 THEN -n ELSE n

sameSpeed(speed1, speed2) == fabs(speed1 - speed2) < NegligibleDifference

sameVelocity(p, q) == \A a \in Axes : sameSpeed(p.Velocity[a], q.Velocity[a])

(* Where the aircraft is after t more seconds of flight.                   *)
future(p, t) == [a \in Axes |-> p.Position[a] + p.Velocity[a] * t]

(* Two positions closer than the constraint on every axis.                 *)
tooClose(x, y) == \A a \in Axes : fabs(x[a] - y[a]) <= Constraint[a]

conflictAt(p, q, t) == tooClose(future(p, t), future(q, t))

(* The whole of checkAxes for one value of timeConstraintCollisionFreq,    *)
(* which may be negative.                                                  *)
checkAxes(p, q, timeConstraint) ==
    IF sameVelocity(p, q) THEN conflictAt(p, q, 0)
                          ELSE \E t \in 0..timeConstraint : conflictAt(p, q, t)

(* One second of flight, as in the aircraft's own update of its position.  *)
flown(p) == [p EXCEPT !.Position = future(p, 1)]

=============================================================================
