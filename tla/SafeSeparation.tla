--------------------------- MODULE SafeSeparation ---------------------------
(***************************************************************************)
(* The separation check of module CollisionCheck applied to the reports of *)
(* module OperatorCommands: what a verdict says of the aircraft themselves *)
(* when it is used, moves after they sent the reports.  The reports go     *)
(* from the Radar to the Computer System as entries of the shared memory   *)
(* (modules Radar and SharedSnapshot).                                     *)
(***************************************************************************)
EXTENDS OperatorCommands

CONSTANTS Constraint,            \* CONSTRAINT_X, CONSTRAINT_Y, CONSTRAINT_Z
          NegligibleDifference,  \* NEGLIGIBLE_DIFFERENCE of sameSpeed
          TimeConstraint         \* timeConstraintCollisionFreq

ASSUME SeparationAssumption ==
    /\ Constraint \in [Axes -> Nat]
    /\ NegligibleDifference \in Nat \ {0}
    /\ TimeConstraint \in Int

Check == INSTANCE CollisionCheck

(* A report as an entry of the shared memory, where checkAxes finds it.    *)
Entry(r) == [Position |-> r.pos, Velocity |-> r.speed]

(* The aircraft has obeyed no command since, and moved so often.           *)
Current(r) == last[r.plane].n = r.n
Age(r) == moves[r.plane] - r.at

(* Nothing surprises the check: two aircraft whose reports it found clear  *)
(* are not too close when both have made the same number of moves since,   *)
(* at most as many as it looks ahead, and have obeyed no command.  What    *)
(* else they were sent in the meantime does not matter.  Nearly but not    *)
(* quite equal velocities are left out: for them the check looks at the    *)
(* reported positions only (ComputerSystem::checkAxes,                     *)
(* Aircraft::updatePosition).                                              *)
ClearIsSafe ==
    \A r, s \in Reports :
        (/\ Current(r) /\ Current(s)
         /\ Age(r) = Age(s) /\ Age(r) <= TimeConstraint
         /\ Check!sameVelocity(Entry(r), Entry(s)) => r.speed = s.speed
         /\ ~Check!checkAxes(Entry(r), Entry(s), TimeConstraint))
            => ~Check!tooClose(pos[r.plane], pos[s.plane])

=============================================================================
