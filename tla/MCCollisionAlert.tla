-------------------------- MODULE MCCollisionAlert --------------------------
(* Model-checking instances of CollisionAlert: one axis stands for three,  *)
(* and the distances are small.                                            *)
EXTENDS CollisionAlert

MCConstraint == [a \in Axes |-> 1]

Craft(id, x, v) ==
    [id |-> id, plane |-> [Position |-> [a \in Axes |-> x], Velocity |-> [a \in Axes |-> v]]]

(* Aircraft 1 and 2 approach each other and are too close after 2 seconds, *)
(* as long as the constraint is 2 or more.                                 *)
Approaching == <<Craft(1, 0, 1), Craft(2, 5, -1)>>

(* Listed in the other order and too close now, whatever the constraint,   *)
(* with a third aircraft that comes closer to both.                        *)
Beside == <<Craft(2, 1, 0), Craft(1, 0, 0), Craft(3, 6, -3)>>

(* They are far apart and keep their distance.                             *)
Apart == <<Craft(1, 0, 0), Craft(2, 5, 0)>>

MCPictures == {<<>>, Approaching, Beside, Apart}

(* They are too close after one second, under either constraint.           *)
Closing == <<Craft(1, 0, 1), Craft(2, 3, -1)>>

(* What the Radar writes in the liveness runs.                             *)
MCPictures2 == {<<>>, Closing, Apart}

(* Constraints the operator types: none at all, and a lower one.           *)
MCNewConstraints == {-1, 1}

(* Three aircraft in conflict, three pairs.                                *)
Crowd == <<Craft(1, 0, 0), Craft(2, 0, 0), Craft(3, 1, 0)>>

CrowdPictures == {<<>>, Crowd}

=============================================================================
