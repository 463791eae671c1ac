------------------------- MODULE MCOperatorCommands -------------------------
(* An airspace of two axes.  No order stops an aircraft in x, so every     *)
(* flight ends and the moves need no bound.                                *)
EXTENDS SafeSeparation

V(x, z) == [a \in {"x", "z"} |-> IF a = "x" THEN x ELSE z]

MCLow == V(0, 0)
MCHigh == V(8, 9)

MCStart == [p \in {"p1", "p2"} |->
               IF p = "p1" THEN [pos |-> V(0, 3), speed |-> V(3, 0)]
                           ELSE [pos |-> V(7, 6), speed |-> V(-4, 0)]]

(* Aircraft 1, when it has turned back and reported, is clear of aircraft  *)
(* 2, whose report is older, and too close a move later.                   *)
MCConstraint == V(2, 3)

(* Turn back, a target beyond the airspace in x, an altitude outside it,   *)
(* a request, and for the other aircraft: climb and keep the rest.         *)
MCOrders ==
    {[plane |-> o[1], kind |-> o[2], value |-> o[3]] :
        o \in {<<"p1", "heading", V(-3, 0)>>, <<"p1", "position", V(11, 9)>>,
               <<"p1", "altitude", V(0, 10)>>, <<"p1", "info", V(0, 0)>>,
               <<"p2", "heading", V(0, 2)>>}}

=============================================================================
