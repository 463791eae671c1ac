---------------------------- MODULE CommandQueue ----------------------------
(***************************************************************************)
(* What the operator is promised, without the console, the Communications  *)
(* System, the channels and the polls that module OperatorCommands shows   *)
(* it is made with: commands wait in one queue, and the first of them      *)
(* takes effect in one step on the aircraft it is for, and on no other, or *)
(* is dropped when that aircraft cannot be reached.  Nothing else but the  *)
(* flight itself changes a position, and nothing else a velocity.          *)
(***************************************************************************)
EXTENDS Integers, Sequences

CONSTANTS Planes,    \* the aircraft
          Axes,      \* the coordinates of a position
          Vertical,  \* the one an altitude command sets
          Start,     \* position and velocity each aircraft starts with
          Commands   \* the commands that may be issued

VARIABLES
    phase,  \* of each flight: "expected", "flying", "leaving" or "gone"
    pos,    \* where each aircraft is
    speed,  \* and its velocity
    queue   \* the commands issued that wait to take effect

flights == <<phase, pos, speed>>
vars == <<flights, queue>>

Init ==
    /\ phase = [p \in Planes |-> "expected"]
    /\ pos = [p \in Planes |-> Start[p].pos]
    /\ speed = [p \in Planes |-> Start[p].speed]
    /\ queue = <<>>

Becomes(p, from, to) == phase[p] = from /\ phase' = [phase EXCEPT ![p] = to]

Enter(p) == Becomes(p, "expected", "flying") /\ UNCHANGED <<pos, speed, queue>>

(* An aircraft carries on with the velocity it has, and perhaps leaves.    *)
Fly(p) ==
    /\ Becomes(p, "flying", "flying") \/ Becomes(p, "flying", "leaving")
    /\ pos' = [pos EXCEPT ![p] = [a \in Axes |-> @[a] + speed[p][a]]]
    /\ UNCHANGED <<speed, queue>>

Leave(p) == Becomes(p, "leaving", "gone") /\ UNCHANGED <<pos, speed, queue>>

Issue(m) == queue' = Append(queue, m) /\ UNCHANGED flights

(* The components that are not zero replace those of the velocity.         *)
TakesHeading(p, v) ==
    /\ speed' = [speed EXCEPT ![p] = [a \in Axes |-> IF v[a] = 0 THEN @[a] ELSE v[a]]]
    /\ UNCHANGED pos

(* Three moves will take the aircraft to the target, but for rounding.     *)
HeadsFor(p, v) ==
    /\ speed' \in [Planes -> [Axes -> Int]]
    /\ \A q \in Planes \ {p} : speed'[q] = speed[q]
    /\ \A a \in Axes : v[a] - pos[p][a] - 3 * speed'[p][a] \in -2..2
    /\ UNCHANGED pos

TakesAltitude(p, v) ==
    /\ pos' = [pos EXCEPT ![p] = [@ EXCEPT ![Vertical] = v[Vertical]]]
    /\ UNCHANGED speed

Execute(m) ==
    /\ phase[m.plane] = "flying"
    /\ \/ m.kind = "heading" /\ TakesHeading(m.plane, m.value)
       \/ m.kind = "position" /\ HeadsFor(m.plane, m.value)
       \/ m.kind = "altitude" /\ TakesAltitude(m.plane, m.value)
    /\ UNCHANGED phase

Drop(m) == phase[m.plane] \in {"expected", "gone"} /\ UNCHANGED flights

TakeFirst ==
    /\ queue # <<>> /\ queue' = Tail(queue)
    /\ Execute(Head(queue)) \/ Drop(Head(queue))

Next ==
    \/ \E p \in Planes : Enter(p) \/ Fly(p) \/ Leave(p)
    \/ \E m \in Commands : Issue(m)
    \/ TakeFirst

Spec == Init /\ [][Next]_vars

=============================================================================
