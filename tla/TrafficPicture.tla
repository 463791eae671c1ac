--------------------------- MODULE TrafficPicture ---------------------------
(***************************************************************************)
(* What the Radar promises those who read its shared memory, without the   *)
(* threads, messages and buffers that module Radar shows it is made with:  *)
(* aircraft fly through the airspace once, and from time to time a new     *)
(* picture of them is published in one step.                               *)
(***************************************************************************)
EXTENDS Naturals

CONSTANTS Planes,    \* the aircraft
          MaxMoves   \* every flight ends after at most this many moves

VARIABLES
    airborne,  \* the aircraft in their update loop
    moves,     \* how often each has moved
    picture    \* the published reports

vars == <<airborne, moves, picture>>

Report == [id : Planes, at : 1..MaxMoves]
Ids(reports) == {r.id : r \in reports}

Init ==
    /\ airborne = {}
    /\ moves = [p \in Planes |-> 0]
    /\ picture = {}

(* An aircraft flies through the airspace at most once.                    *)
Appear(p) ==
    /\ p \notin airborne /\ moves[p] = 0
    /\ airborne' = airborne \cup {p}
    /\ UNCHANGED <<moves, picture>>

(* It moves, and may leave by that move; the last one it can make is one.  *)
Fly(p) ==
    /\ p \in airborne
    /\ moves' = [moves EXCEPT ![p] = @ + 1]
    /\ airborne' \in {airborne \ {p}} \cup IF moves'[p] < MaxMoves THEN {airborne} ELSE {}
    /\ UNCHANGED picture

(* A picture has one report of an aircraft, of a move it has made and      *)
(* newer than in the picture before; it misses none of the airborne        *)
(* aircraft that picture showed.                                           *)
Publish ==
    /\ picture' \in SUBSET Report
    /\ \A r, s \in picture' : r.id = s.id => r = s
    /\ \A r \in picture' : r.at <= moves[r.id]
    /\ \A r \in picture, s \in picture' : r.id = s.id => s.at > r.at
    /\ Ids(picture) \cap airborne \subseteq Ids(picture')
    /\ UNCHANGED <<airborne, moves>>

Next ==
    \/ \E p \in Planes : Appear(p) \/ Fly(p)
    \/ Publish

Spec == Init /\ [][Next]_vars

=============================================================================
