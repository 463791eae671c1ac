------------------------------ MODULE MCRadar ------------------------------
(* Model-checking instances of Radar.                                      *)
EXTENDS Radar, TLC

(* The aircraft are interchangeable in the runs that check safety only.    *)
Symmetry == Permutations(Planes)

=============================================================================
