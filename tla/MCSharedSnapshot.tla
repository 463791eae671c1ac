-------------------------- MODULE MCSharedSnapshot --------------------------
(* Model-checking instances of SharedSnapshot; the cfg files name the two  *)
(* readers of the system, the Computer's monitor and the Display.          *)
EXTENDS SharedSnapshot

=============================================================================
