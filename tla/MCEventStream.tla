--------------------------- MODULE MCEventStream ---------------------------
(* Instances of EventStream for TLC. *)
EXTENDS EventStream, TLC

CONSTANTS s1, s2

MCSymmetry == Permutations(Sessions)
=============================================================================
