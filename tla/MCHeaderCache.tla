--------------------------- MODULE MCHeaderCache ---------------------------
(* Instances of HeaderCache for TLC. *)
EXTENDS HeaderCache, TLC

Symmetry == Permutations(Processes) \cup Permutations(Headers)
=============================================================================
