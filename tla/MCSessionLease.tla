--------------------------- MODULE MCSessionLease ---------------------------
(* Instances of SessionLease: writers that may and may not force are each  *)
(* interchangeable among themselves.                                       *)
EXTENDS SessionLease, TLC

Symmetry == Permutations(Forcers) \cup Permutations(Writers \ Forcers)
=============================================================================
