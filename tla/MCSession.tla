----------------------------- MODULE MCSession -----------------------------
(* Instances of Session for TLC, with its mapping to CallLedger. *)
EXTENDS SessionLedger

Symmetry == Permutations(Calls)
=============================================================================
