------------------------------ MODULE MCTargets ------------------------------
(* Small instances of Targets for TLC. *)
EXTENDS Targets, TLC

Symmetry == Permutations(Things) \cup Permutations(Labels) \cup Permutations(Requests)
=============================================================================
