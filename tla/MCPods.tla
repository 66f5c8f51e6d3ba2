------------------------------ MODULE MCPods ------------------------------
(* Small instances of Pods for TLC. *)
EXTENDS Pods, TLC

Symmetry == Permutations(Calls) \cup Permutations(Folders)
=============================================================================
