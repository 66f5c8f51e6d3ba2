----------------------------- MODULE MCSpending -----------------------------
(* Small instances of Spending for TLC. *)
EXTENDS Spending, TLC

\* No call is special, and no property of these runs is a liveness property.
Symmetry == Permutations(Calls)
=============================================================================
