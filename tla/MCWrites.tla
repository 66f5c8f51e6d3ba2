------------------------------ MODULE MCWrites ------------------------------
(* The instances of Writes for TLC.  One of the runs checks liveness, the    *)
(* other is small, so neither uses symmetry.                                 *)
EXTENDS Writes
=============================================================================
