---------------------------- MODULE MCAdmission ----------------------------
(* The instance of Admission for TLC.  Its run checks liveness, so it uses   *)
(* no symmetry.                                                              *)
EXTENDS Admission
=============================================================================
