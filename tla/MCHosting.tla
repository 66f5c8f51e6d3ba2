----------------------------- MODULE MCHosting -----------------------------
(* Small instance of Hosting for TLC. *)
EXTENDS Hosting
=============================================================================
