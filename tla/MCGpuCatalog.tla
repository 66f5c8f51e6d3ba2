---------------------------- MODULE MCGpuCatalog ----------------------------
(* The instance of GpuCatalog for TLC.  Its run checks liveness, so it uses  *)
(* no symmetry.                                                              *)
EXTENDS GpuCatalog
=============================================================================
