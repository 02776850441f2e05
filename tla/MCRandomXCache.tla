--------------------------- MODULE MCRandomXCache ---------------------------
(* RandomXCache for TLC.  There is no symmetry set: the run also checks     *)
(* liveness, for which symmetry is unsound.                                *)
EXTENDS RandomXCache
=============================================================================
