----------------------------- MODULE MCTagCache -----------------------------
(* Instance of TagCache for TLC; without symmetry, a run checks liveness.  *)
EXTENDS TagCache
=============================================================================
