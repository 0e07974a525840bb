----------------------------- MODULE MCServer -----------------------------
(***************************************************************************)
(* Instance of Server for TLC.  No symmetry: the run checks liveness.      *)
(***************************************************************************)
EXTENDS Server, TLC
=============================================================================
