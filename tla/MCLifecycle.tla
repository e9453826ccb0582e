----------------------------- MODULE MCLifecycle -----------------------------
(***************************************************************************)
(* Lifecycle for TLC.  It needs no bounds: no counter grows, and however   *)
(* often the NRF fails, forgets and is asked again the states recur.       *)
(***************************************************************************)
EXTENDS Lifecycle
=============================================================================
