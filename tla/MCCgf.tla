-------------------------------- MODULE MCCgf --------------------------------
(***************************************************************************)
(* Small instances of Cgf for TLC: two subscribers share the connection.   *)
(***************************************************************************)
EXTENDS Cgf

TwoHandlers == {"h1", "h2"}
=============================================================================
