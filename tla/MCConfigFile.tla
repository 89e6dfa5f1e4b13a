---------------------------- MODULE MCConfigFile ----------------------------
(* Model checking of ConfigFile. *)
EXTENDS ConfigFile
=============================================================================
