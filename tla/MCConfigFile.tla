---------------------------- MODULE MCConfigFile ----------------------------
(* A small instance of ConfigFile. *)
EXTENDS ConfigFile
=============================================================================
