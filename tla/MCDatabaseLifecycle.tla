------------------------- MODULE MCDatabaseLifecycle -------------------------
(* Two commands, two sessions and two processes: enough for a retirement with *)
(* one job inside and one at the door, a repair after it, and a crash between *)
(* any two steps with a restart on what is left.                              *)
EXTENDS DatabaseLifecycle
=============================================================================
