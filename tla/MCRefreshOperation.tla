------------------------- MODULE MCRefreshOperation -------------------------
(* A small instance of RefreshOperation. *)
EXTENDS RefreshOperation
=============================================================================
