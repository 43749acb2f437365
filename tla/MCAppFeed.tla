------------------------------ MODULE MCAppFeed ------------------------------
(* The instance is all in the configuration. *)
EXTENDS AppFeed
=============================================================================
