---------------------------- MODULE MCInventory ----------------------------
(* DataHubInventory on a small instance. *)
EXTENDS DataHubInventory
=============================================================================
