----------------------------- MODULE MCSyncHost -----------------------------
(* Two origins; a create and what follows it, one trouble anywhere. *)
EXTENDS SyncHost
=============================================================================
