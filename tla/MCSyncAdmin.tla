----------------------------- MODULE MCSyncAdmin -----------------------------
(* Two administrators and two commands, one server.                           *)
EXTENDS SyncAdmin
CONSTANTS a1, a2
MCAdmins == {a1, a2}
=============================================================================
