------------------------------ MODULE MCSyncLink ------------------------------
(* One Core, two enrolments, two changes of the shared settings.              *)
EXTENDS SyncLink
=============================================================================
