------------------------- MODULE MCInstallTransaction -------------------------
(* Small instances of InstallTransaction for TLC. *)
EXTENDS InstallTransaction, TLC

CONSTANTS r1, r2, r3

\* r1 and r2 share a data format that r3 replaces.
Formats == r1 :> 1 @@ r2 :> 1 @@ r3 :> 2
=============================================================================
