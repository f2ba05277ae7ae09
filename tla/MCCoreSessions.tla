--------------------------- MODULE MCCoreSessions ---------------------------
(* A small instance of CoreSessions for TLC; the sets are in the cfg.  No     *)
(* symmetry, as a liveness property is checked.                               *)
EXTENDS CoreSessions, TLC
=============================================================================
