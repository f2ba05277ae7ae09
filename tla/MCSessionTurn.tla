---------------------------- MODULE MCSessionTurn ----------------------------
(* Two jobs in flight, one question, a few entries and commands.             *)
EXTENDS SessionTurn
=============================================================================
