---------------------------- MODULE MCLedgerFeed ----------------------------
(* Small instances of LedgerFeed for TLC. *)
EXTENDS LedgerFeed, TLC

Symmetry == Permutations(Clients)
=============================================================================
