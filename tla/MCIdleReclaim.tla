---------------------------- MODULE MCIdleReclaim ----------------------------
(* Small instances of IdleReclaim for TLC. *)
EXTENDS IdleReclaim, TLC

Symmetry == Permutations(Sockets) \cup Permutations(Conversations)
=============================================================================
