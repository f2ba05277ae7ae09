----------------------------- MODULE MCCoreStart -----------------------------
(* Small instances of CoreStart for TLC. *)
EXTENDS CoreStart, TLC

Symmetry ==
  Permutations(Callers) \cup Permutations(Cores) \cup Permutations(Revisions)
=============================================================================
