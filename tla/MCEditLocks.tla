---------------------------- MODULE MCEditLocks ----------------------------
(* Small instances of EditLocks for TLC. *)
EXTENDS EditLocks, TLC

Symmetry == Permutations(Handlers) \cup Permutations(Users)
============================================================================
