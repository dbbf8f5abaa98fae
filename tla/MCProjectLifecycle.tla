------------------------- MODULE MCProjectLifecycle -------------------------
(* Small instances of ProjectLifecycle for TLC. *)
EXTENDS ProjectLifecycle, TLC

\* Names are not interchangeable: Idle holds one of them.
Symmetry == Permutations(Handlers) \cup Permutations(Projects)
=============================================================================
