-------------------------- MODULE MCProjectReaders --------------------------
(* Small instances of ProjectReaders, and of SearchIndex within it, for TLC. *)
EXTENDS ProjectReaders, TLC

Symmetry == Permutations(Workers) \cup Permutations(Paths) \cup Permutations(Texts)
============================================================================
