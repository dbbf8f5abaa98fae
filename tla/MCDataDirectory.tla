-------------------------- MODULE MCDataDirectory --------------------------
(* Small instances of DataDirectory for TLC. *)
EXTENDS DataDirectory, TLC

\* "repos" comes before "xwiki.db".
TwoFiles == <<"repos", "xwiki.db">>

Symmetry == Permutations(Pids)
============================================================================
