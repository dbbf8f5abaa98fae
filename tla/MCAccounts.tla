----------------------------- MODULE MCAccounts -----------------------------
(* Small instances of Accounts for TLC. *)
EXTENDS Accounts, TLC

CONSTANTS root, a1, a2 \* accounts

\* a2 is an administrator of the name of a1, who has to be deleted first.
TwoNames == [i \in {root, a1, a2} |-> IF i = root THEN "root" ELSE "alice"]

Symmetry == Permutations(Requests) \cup Permutations(Sessions)
=============================================================================
