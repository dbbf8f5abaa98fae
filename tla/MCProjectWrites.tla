-------------------------- MODULE MCProjectWrites --------------------------
(* Small instances of ProjectWrites for TLC. *)
EXTENDS ProjectWrites, TLC

CONSTANTS d, n1, n2   \* a document path and project names

Symmetry == Permutations(Requests)

\* Write or delete the document.
DocChangesets == {d :> n1, d :> Absent}

\* Write the document, replace the README by a text without heading, or delete
\* the document and retitle the README.
ReadmeChangesets == {d :> n1, Readme :> Plain, (d :> Absent) @@ (Readme :> n2)}
============================================================================
