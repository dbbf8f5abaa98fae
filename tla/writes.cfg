CONSTANTS
  d = d
  n1 = n1
  n2 = n2
  Requests = {r1, r2, r3}
  Kinds = {"changeset", "revert", "push", "rename", "purge", "archive", "unarchive", "delete", "restore"}
  Docs = {d}
  Names = {n1, n2}
  Plain = Plain
  Absent = Absent
  Changesets <- ReadmeChangesets
  NoOne = NoOne
  MaxCrashes = 1
SYMMETRY Symmetry
SPECIFICATION Spec
INVARIANT TypeOK
INVARIANT HeadIsStable
INVARIANT OnlyNamedPathsChange
INVARIANT ChangesetOnItsBase
INVARIANT ErasedStaysErased
 
 
 
 
 
