CONSTANTS
  Requests = {r1, r2, r3}
  Keys = {k1}
  NoKey = NoKey
  Payloads = {p1, p2}
  DryRuns = {FALSE, TRUE}
  MaxRevision = 3
  MaxCrashes = 1
SYMMETRY Symmetry
SPECIFICATION Spec
INVARIANT TypeOK
INVARIANT NoDuplicateCommit
INVARIANT ReplaysAgree
INVARIANT TruthfulRecords
