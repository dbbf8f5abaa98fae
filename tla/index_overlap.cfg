CONSTANTS
  Workers = {w1, w2}
  Paths = {p1, p2}
  Texts = {t1, t2}
  Binaries = {b1}
  NoFile = NoFile
  MaxRevision = 2
  MaxSwallowed = 1
  MaxCrashes = 1
  Sub = {p1, p2}
SYMMETRY Symmetry
SPECIFICATION ReadSpec
INVARIANT ReadTypeOK
 
 
INVARIANT DirtyHasWorker
PROPERTY ReindexRepairs
PROPERTY DocumentsStaySearchable
