CONSTANTS
  Handlers = {h1, h2}
  Projects = {p1, p2}
  Names = {a, b}
  NoProject = NoProject
  MaxFailures = 2
  MaxCrashes = 1
SYMMETRY Symmetry
SPECIFICATION Spec
INVARIANT TypeOK
INVARIANT RowKeepsRepo
PROPERTY AnsweredIsGone
