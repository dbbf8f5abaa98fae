CONSTANTS
  Handlers = {h1, h2}
  Users = {u1, u2}
  Nobody = Nobody
  Lease = 2
  MaxDelay = 1
  MaxTime = 5
  MaxSwallowed = 1
SYMMETRY Symmetry
SPECIFICATION Spec
INVARIANT TypeOK
INVARIANT LeaseHonoured
PROPERTY ExpiredNeverBlocks
