CONSTANTS
  root = root
  a1 = a1
  a2 = a2
  Requests = {r1, r2}
  Ids = {root, a1, a2}
  Admins = {root, a2}
  Name <- TwoNames
  Sessions = {s1, s2}
  Resets = {t1}
  Nobody = Nobody
  MaxPasswords = 3
SYMMETRY Symmetry
SPECIFICATION Spec
INVARIANT TypeOK
INVARIANT NothingOutlivesItsUser
 
INVARIANT AdminsStay
PROPERTY TokenIsOneTime
