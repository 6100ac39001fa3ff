CONSTANTS
  a1 = a1
  a2 = a2
  m1 = m1
  m2 = m2
  u1 = u1
  l1 = l1
  l2 = l2
  i1 = i1
  i2 = i2
  c1 = c1
  c2 = c2
  None = None
  Advances = {a1, a2}
  Manual = {m1, m2}
  Uploaded = {u1}
  Rows = {l1, l2}
  Records = {i1, i2}
  Calls = {c1, c2}
SPECIFICATION Spec
SYMMETRY Symmetry
INVARIANTS
  PaidOnce
  CancelledLeavesBatch
  NothingLeftBehind
PROPERTIES
  ApprovedOnce
CONSTRAINT FewAccidents
