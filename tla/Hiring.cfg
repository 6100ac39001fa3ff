CONSTANTS
  e1 = e1
  e2 = e2
  c1 = c1
  c2 = c2
  b1 = b1
  k1 = k1
  k2 = k2
  a1 = a1
  n1 = n1
  None = None
  Employees = {e1, e2}
  Codes = {c1, c2}
  Bids = {b1}
  Calls = {k1, k2}
  Appts = {a1}
  Nids = {n1}
  MaxEdits = 2
SPECIFICATION HiringSpec
SYMMETRY Symmetry
CHECK_DEADLOCK FALSE
INVARIANTS
  CodeHeldOnce
  OneOwner
  
  
  HiredIsApproved
