CONSTANTS
  r1 = r1
  r2 = r2
  a1 = a1
  a2 = a2
  c1 = c1
  c2 = c2
  e1 = e1
  None = None
  Requests = {r1, r2}
  Advances = {a1, a2}
  Employees = {e1}
  Calls = {c1, c2}
  Amounts = {1}
  Entitled <- OneLimit
  Enforce = TRUE
SPECIFICATION Spec
SYMMETRY Symmetry
INVARIANTS
  ApprovedNamesItsGrant
  NoGrantBeforeBranch
  GrantedOnce
  NothingMissed
