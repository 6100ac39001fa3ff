\* The documented claim this cfg checks does not hold: see the findings in README.md.
\* One employee is archived, restored and loses its row to a newcomer.
CONSTANTS
  e1 = e1
  e2 = e2
  c1 = c1
  b1 = b1
  k1 = k1
  None = None
  Employees = {e1, e2}
  Codes = {c1}
  Bids = {b1}
  Calls = {k1}
  MaxEdits = 2
SPECIFICATION Spec
SYMMETRY Symmetry
CHECK_DEADLOCK FALSE
INVARIANTS
  TakesArchived
