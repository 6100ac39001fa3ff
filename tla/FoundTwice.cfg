\* The documented claim this cfg checks does not hold: see the findings in README.md.
\* A line moved to another sheet and the next calculation of the first.
CONSTANTS
  p1 = p1  p2 = p2  e1 = e1  e2 = e2  s1 = s1  s2 = s2  a1 = a1  a2 = a2  d1 = d1
  None = None
  Payrolls = {p1, p2}
  Employees = {e1}
  Shorts = {s1}
  Longs = {}
  Deds = {}
  Owner <- MCOwner
  Amount <- MCAmount
  ShortDue <- MCShortDue
  LongDue <- MCLongDue
  DedDue <- MCDedDue
  Totals = {1}
  Counts = {1}
  MaxTotal = 10
  HandTotals = {0}
  HandKinds = {}
  Leavers = {}
  Edited = {p1, p2}
SPECIFICATION Spec
INVARIANTS
  ShortChargedOnce
