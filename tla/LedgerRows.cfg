\* One employee, two sheets, a short advance and a deduction.
CONSTANTS
  p1 = p1  p2 = p2  e1 = e1  e2 = e2  s1 = s1  s2 = s2  a1 = a1  a2 = a2  d1 = d1
  None = None
  Payrolls = {p1, p2}
  Employees = {e1}
  Shorts = {s1}
  Longs = {}
  Deds = {d1}
  Owner <- MCOwner
  Amount <- MCAmount
  ShortDue <- MCShortDue
  LongDue <- MCLongDue
  DedDue <- MCDedDue
  Totals = {1}
  Counts = {1}
  MaxTotal = 10
  HandTotals = {0}
  HandKinds = {"short"}
  Leavers = {}
  Edited = {p1, p2}
SYMMETRY Symmetric
SPECIFICATION Spec
INVARIANTS
  ReservedIffOnSheet
  DeductedOnFinalSheet
  DeductionsConsistent
  LinesAgree
PROPERTIES
  ConfirmedRowsFrozen
  ExcludedStayOff
