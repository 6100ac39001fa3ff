\* Two sheets, one long advance of 5 cents in two instalments (3, then 2) or of
\* one cent, which HR may rewrite and adjust; its employee may leave and return.
CONSTANTS
  p1 = p1  p2 = p2  e1 = e1  e2 = e2  s1 = s1  s2 = s2  a1 = a1  a2 = a2  d1 = d1
  None = None
  Payrolls = {p1, p2}
  Employees = {e1}
  Shorts = {}
  Longs = {a1}
  Deds = {}
  Owner <- MCOwner
  Amount <- MCAmount
  ShortDue <- MCShortDue
  LongDue <- MCLongDue
  DedDue <- MCDedDue
  Totals = {1, 5}
  Counts = {2}
  MaxTotal = 5
  HandTotals = {0}
  HandKinds = {}
  Leavers = {e1}
  Edited = {p1}
SPECIFICATION Spec
INVARIANTS
  BalanceKept
  LinesAgree
PROPERTIES
  ImplementsLoanBook
