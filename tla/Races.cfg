CONSTANTS
  p1 = p1
  p2 = p2
  e1 = e1
  s1 = s1
  l1 = l1
  c1 = c1
  c2 = c2
  None = None
  Payrolls = {p1, p2}
  Employees = {e1}
  Shorts = {s1}
  Longs = {l1}
  Calls = {c1, c2}
  Owner <- AllOfOne
  Instalments = 1
  Edited = {p1}
SPECIFICATION OneDueSpec
SYMMETRY Symmetry
INVARIANTS
  CountedIsHeld
  PaidOnce
  DoneIsPaid
  RemovedStayAway
PROPERTIES
  ConfirmedKept
CONSTRAINT NoAccident
