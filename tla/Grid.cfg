CONSTANTS
  None = None
  w1 = w1
  w2 = w2
  w3 = w3
  m1 = m1
  m2 = m2
  q1 = q1
  v1 = v1
  c1 = c1
  c2 = c2
  Weeks = {w1, w2, w3}
  Months = {m1, m2}
  Days = {1, 2, 3}
  WeekDays <- TheWeeks
  Period = {1, 2}
  Rank <- TheRank
  Requests = {q1, v1}
  Wants <- TheWants
  DaysOf <- TheDays
  Calls = {c1, c2}
SPECIFICATION Spec
SYMMETRY Symmetry
CONSTRAINT FewAccidents
INVARIANTS
  
  NoMarkLeft
  RequestOnGrid
  WeekMergedOnce
CHECK_DEADLOCK FALSE
