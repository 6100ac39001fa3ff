CONSTANTS
  r1 = r1
  r2 = r2
  Runs = {r1, r2}
  MaxTime = 4
  Overlap = 1
  Day = 1
  Month = 4
  Few = 1
  PageSize = 1
  MaxPages = 2
  MaxErrors = 2
  Slice = 1
  Stale = 1
  Fresh = 0
  Periods <- AskedPeriods
SPECIFICATION Spec
SYMMETRY Symmetry
INVARIANTS
  CoverageHolds
  
  OneSyncAtATime
CONSTRAINT FewAccidents
CHECK_DEADLOCK FALSE
