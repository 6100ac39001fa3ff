CONSTANTS
  None = None
  LastDay = 2
  Shifts <- TwoShifts
  Assignments <- TwoAssignments
  Cells <- SomeCells
  Punches <- SomePunches
  Hired = 1
SPECIFICATION Spec
CONSTRAINT Few
INVARIANTS
  RowsAgree
  CheckInOnItsDay
  NoStrayExit
