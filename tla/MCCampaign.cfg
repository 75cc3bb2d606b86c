CONSTANTS
  Commands = {p1, p2}
  Versions = {v1, v2}
  None = None
  NumCells = 2
  Size = 2
  Batches = {1, 2}
  MaxCommands = 3
SPECIFICATION Spec
INVARIANTS
  TypeOK
  OneDirectory
  ExitZeroIsComplete
  SummaryBracketed
  PlanIsMaximum
SYMMETRY MCSymmetry
CHECK_DEADLOCK FALSE
