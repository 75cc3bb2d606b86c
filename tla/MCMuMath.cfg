CONSTANTS
  Commands = {p1, p2}
  Versions = {v1, v2}
  Identity = id
  None = None
  Size = 3
  Label <- MCLabel
  Source <- MCSource
  Batches = {1, 3}
  MaxCommands = 3
SPECIFICATION Spec
INVARIANTS
  TypeOK
  LedgerResumable
  ExitZeroIsComplete
  SummaryTrue
  InconclusiveIsIncorrect
SYMMETRY MCSymmetry
CHECK_DEADLOCK FALSE
