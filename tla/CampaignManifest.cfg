CONSTANTS
  Commands = {p1, p2}
  Versions = {v1, v2}
  None = None
  NumCells = 1
  Size = 1
  Batches = {1}
  MaxCommands = 2
SPECIFICATION Spec
INVARIANTS
  ProgressResumable
CHECK_DEADLOCK FALSE
