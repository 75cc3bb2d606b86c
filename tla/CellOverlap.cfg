CONSTANTS
  MaxItems = 3
  Outcome <- MCOutcome
  Runners = {r1, r2}
  Experiment = {e1}
  Widths <- MCWidths
  BatchSizes <- MCBatchSizes
  MaxInvocations = 3
  None = None
SPECIFICATION Spec
INVARIANTS
  UnfinishedSelectedOnce
CHECK_DEADLOCK FALSE
