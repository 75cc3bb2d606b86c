CONSTANTS
  MaxItems = 3
  Outcome <- MCOutcome
  Runners = {r1, r2}
  Experiment = {e1, e2}
  Widths <- MCWidths
  BatchSizes <- MCBatchSizes
  MaxInvocations = 3
  None = None
SPECIFICATION Spec
INVARIANTS
  TypeOK
  DatasetOrder
  NoGap
  OneExperiment
  CanGoOn
  SummaryAccounts
PROPERTIES
  CompletedNotRerun
  OnlySuccessRecorded
  ImplementsLedger
SYMMETRY MCSymmetry
CHECK_DEADLOCK FALSE
