CONSTANTS
  Methods <- MCMethods
  Scorers = {"numeric", "bridge", "strict", "judge"}
  None = None
SPECIFICATION Spec
INVARIANTS
  TypeOK
  PolicyFits
  OnlyInfrastructureStops
  FailureNotRecorded
  UsageComplete
  CutAnswerNotCredited
CHECK_DEADLOCK FALSE
