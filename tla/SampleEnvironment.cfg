CONSTANTS
  Methods <- MCMethods
  Scorers = {"numeric", "bridge", "strict", "judge"}
  None = None
SPECIFICATION Spec
INVARIANTS
  EnvironmentFailureNotRecorded
CHECK_DEADLOCK FALSE
