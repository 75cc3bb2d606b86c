SPECIFICATION Spec
CONSTANTS
  s1 = s1
  s2 = s2
  Small = Small
  Wide = Wide
  Deep = Deep
  None = None
  Searches = {s1, s2}
  Workflows <- MCWorkflows
  Initial = Wide
  Calls <- MCCalls
  Nodes <- MCNodes
  Rounds = 1
  Size = 2
  MaxSearches = 4
INVARIANTS TypeOK AccuracyIsEarned FrozenIsBest ResumableAlone
PROPERTIES FrozenStable
SYMMETRY MCSymmetry
CHECK_DEADLOCK FALSE
