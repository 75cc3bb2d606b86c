CONSTANTS
  MaxItems = 4
  Widths <- MCWidths
  Outcome <- MCOutcome
SPECIFICATION Spec
INVARIANTS
  TypeOK
  InputOrder
  BoundedLookahead
  Exhaustive
PROPERTIES
  ImplementsDelivery
  ResultArrives
CHECK_DEADLOCK FALSE
