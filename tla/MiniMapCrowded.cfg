SPECIFICATION Spec
CONSTANTS
  MaxColumn = 5
  MaxRow = 5
INVARIANTS
  EveryDotCanBePointedAt
CHECK_DEADLOCK FALSE
