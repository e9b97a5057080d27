SPECIFICATION MCSpec
CONSTANTS
  c1 = c1
  c2 = c2
  w1 = w1
  w2 = w2
  p1 = p1
  p2 = p2
  p3 = p3
  None = None
  Posts = {p1, p2, p3}
  Concepts = {c1, c2}
  Walks = {w1, w2}
  StopsOf <- MCStopsOf
  Cap = 1
  LastDay = 1
  MaxDeploys = 1
INVARIANTS
  IInv
  BudgetHeld
  DayHoldsAtMostTwoBudgets
PROPERTIES
  SettledTrailStable
  LedgerSpec
  EveryRequestEnds
CHECK_DEADLOCK FALSE
