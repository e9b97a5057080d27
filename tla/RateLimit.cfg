SPECIFICATION Spec
CONSTANTS
  Callers = {a, b, c}
  Edges = {e}
  Empty = Empty
  Hops = 1
  MaxForged = 2
  MaxClients = 2
  Burst = 2
  Refill = 3
  Second = 2
  Horizon = 7
INVARIANTS
  CallerLaw
  RetryAfterSuffices
PROPERTIES
  NobodyElsePays
  RecencyHolds
CHECK_DEADLOCK FALSE
