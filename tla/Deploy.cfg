SPECIFICATION FairSpec
CONSTANTS
  a = a
  b = b
  Ids = {a, b}
  Commits = 4
  GraphOf <- Swap
  MaxFailures = 2
INVARIANTS
  PublishedExactly
  GreenMeansConverged
PROPERTIES
  ReleaseSpec
  Converges
CHECK_DEADLOCK FALSE
