SPECIFICATION Spec
CONSTANTS
  r1 = r1
  r2 = r2
  Readers = {r1, r2}
  EdgeTTL <- Edges
  BrowserTTL <- Browsers
  MaxTime = 3
  MaxVersion = 3
SYMMETRY Symmetry
INVARIANTS
  StaleAtMostOneLifetime
  MarksAtMostOneLifetime
CHECK_DEADLOCK FALSE
