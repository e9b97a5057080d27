SPECIFICATION Spec
CONSTANTS
  c1 = c1
  c2 = c2
  c3 = c3
  math = math
  Tabs = {t1, t2}
  Concepts = {c1, c2, c3}
  Initial = intuition
  Sessions <- MCSessions
  None = None
SYMMETRY TabSymmetry
INVARIANTS
  DepthOnRecord
PROPERTIES
  NothingForgotten
  LandingKeepsOrder
  TrailSpec
