SPECIFICATION Spec
CONSTANTS
  Tabs = {t1, t2}
  None = None
  Mangled = Mangled
INVARIANTS
  LandingLinkHolds
