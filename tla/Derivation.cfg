SPECIFICATION SiteSpec
CONSTANTS
  Size = 3
  Inputs <- MCInputs
  Key <- MCKey
  slugFor <- MCSlug
INVARIANTS
  ValidatedDerivesAlike
  SiteIsWhole
PROPERTIES
  ContractSpec
CHECK_DEADLOCK FALSE
