SPECIFICATION FairSpec
CONSTANTS
  None = None
  Url <- MCUrl
  Ref <- MCRef
  Robots <- MCRobots
  EXPLAINER_HOSTS <- MCHosts
  Runs <- MCRuns
  Page <- MCPage
  NoEmbed = {"v1"}
  NoHead = {"a2"}
  PerHost = 2
  Attempts = 3
  Backoff <- MCBackoff
  Cap = 6
  Deadline = 4
  Headers <- MCHeaders
INVARIANTS
  GreenMeansVerified
  OnlyTheGoneAreCondemned
PROPERTIES
  PoolSpec
  Ends
CHECK_DEADLOCK FALSE
