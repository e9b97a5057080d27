SPECIFICATION FairSpec
CONSTANTS
  Pages <- MCPages
  Replies <- MCReplies
  Texts = {"blank", "words"}
  MaxSends = 2
  Nodes <- MCNodes
  Folded <- MCFolded
  Queries <- MCQueries
  Limit = 12
  NearLimit = 4
  Modes = {"overlay", "page"}
  Tabs = {t1, t2}
  Lenses = {"form", "search", "depth"}
INVARIANTS
  AnswersTellTheQueue
  MarkedIsThere
  AddressIsTheQuestion
  NearestAnswerMost
  AddressReopens
PROPERTIES
  EverySendEnds
  FocusNeverDropped
  PreferenceFollows
CHECK_DEADLOCK FALSE
