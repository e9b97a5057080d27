SPECIFICATION FairSpec
CONSTANTS
  Nodes <- Corpus
  Words <- Titles
  Stopwords = {"of"}
  Answers <- MCAnswers
  Handles = {"listed"}
  Search = 2
  Videos = 1
  Channels = 1
  Budget = 9
  Attempts = 2
  StopAfter = 2
  MinScore = 350
  Unwatched = 500
  MaxCrashes = 1
  MaxJudgments = 1
INVARIANTS
  SpendingBounded
  OneSearchPerTarget
  ScoreKeepsItsWord
PROPERTIES
  CrashCostsOne
  EveryTargetSearched
CHECK_DEADLOCK FALSE
