SPECIFICATION FairSpec
CONSTANTS
  People = {p1, p2}
  Nobody = Nobody
  None = None
  CacheSize = 1
  MaxRetries = 1
  MaxPosts = 2
  MaxInputs = 2
INVARIANTS
  TypeOK
  ResultsMatchBox
  EnabledForShownCaller
PROPERTIES
  SearchingEnds
  PostingEnds
CHECK_DEADLOCK FALSE
