SPECIFICATION FairSpec
CONSTANTS
  Sessions = {s1, s2}
  Tabs = {t1}
  Writers = {w1}
  MaxCalls = 2
  None = None
  MaxRetries = 1
  MaxRequests = 2
  MaxFaults = 1
  MaxPosts = 2
INVARIANTS
  TypeOK
  CallerShownTrue
  GivenRequestIsCurrent
  VerifiedThroughOwnRequest
PROPERTIES
  PostingEnds
  PresentPageSettles
CHECK_DEADLOCK FALSE
