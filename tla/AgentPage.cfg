SPECIFICATION FairSpec
CONSTANTS
  Sessions = {s1}
  session = s1
  Callbacks = {c1, c2}
  Polls = {p1, p2}
  MaxOverwrites = 1
  MaxLostPushes = 1
  MaxDrops = 1
  MaxLoads = 2
INVARIANTS
  TypeOK
  ShownIsTrue
  OneVerdictShown
PROPERTIES
  PollingPageTold
  
CHECK_DEADLOCK FALSE
