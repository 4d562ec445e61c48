SPECIFICATION FairSpec
CONSTANTS
  Sessions = {s1}
  session = s1
  Callbacks = {c1}
  Polls = {p1}
  MaxOverwrites = 0
  MaxLostPushes = 0
  MaxDrops = 1
  MaxLoads = 1
PROPERTIES
  VerifiedPageTold
CHECK_DEADLOCK FALSE
