CONSTANTS
  q1 = q1  lmid = lmid
  Query = {q1}
  Lmid = lmid
  BufferCap = 3
  MaxCommits = 2
  MaxTroubles = 1
  MaxDown = 2
SPECIFICATION FairSpec
PROPERTY EventuallyCurrent
CHECK_DEADLOCK FALSE
