CONSTANTS
  q1 = q1  lmid = lmid
  Query = {q1}
  Lmid = lmid
  BufferCap = 2
  MaxCommits = 2
  MaxTroubles = 2
  MaxDown = 3
SPECIFICATION Spec
INVARIANT ConfirmedWithData
CHECK_DEADLOCK FALSE
