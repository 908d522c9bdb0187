SPECIFICATION FairSpec
CONSTANTS
  r1 = r1
  r2 = r2
  r3 = r3
  r4 = r4
  Rows = {r1, r2, r3, r4}
  Limit = 2
  MaxTime = 2
CHECK_DEADLOCK FALSE
INVARIANT NoRepeat
INVARIANT Complete
PROPERTY PagingEnds
