SPECIFICATION FairSpec
CONSTANTS
  m1 = m1
  m2 = m2
  stray = stray
  c1 = c1
  c2 = c2
  Free = Free
  ClearUp = ClearUp
  NoId = NoId
  Ids = {m1, m2}
  Callers = {c1, c2}
  AckIds = {m1}
  TTL = 4
  MaxRetry = 2
  RetryInterval = 1
  MaxTime = 4
  LastSendTime = 0
PROPERTY ForcedCleanUp
