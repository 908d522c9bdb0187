SPECIFICATION Spec
CONSTANTS
  m1 = m1
  m2 = m2
  stray = stray
  c1 = c1
  c2 = c2
  Free = Free
  ClearUp = ClearUp
  NoId = NoId
  Ids = {m1, m2}
  Callers = {c1, c2}
  AckIds = {m1, m2}
  TTL = 4
  MaxRetry = 2
  RetryInterval = 1
  MaxTime = 5
  LastSendTime = 1
INVARIANT OneOutcome
INVARIANT AtMostOneLateRetry
PROPERTY LostForGood
PROPERTY ImplementsOutcome
PROPERTY RetrySpacing
PROPERTY FailureJustified
SYMMETRY Symmetry
