SPECIFICATION WsFairSpec
CONSTANTS
  alice = alice
  bob = bob
  m1 = m1
  m2 = m2
  m3 = m3
  Users = {alice, bob}
  Ids = {m1, m2}
  Room = Room
  NoMsg = NoMsg
  NoId = NoId
  Free = Free
  ClearUp = ClearUp
  TTL = 2
  MaxRetry = 1
  RetryInterval = 1
  MaxTime = 2
  LastSendTime = 0
  Faults = {}
PROPERTY AckDelivers
