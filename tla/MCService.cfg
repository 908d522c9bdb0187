SPECIFICATION FairSpec
CONSTANTS
  alice = alice
  bob = bob
  m1 = m1
  m2 = m2
  Users = {alice, bob}
  Ids = {m1}
  Room = Room
  NoMsg = NoMsg
  NoId = NoId
  Free = Free
  ClearUp = ClearUp
  TTL = 2
  MaxRetry = 1
  RetryInterval = 1
  MaxTime = 2
  LastSendTime = 0
  Faults = {"router", "store"}
INVARIANT HeardIsStored
INVARIANT OneVerdict
INVARIANT SentBeforeVerdict
INVARIANT DeliveredWasReceived
PROPERTY UsesPender
PROPERTY SenderHears
PROPERTY ReaderReturns
PROPERTY Settled
