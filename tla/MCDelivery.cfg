SPECIFICATION FairDeliverySpec
CONSTANTS
  alice = alice
  i1 = i1
  i2 = i2
  k1 = k1
  k2 = k2
  m = m
  None = None
  Group = Group
  Users = {alice}
  Instances = {i1, i2}
  Conns = {k1, k2}
  Ids = {m}
  MaxRetry = 1
  Msgs <- Frames
  Settings <- OrderlySettings
INVARIANT ShownAtMost
PROPERTY ImplementsMailbox
PROPERTY UsesGateway
PROPERTY Reaches
PROPERTY Accounted
