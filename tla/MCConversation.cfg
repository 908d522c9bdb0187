SPECIFICATION Spec
CONSTANTS
  alice = alice
  bob = bob
  m1 = m1
  m2 = m2
  h1 = h1
  None = None
  Owners = {alice, bob}
  Msgs = {m1, m2}
  Calls = {h1}
CHECK_DEADLOCK FALSE
INVARIANT UnreadExact
INVARIANT RecipientFollows
INVARIANT LastIsLatest
PROPERTY ImplementsUnread
SYMMETRY Symmetry
