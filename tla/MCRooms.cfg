SPECIFICATION Spec
CONSTANTS
  alice = alice
  ghost = ghost
  r1 = r1
  r2 = r2
  c1 = c1
  c2 = c2
  m1 = m1
  None = None
  Users = {alice, ghost}
  Registered = {alice}
  Rooms = {r1, r2}
  Calls = {c1, c2}
  Msgs = {m1}
  Limit = 1
INVARIANT NoStranger
INVARIANT EveryMember
INVARIANT QuotaOverrun
SYMMETRY Symmetry
