SPECIFICATION Spec
CONSTANTS
  alice = alice
  bob = bob
  Chosen = Chosen
  None = None
  Users = {alice, bob}
INVARIANT Mutual
PROPERTY ChosenStays
