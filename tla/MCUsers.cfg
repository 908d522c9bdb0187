SPECIFICATION FairSpec
CONSTANTS
  a1 = a1
  a2 = a2
  e1 = e1
  e2 = e2
  p1 = p1
  r1 = r1
  None = None
  NoAvatar = NoAvatar
  Attempts = {a1, a2}
  Emails = {e1, e2}
  Avatars = {p1}
  Readers = {r1}
INVARIANT OneAccount
INVARIANT AnsweredHasAccount
PROPERTY ProfileTrue
PROPERTY WholeInTheEnd
