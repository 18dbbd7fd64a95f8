SPECIFICATION Spec
CONSTANTS
  Emails = {o, a}
  Clients = {c1, c2}
  Tokens = {s1, s2}
  None = None
  Roles = {"owner", "viewer"}
  SessionTTL = 1
  InviteTTL = 1
  MaxNow = 1
  MaxTenants = 2
  MaxEntities = 4
  MaxInvites = 2
SYMMETRY Symmetry
CHECK_DEADLOCK FALSE
INVARIANTS TypeOK AcceptedOnce InvitesAndOwnersSettled
PROPERTIES JoinsEveryEntity
