SPECIFICATION Spec
CONSTANTS
  e1 = e1
  a1 = a1
  Clients = {c1, c2}
  Accounts = {e1, a1, n1}
  Seeded <- MCSeeded
  Plans = {p1}
  Payloads = {{e1}, {s1}}
  Symbols = {s1}
  Days = {1, 2}
  None = None
  Gone = Gone
  MaxRevs = 2
  MaxUsed = 1
SYMMETRY Symmetry
CHECK_DEADLOCK FALSE
INVARIANTS TypeOK LinksHold PeriodsInOrder LinesOfOnePayload
