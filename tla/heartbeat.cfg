SPECIFICATION HeartbeatSpec
CONSTANTS
  Sweep <- OneAlert
  Slots = {s1, s2}
  Reserved = s1
  Users = {u1, u2}
  Rows = {1, 2, 3, 4}
  Nil = Nil
  MaxFailures = 1
INVARIANTS HeartbeatTypeOK AlertsBounded
PROPERTY Reported
