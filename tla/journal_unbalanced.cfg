SPECIFICATION Spec
CONSTANTS
  Requests = {r1,r2,r3}
  a1 = a1
  a2 = a2
  Accounts = {a1, a2}
  None = None
  Payloads <- MCPayloads
  Serial = FALSE
SYMMETRY Symmetry
CHECK_DEADLOCK FALSE
INVARIANT BooksBalance
