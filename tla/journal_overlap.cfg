SPECIFICATION Spec
CONSTANTS
  Requests = {r1, r2, r3, r4, r5}
  a1 = a1
  a2 = a2
  Accounts = {a1, a2}
  None = None
  Payloads <- MCPayloads
  Serial = FALSE
SYMMETRY Symmetry
CHECK_DEADLOCK FALSE
INVARIANTS TypeOK VoidedHasReversal AuditExplains UneditedBooksBalance
