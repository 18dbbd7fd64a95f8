SPECIFICATION Spec
CONSTANTS
  Requests = {r1, r2, r3, r4, r5, r6}
  Accounts = {cash, receivable, payable, revenue, expense}
  Cash = cash
  Receivable = receivable
  Payable = payable
  Revenue = revenue
  Expense = expense
  None = None
  Kinds = {"invoice", "bill"}
  Amounts = {0, 1, 2}
  Serial = TRUE
SYMMETRY Symmetry
CHECK_DEADLOCK FALSE
INVARIANTS TypeOK ControlAgrees EveryEntryClaimed
PROPERTIES LedgerSpec ImplementsSettlement
