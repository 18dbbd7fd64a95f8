SPECIFICATION Spec
CONSTANTS
  Clients = {c1, c2}
  Rows = {"out1", "out2", "out3", "bad", "in"}
  Merchant <- MCMerchant
  Flow <- MCFlow
  Files <- MCFiles
  Alike <- MCAlike
  Keyword <- MCKeyword
  Accounts = {"5200", "5900"}
  None = None
  MaxTxs = 3
  MaxBatches = 2
  MaxMemories = 2
SYMMETRY Symmetry
CHECK_DEADLOCK FALSE
INVARIANTS PendingExplained ImportedOnce OneRuleEach
PROPERTIES LearnedIsUsed
