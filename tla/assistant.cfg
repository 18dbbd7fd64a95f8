SPECIFICATION Spec
CONSTANTS
  Clients = {c1, c2}
  Turns <- MCTurns
  Limit = 1
  Total = 2
  MaxDay = 2
  Texts = {"expense", "business"}
  MaxInbound = 1
  MaxRows = 3
SYMMETRY Symmetry
CHECK_DEADLOCK FALSE
INVARIANTS ActionsExplained ConfirmationsBounded PromptsBounded RepliesExplained
