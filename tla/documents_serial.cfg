SPECIFICATION Spec
CONSTANTS
  Requests = {r1, r2, r3, r4, r5}
  Files = {f1}
  Codes = {"missing_amount", "personal_business_ambiguous"}
  None = None
  Serial = TRUE
SYMMETRY Symmetry
CHECK_DEADLOCK FALSE
INVARIANTS TypeOK DuplicatesSurfaced OneCandidate ApprovedIsDrafted
