SPECIFICATION ReportsSpec
CONSTANTS
  Chart <- MCChart
  Manual <- MCManual
  Totals = {2}
  Amounts = {1, 2}
  Days = {30, 31, 95}
  MonthLength = 30
  NoSnapshot = NoSnapshot
  MaxEntries = 3
  MaxDocs = 1
  MaxSnapshots = 1
CHECK_DEADLOCK FALSE
INVARIANTS ReportsAgree SubledgersAgree SnapshotsExplained
