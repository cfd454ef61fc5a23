SPECIFICATION Spec
CONSTANTS
  snap1 = snap1
  snap2 = snap2
  range = range
  idle = idle
  transfer = transfer
  gate = gate
  u = u
  p1 = p1
  p2 = p2
  User = {u}
  Pair = {p1, p2, gate}
  Block = {1, 2}
  TvlJob = {snap1, snap2}
  TxJob = {range}
  Transfer = {}
  RowsOf <- Apart
  PromptCommit = TRUE
  MaxCrashes = 0
  MaxFailures = 0
INVARIANTS
  TotalsMatchLedger
CHECK_DEADLOCK FALSE
