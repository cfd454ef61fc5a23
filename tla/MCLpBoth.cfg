SPECIFICATION FairSpec
CONSTANTS
  snap1 = snap1
  snap2 = snap2
  range = range
  idle = idle
  transfer = transfer
  gate = gate
  u = u
  p1 = p1
  p2 = p2
  User = {u}
  Pair = {p1, p2, gate}
  Block = {1, 2}
  TvlJob = {snap1, snap2}
  TxJob = {range, idle}
  Transfer = {transfer}
  RowsOf <- SamePair
  PromptCommit = FALSE
  MaxCrashes = 1
  MaxFailures = 1
INVARIANTS
  TypeOK
  CreditedAtMostOnce
  DoneMeansPaid
  TotalsExplained
PROPERTIES
  LoadedJobIsPaid
CHECK_DEADLOCK FALSE
