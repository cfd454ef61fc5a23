SPECIFICATION FairSpec
CONSTANTS
  MaxBlock = 4
  LookBack = 1
  MaxCrons = 4
  MaxCrashes = 1
  MaxGaps = 2
INVARIANTS
  PaidOnce
  PendingRangeIsUnpaid
  FinishedRangeIsPaid
  UnpaidIsSkipped
PROPERTIES
  PendingRangeFinishes
CHECK_DEADLOCK FALSE
