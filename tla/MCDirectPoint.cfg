SPECIFICATION FairSpec
CONSTANTS
  Addr = {1, 2, 3, 4}
  Block = {1, 2}
  FirstHeld <- MCFirstHeld
  PairAddr = {4}
  AquaVault = 1
  PageLimit = 3
  BatchSize = 1
  MaxCrashes = 1
  MaxErrors = 1
INVARIANTS
  TypeOK
  StakePointWithinLedger
  MissingCreditExplained
  ProcessedMeansPaid
PROPERTIES
  StakePointNeverShrinks
  PromiseSpec
  PricedBlockIsProcessed
