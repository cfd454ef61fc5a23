SPECIFICATION FairSpec
CONSTANTS
  Transfer = {1, 2, 3, 4, 5}
  MaxBlock = 3
  BlockOf <- MCBlockOf
  UserOf <- MCUserOf
  PairOf <- MCPairOf
  DayOf <- MCDayOf
  IdOf <- MCIdOf
  Symbiosis = {"symbiosis"}
  BtcReceivers <- MCBtcReceivers
  MaxInterrupts = 2
INVARIANTS
  TypeOK
  PaidOncePerCut
  PassedMeansPaid
  PlacesDiffer
  FlaggedMeansBridged
PROPERTIES
  TransferIsPassed
