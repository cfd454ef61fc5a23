SPECIFICATION Spec
CONSTANTS
  Transfer = {1, 2, 3, 4, 5}
  MaxBlock = 3
  BlockOf <- MCBlockOf
  UserOf <- ApartUserOf
  PairOf <- MCPairOf
  DayOf <- MCDayOf
  IdOf <- MCIdOf
  Symbiosis = {"symbiosis"}
  BtcReceivers <- MCBtcReceivers
  MaxInterrupts = 1
INVARIANTS
  TotalsMatchLedger
