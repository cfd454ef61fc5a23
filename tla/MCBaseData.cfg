SPECIFICATION Spec
CONSTANTS
  User = {"u", "v"}
  MaxBlock = 2
  Depositors <- MCDepositors
  Handler = {1, 2}
  MaxFaults = 2
INVARIANTS
  TypeOK
  FirstDepositIsEarliest
PROPERTIES
  EveryBlockIsPassed
CHECK_DEADLOCK FALSE
