SPECIFICATION ShareSpec
CONSTANTS
  Staker = {"u", "v"}
  Pools <- MCPools
  Holders <- MCHolders
  LastBlock = 2
  Run = {1, 2}
  MaxHours = 3
  PageSize = 1
  MaxFaults = 1
INVARIANTS
  ShareTypeOK
  SumIsHistory
PROPERTIES
  StakedCatchesUp
CHECK_DEADLOCK FALSE
