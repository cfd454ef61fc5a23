CONSTANTS
  Hour = 4
  Expiration = 1
  Attempts = 2
  MaxTime = 9
  Phase1 = 1712793600
  WithdrawStart = 1715385600
  User = {u, v}
  Now = 3
  Until <- MCUntil
  FailedAt = 1
  FailedUntil = 2
  NoPool = NoPool
  Token = {eth, alt, usd}
  Stablecoin = {usd}
  Eth = eth
  DayLength = 2
  Unnamed = Unnamed
  Vault = vault
  AquaPair = aquaPair
  Tokens = {weth}
  Pair = {p, q}
  NBlocks = 3
  Times = {0, 2}
  Balances = {1, 2}
SPECIFICATION FormulaSpec
INVARIANTS PricesAreRight TablesAgree SharesAddUp StatisticsAgree
