SPECIFICATION Spec

CONSTANTS
  IcrMinimum = 200
  McrTrigger = 150
  PriceScale = 2
  FeedValue = 5
  GenesisPrice = 3
  VaultIds = {1, 2}
  VaultStates <- MCVaultStates
  Withdrawals <- MCWithdrawals
  Prices <- MCPrices

PROPERTY
  JudgedAtLatestPrice

CHECK_DEADLOCK FALSE
