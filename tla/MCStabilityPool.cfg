SPECIFICATION PoolSpec

CONSTANTS
  Allocation = 58
  FeeAmounts <- MCFeeAmounts
  CutShort <- MCCutShort
  ProceedsAmounts <- MCProceeds
  BuybackAmounts <- MCBuybacks
  PoolPrices <- MCPrices
  MaxFees = 106
  MaxProceeds = 6

INVARIANTS
  PoolTypeOK
  PoolKeepsItsShare
