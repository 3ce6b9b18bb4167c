SPECIFICATION Spec

CONSTANTS
  IcrMinimum = 200
  McrTrigger = 150
  MintFeeBps = 200
  CapPercent = 30
  DurationMinutes = 2
  EndPrice = 85
  PriceUnit = 4
  Markets <- MCMarketsLow
  MintAmounts <- MCMintAmounts
  BurnAmounts <- MCBurnAmounts
  KasAmounts <- MCKasAmounts
  Bids <- MCBids
  Minute = 1
  ClockRange = 1000
  ClockSteps <- MCForward
  MaxVaults = 1
  MaxDebt = 51
  MaxCollateral = 140
  MaxTime = 3
  MaxAuctions = 2

INVARIANT
  RunningAuctionsCanBeWon

CHECK_DEADLOCK FALSE
