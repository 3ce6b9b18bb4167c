SPECIFICATION Spec

CONSTANTS
  DurationMinutes = 4
  EndPrice = 85
  McrTrigger = 150
  PriceUnit = 2
  VaultIds <- MCVaultIds
  VaultStates <- MCVaultStates
  Markets <- MCMarkets
  Bids <- MCBids
  Minute = 2
  ClockRange = 1000
  ClockSteps <- MCForward
  MaxTime = 12
  MaxAuctions = 4

INVARIANTS
  TypeOK
  OneAuctionPerVault

PROPERTIES
  PriceNeverRises
  EndedAuctionsStayEnded
  EndsByBidOrTimeout

CHECK_DEADLOCK FALSE
