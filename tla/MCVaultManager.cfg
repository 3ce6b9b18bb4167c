SPECIFICATION Spec

CONSTANTS
  IcrMinimum = 200
  McrTrigger = 150
  MintFeeBps = 200
  CapPercent = 30
  PriceUnit = 2
  Markets <- MCMarketsToPar
  MintAmounts <- MCMintAmounts
  BurnAmounts <- MCBurnAmounts
  KasAmounts <- MCKasAmounts
  MaxVaults = 3
  MaxDebt = 204
  MaxCollateral = 140

INVARIANTS
  TypeOK
  DebtCanAlwaysBeCleared

PROPERTIES
  ImplementsTranches
  OnlyPricesEndanger
  CandidatesOnlyImprove
  EnrkMintLeavesMinimum
  ClosedVaultsAreFrozen
