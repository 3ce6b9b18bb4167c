SPECIFICATION Spec

CONSTANTS
  alice = alice
  bob = bob
  carol = carol
  malformed = malformed
  Addresses <- MCAddresses
  ValidAddresses <- MCValidAddresses
  Amounts <- MCAmounts
  CapPercent = 30
  MaxSupply = 10

INVARIANTS
  TypeOK
  SupplyIsSumOfBalances
  HoldersCanAlwaysBurn
  HeadroomIsExact
  ReportedRatioBracketsCap

PROPERTIES
  JuniorMintSpendsHeadroom
  OnlySeniorBurnBreachesCap
  ImplementsTranches
