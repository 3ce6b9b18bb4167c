SPECIFICATION Spec

CONSTANTS
  Weights <- MCWeights
  PegThreshold = 10
  DowntimeThreshold = 1
  EnergyReports <- MCEnergy
  AdoptionReports <- MCAdoption
  HashrateReports <- MCHashrate
  FeeReports <- MCFees
  PriceSources <- MCSources
  PriceReports <- MCPrices
  Skews <- MCAhead
  MaxAge = 1
  Minute = 2
  ClockRange = 1000
  MinuteRange = 128
  ClockSteps <- MCSteps
  MaxTime = 4

PROPERTY
  OraclePausesAreJustified
