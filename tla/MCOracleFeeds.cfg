SPECIFICATION Spec

CONSTANTS
  Weights <- MCWeights
  EnergyReports <- MCEnergy
  AdoptionReports <- MCAdoption
  HashrateReports <- MCHashrate
  FeeReports <- MCFees
  CacheTtl = 2
  MaxAge = 1
  ClockRange = 1000
  ClockSteps <- MCSteps
  MaxTime = 3

INVARIANTS
  TypeOK
  CacheIsCurrent
  HealthyFeedsAnswer

PROPERTY
  ImplementsIndexService
