SPECIFICATION FairSpec
CONSTANTS
  Order <- ThreeQueues
  Depth <- Slots
  ReportPeriod <- Periods
  Cost = 1
INVARIANTS
  TypeOK
PROPERTIES
  DrainReturns
  SlackHolds
