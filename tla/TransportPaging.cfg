SPECIFICATION FairSpec
CONSTANTS
  Capacity <- MCTightCapacity
  MaxEvents <- MCEvents11
  PageCapacity = 2
  MotorPorts = 1
  SettlementWidth = 1
  LearningWidth = 1
  MaxSpan = 1
  Resident = TRUE
  SteppedReturns = FALSE
PROPERTIES
  SealedPageReturns
