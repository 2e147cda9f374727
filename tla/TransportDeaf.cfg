SPECIFICATION Spec
CONSTANTS
  Capacity <- MCCapacity
  MaxEvents <- MCEvents33
  PageCapacity = 3
  MotorPorts = 1
  SettlementWidth = 1
  LearningWidth = 1
  MaxSpan = 2
  Resident = FALSE
  SteppedReturns = TRUE
INVARIANTS
  ConsumedIsWitnessed
