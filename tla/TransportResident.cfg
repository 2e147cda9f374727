SPECIFICATION Spec
CONSTANTS
  Capacity <- MCCapacity
  MaxEvents <- MCEvents42
  PageCapacity = 2
  MotorPorts = 1
  SettlementWidth = 1
  LearningWidth = 1
  MaxSpan = 1
  Resident = TRUE
  SteppedReturns = FALSE
INVARIANTS
  RingOrder
  BoundaryTrusted
  StagingStable
PROPERTIES
  FrontiersAdvance
