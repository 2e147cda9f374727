SPECIFICATION Spec
CONSTANTS
  Capacity <- MCCapacity
  MaxEvents <- MCEvents44
  PageCapacity = 4
  MotorPorts = 1
  SettlementWidth = 2
  LearningWidth = 1
  MaxSpan = 2
  Resident = FALSE
  SteppedReturns = TRUE
INVARIANTS
  TypeOK
  HeardInOrder
PROPERTIES
  SpanDrainsIngress
  ImplementsLedger
