SPECIFICATION MotorSpec
CONSTANTS
  Ports = 2
  EgressRing = 2
  EfferenceRing = 4
  PageRecords = 4
  MotorExtent = 2
  MaxMotorTick = 3
  MaxPages = 1
INVARIANTS
  SealedPageFolds
CHECK_DEADLOCK FALSE
