SPECIFICATION PartnerSpec
CONSTANTS
  Partner = {1, 2}
  Program = {1, 2}
  BankSize = 1
  JointSize = 2
  TicketLife = 1
  MaxTickets = 3
  MaxTurns = 4
INVARIANTS
  RoleOutlivesSave
CHECK_DEADLOCK FALSE
