SPECIFICATION WorkbenchSpec
SYMMETRY Symmetry
CONSTANTS
  s1 = s1
  s2 = s2
  s3 = s3
  x1 = x1
  x2 = x2
  y1 = y1
  y2 = y2
  n1 = n1
  n2 = n2
  retained = retained
  branch = branch
  Source = {s1, s2, s3}
  Edit = {x1, x2}
  Site = {n1, n2}
  Extent <- MCExtent
  Fit <- MCFit
  MaxExperiences = 4
  MaxActions = 1
  ActionLife = 1
  MaxOpaqueTick = 2
  Witness = {x1, x2}
  Command = {1, 2}
  Allowance = 2
  Units = 2
  ProbeHorizon = 2
  MaxEvents = 4
  MaxEpoch = 2
  MaxClock = 3
  SaveBy = 2
  MaxRestores = 1
  Ports = 2
  EgressRing = 2
  EfferenceRing = 3
  PageRecords = 4
  MotorExtent = 2
  MaxMotorTick = 3
  MaxPages = 1
  Sitter = {retained, branch}
  Retained = retained
  Byte = {x1, x2}
  StageRing = 1
  HotPage = 1
  ArchivePages = 2
  MaxContacts = 3
  MaxFailures = 1
  Turns = 3
  Surfaces = 3
  SurfaceBytes = 2
  Shell = {x1, x2}
  MaxHeard = 2
  MaxBirths = 3
  Partner = {1}
  Program = {1, 2}
  BankSize = 1
  JointSize = 2
  TicketLife = 2
  MaxTickets = 2
  MaxTurns = 3
  Talk = {x1, x2}
  Surface = {y1, y2}
  ReceiptBank = 2
  RecentBank = 1
  MaxActs = 2
INVARIANTS
  OpaqueRestorable
  NothingRestsOnWithdrawn
  PendingAnswerable
  EvidenceIsCurrent
  ClockCoversApplications
  WaitIsBounded
  ReadInOrder
  AccountsAgree
  CopiesMatch
  ChainDurable
  SavedCanHear
  DeliveredOnce
  WholeSurfaces
  WriterExtendsSaved
  ProvenanceMatches
  OwnedAsSpoken
  ReturnedOnce
  TicketsOutliveSave
  CreditedOnce
  ContinuationEarned
PROPERTIES
  CreditHasOneCause
  SavedByItsSitting
  WaitsItsTurn
CHECK_DEADLOCK FALSE
