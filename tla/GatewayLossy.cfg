SPECIFICATION Spec
CONSTANTS
  Session = {s1, s2}
  Answer = {a1, a2}
  SourceCapacity = 2
  MaxRows = 3
  MaxAttempts = 3
  Losses = TRUE
  WorkBound = TRUE
SYMMETRY Symmetry
INVARIANTS TypeOK SettledOnceInOrder PassedIsHeard DeliveredIsDurable
CHECK_DEADLOCK FALSE
