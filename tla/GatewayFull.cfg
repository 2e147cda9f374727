SPECIFICATION Spec
CONSTANTS
  Session = {s1, s2}
  Answer = {a1}
  SourceCapacity = 1
  MaxRows = 3
  MaxAttempts = 2
  Losses = FALSE
  WorkBound = FALSE
INVARIANTS HeardOnce
CHECK_DEADLOCK FALSE
