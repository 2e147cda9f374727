SPECIFICATION FairSpec
CONSTANTS
  Session = {s1, s2}
  Answer = {a1, a2}
  SourceCapacity = 2
  MaxRows = 5
  MaxAttempts = 3
  Losses = FALSE
  WorkBound = FALSE
PROPERTIES PostedIsAnswered
CHECK_DEADLOCK FALSE
