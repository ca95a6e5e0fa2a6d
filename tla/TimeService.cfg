CONSTANTS
  Client = {c1, c2, c3}
  Backlog = 1
  Failures = TRUE
SPECIFICATION FairSpec
INVARIANT TypeOK
INVARIANT InTurn
PROPERTY AllServed
CHECK_DEADLOCK FALSE
