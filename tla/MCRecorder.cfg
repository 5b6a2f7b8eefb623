CONSTANTS
  Limit = 2
  MaxDoubles = 1
  MaxConns = 4
SPECIFICATION RecSpec
CHECK_DEADLOCK FALSE
INVARIANTS
  TypeOK
  TapeComplete
  EndsForCause
PROPERTY
  StopAnswered
