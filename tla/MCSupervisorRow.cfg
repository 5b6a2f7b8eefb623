CONSTANTS
  Limit = 1
  MaxDoubles = 1
  MaxConns = 3
SPECIFICATION Spec
CHECK_DEADLOCK FALSE
INVARIANT
  RaisesInARow
