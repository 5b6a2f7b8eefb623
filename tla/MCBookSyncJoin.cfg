CONSTANTS
  a = a
  b = b
  Markets = {a, b}
  Backpressure = TRUE
  MaxPerCommand = 2
  Faults = {}
  MaxCount = 1
  MaxDeltas = 0
  MaxFaults = 0
  MaxGroups = 1
  MaxConns = 1
SPECIFICATION Spec
CHECK_DEADLOCK FALSE
INVARIANT OnlyStragglersIgnored
