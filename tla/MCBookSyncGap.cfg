CONSTANTS
  a = a
  b = b
  Markets = {a, b}
  Backpressure = FALSE
  MaxPerCommand = 2
  Faults = {"lost delta", "lost snapshot"}
  MaxCount = 1
  MaxDeltas = 3
  MaxFaults = 2
  MaxGroups = 0
  MaxConns = 1
SPECIFICATION Spec
CHECK_DEADLOCK FALSE
INVARIANT GapStalesEveryBook
