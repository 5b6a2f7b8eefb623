CONSTANTS
  a = a
  b = b
  Markets = {a, b}
  Backpressure = FALSE
  MaxPerCommand = 2
  Faults = {"lost delta", "replay"}
  MaxCount = 1
  MaxDeltas = 2
  MaxFaults = 1
  MaxGroups = 1
  MaxConns = 1
SPECIFICATION FairSpec
CHECK_DEADLOCK FALSE
PROPERTY BooksRecover
