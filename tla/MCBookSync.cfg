CONSTANTS
  a = a
  b = b
  Markets = {a, b}
  Backpressure = TRUE
  MaxPerCommand = 1
  Faults = {"lost delta", "lost snapshot", "replay", "refusal", "crossed snapshot"}
  MaxCount = 1
  MaxDeltas = 2
  MaxFaults = 2
  MaxGroups = 1
  MaxConns = 1
SPECIFICATION Spec
SYMMETRY MarketSymmetry
CHECK_DEADLOCK FALSE
INVARIANTS
  TypeOK
  FreshBooksTrue
  FreshMeansCarried
  IdleMeansApplied
