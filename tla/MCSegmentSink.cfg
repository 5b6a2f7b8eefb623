CONSTANTS
  MaxQueue = 1
  MaxSegments = 1
  Hours = {0, 1}
  MaxPuts = 3
  MaxRotates = 2
  MaxCalls = 4
  MaxTroubles = 1
SPECIFICATION FairSpec
INVARIANTS
  TypeOK
  ControlSlotsSuffice
  HolesReported
  TapeOrder
  CountersExact
  DrainedAtEnd
  RotationSeparates
PROPERTIES
  FlushedStaysForever
  DirtyIsFlushed
  CloseEnds
