SPECIFICATION FairSpec
CONSTANTS
  Hours <- MCHours
  Names <- MCNames
  Tables <- MCTables
  Grace = 0
  Retention = 1
  MaxNow = 3
  MaxFiles = 2
  MaxRecords = 2
  MaxBack = 1
  MaxTroubles = 1
CHECK_DEADLOCK FALSE
INVARIANTS TypeOK GoneIsRecorded
PROPERTIES Implements BakedAgain
