CONSTANTS
  a = a
  b = b
  Markets = {a, b}
  HourLength = 3
  SleepLength = 2
  StepLength = 2
  MonoStart = 30
  MonoRestart = 12
  FlushRows = 2
  MaxPartRows = 2
  MaxWall = 5
  MaxTroubles = 2
SPECIFICATION TapeSpec
SYMMETRY MarketSymmetry
CHECK_DEADLOCK FALSE
INVARIANTS
  TapeTypeOK
  AccountedOnce
  GapsResolved
  TimesTrue
  
