CONSTANTS
  Market <- MCMarket
  Category <- MCCategory
  Groups <- MCGroups
  Floor = 1
  Horizon = 99
  MaxL2 = 2
  BookConns = 2
  GroupSize = 1
  Refresh = 3
  Retry = 1
  CloseDelay = 1
  Debounce = 1
  MinInterval = 1
  MaxFollowUps = 1
  OpenAtStart = {1, 3}
  Closes = {2, 4}
  MaxNow = 4
  MaxChanges = 2
  MaxFaults = 1
SPECIFICATION Spec
INVARIANTS TypeOK NothingOverslept CarriedOnce 
CHECK_DEADLOCK FALSE
