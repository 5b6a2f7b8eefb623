CONSTANTS
  Lead = 1
  Settle = 1
  MaxEvents = 2
  Second = 2
  Refill = 3
  Capacity = 3
  Cost = 2
  MaxNow = 3
  MaxValue = 1
  MaxWire = 2
  MaxChanges = 3
  MaxFaults = 1
  MaxRequests = 1
  MaxAudits = 1
SPECIFICATION Spec
CHECK_DEADLOCK FALSE
INVARIANTS
  TypeOK
  VerdictTrue
  NoFalseAlarm
  RequestsPaced
