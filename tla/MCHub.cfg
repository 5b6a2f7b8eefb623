SPECIFICATION HubSpec
CONSTANTS
  Markets = {m1}
  Prices = {1}
  HighWater = 1
  MaxCount = 1
  MaxTries = 6
  MaxEpochs = 2
  Clients = {c1}
  MaxClients = 1
  MaxTickers = 1
  QueueMax = 2
  LagLimit = 2
  MaxAsks = 2
INVARIANTS TypeOK CopiesFollow KnownAfterCycle ClientsFollow
CHECK_DEADLOCK FALSE
