SPECIFICATION TopicSpec
CONSTANTS
  MaxChoice = 2
  Direct = {3}
  DailyTickets = 1
  PollLimit = 1
  Days = 2
  MaxTroubles = 1
  Clients <- MCClients
  TicketClients = {"tickets"}
  Obedient = {"neighbour"}
  Keys = {"k1", "k2", "site"}
  HeaderKey <- MCHeaderKey
  TenantOf <- MCTenantOf
  Limit <- MCLimit
  Window = 4
  Second = 2
  LastTick = 9
  MaxCalls <- MCMaxCalls
CHECK_DEADLOCK FALSE
INVARIANTS
  TicketInv
  FieldIsVouched
  RateInv
  ObedientIsServed
PROPERTIES
  VisitorIsTold
