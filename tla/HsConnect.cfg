SPECIFICATION FairSpec
CONSTANTS
  Clients = {c1}
  NumServers = 2
  PSNs = {1, 2}
  Faults = TRUE
INVARIANTS TypeOK MutuallyJoined ShardsInPlace CloseReleases
PROPERTIES ConnectReturns HandlerSettles
CHECK_DEADLOCK FALSE
