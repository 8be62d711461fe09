SPECIFICATION Spec
CONSTANTS
  Clients = {c1}
  NumServers = 2
  PSNs = {1}
  Faults = TRUE
INVARIANT ConnectedMeansReady
CHECK_DEADLOCK FALSE
