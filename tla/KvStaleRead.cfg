SPECIFICATION LateSpec
CONSTANTS
  Clients = {c1}
  NumServers = 1
  Keys = {0, 1}
  Tags = {t1}
  Ops = {"Put", "Get", "GetBatch"}
  Mixes <- OneMix
  MaxBatch = 3
  SQDepth = 3
  BufCells = 2
  Faults = FALSE
  MaxLate = 2
INVARIANTS GetReadsFromServer
CHECK_DEADLOCK FALSE
