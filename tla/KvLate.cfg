SPECIFICATION FairLateSpec
CONSTANTS
  Clients = {c1}
  NumServers = 2
  Keys = {0, 1}
  Tags = {t1}
  Ops = {"Send", "Put", "Get", "PutBatch", "GetBatch"}
  Mixes <- LateMixes
  MaxBatch = 3
  SQDepth = 2
  BufCells = 2
  Faults = TRUE
  MaxLate = 2
INVARIANTS TypeOK EnoughToCome
PROPERTIES WedgedForever EveryCallReturns
CHECK_DEADLOCK FALSE
