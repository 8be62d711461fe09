SPECIFICATION LateSpec
CONSTANTS
  Clients = {c1}
  NumServers = 1
  Keys = {0, 1}
  Tags = {t1}
  Ops = {"PutBatch", "GetBatch"}
  Mixes <- OneMix
  MaxBatch = 3
  SQDepth = 3
  BufCells = 2
  Faults = FALSE
  MaxLate = 2
INVARIANTS PutBatchWaitsForItsWrites
CHECK_DEADLOCK FALSE
