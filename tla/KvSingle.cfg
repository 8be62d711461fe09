SPECIFICATION LateSpec
CONSTANTS
  Clients = {c1}
  NumServers = 2
  Keys = {0, 1, 2}
  Tags = {t1, t2}
  Ops = {"Put", "Get", "PutBatch", "GetBatch", "Write"}
  Mixes <- OneMix
  MaxBatch = 2
  SQDepth = 2
  BufCells = 2
  Faults = TRUE
  MaxLate = 0
SYMMETRY TagSymmetry
INVARIANTS PutLanded GetCurrent Ledger
CHECK_DEADLOCK FALSE
