SPECIFICATION LateSpec
CONSTANTS
  Clients = {c1}
  NumServers = 1
  Keys = {0, 1}
  Tags = {t1}
  Ops = {"Put", "Send"}
  Mixes <- OneMix
  MaxBatch = 1
  SQDepth = 2
  BufCells = 1
  Faults = FALSE
  MaxLate = 0
INVARIANTS MemoryIsTheStore
CHECK_DEADLOCK FALSE
