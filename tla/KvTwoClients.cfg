SPECIFICATION LateSpec
CONSTANTS
  Clients = {c1, c2}
  NumServers = 1
  Keys = {0, 1}
  Tags = {t1}
  Ops = {"Put", "Get", "PutBatch", "GetBatch"}
  Mixes <- ClientMixes
  MaxBatch = 2
  SQDepth = 2
  BufCells = 2
  Faults = TRUE
  MaxLate = 1
SYMMETRY ClientSymmetry
INVARIANTS KeyIntegrity ReadIntegrity
PROPERTIES ImplementsKvStore
CHECK_DEADLOCK FALSE
