SPECIFICATION Spec
CONSTANTS
  Workers = {w1}
  NumServers = 2
  Keys = {0, 1}
  Ops <- MCOps
  Hash <- MCHash
  BatchSize = 2
  MaxRounds = 3
  MaxBroken = 2
  Breakable = {0, 1}
  Reporting = {}
  WordSize = 16
PROPERTIES ServedOnce ImplementsBatchStore
CHECK_DEADLOCK FALSE
