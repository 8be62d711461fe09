SPECIFICATION ApartSpec
CONSTANTS
  Workers = {w1, w2}
  NumServers = 2
  Keys = {0, 1}
  Ops <- MCOps
  Hash <- MCHash
  BatchSize = 2
  MaxRounds = 1
  MaxBroken = 1
  Breakable = {0}
  Reporting = {0}
  WordSize = 16
INVARIANTS CountsAgree ReportsAddUp
PROPERTIES ClientEnds ImplementsBatchStore
CHECK_DEADLOCK FALSE
