SPECIFICATION FairSpec
CONSTANTS
  W = 3
  P = 2
  ShiftA = 1
  ShiftB = 1
  ShiftC = 1
  Records = 3
  Scale = 100
  Zetan = 228
  HalfPow = 171
  Eta = 73
  Alpha = 2
  Workers = {w1, w2}
  BatchSize = 2
  RecordBytes = 2
  MemBytes = 8
  MaxBatches = 2
  Faults = TRUE
INVARIANTS WholeRecords GeneratorAlive CountedTookEffect TotalIsAll
PROPERTIES BenchEnds
CHECK_DEADLOCK FALSE
