SPECIFICATION Spec
CONSTANTS
  p1 = p1
  p2 = p2
  p3 = p3
  d1 = d1
  d2 = d2
  c1 = c1
  c2 = c2
  Procs = {p1}
  Dbs = {d1}
  DbOf <- SoleDb
  DryRun = {p1}
  Once = {}
  SourceOf <- File
  BatchSize = 2
  MaxBatches = 0
  Cids = {c1, c2}
  BadCids = {}
  Junk = {}
  Rebroadcast = FALSE
  MaxBatchSize = 2
  Capacity = 3
  MaxMessages = 3
  MaxFaults = 0
INVARIANT NothingSkipped
