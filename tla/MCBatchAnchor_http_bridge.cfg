SPECIFICATION FairSpec
CONSTANTS
  p1 = p1
  p2 = p2
  p3 = p3
  d1 = d1
  d2 = d2
  c1 = c1
  Procs = {p1}
  Dbs = {d1}
  DbOf <- SoleDb
  DryRun = {}
  Once = {}
  SourceOf <- Http
  BatchSize = 2
  MaxBatches = 0
  Cids = {c1}
  BadCids = {}
  Junk = {}
  Rebroadcast = FALSE
  MaxBatchSize = 2
  Capacity = 3
  MaxMessages = 1
  MaxFaults = 0
PROPERTY EventuallyAnchored
CHECK_DEADLOCK FALSE
