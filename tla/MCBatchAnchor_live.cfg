SPECIFICATION FairSpec
CONSTANTS
  p1 = p1
  p2 = p2
  p3 = p3
  d1 = d1
  d2 = d2
  c1 = c1
  c2 = c2
  b1 = b1
  Procs = {p1, p2, p3}
  Dbs = {d1, d2}
  DbOf <- SharedDb
  DryRun = {}
  Once = {p2}
  SourceOf <- Mixed
  BatchSize = 2
  MaxBatches = 1
  Cids = {c1, c2}
  BadCids = {b1}
  Junk = {}
  Rebroadcast = FALSE
  MaxBatchSize = 2
  Capacity = 3
  MaxMessages = 3
  MaxFaults = 1
INVARIANT TypeOK
INVARIANT LocalAnchoredOnChain
INVARIANT NothingSkipped
INVARIANT OneRecordPerCid
PROPERTY ImplementsService
PROPERTY EventuallyAnchored
PROPERTY CatchesUp
CHECK_DEADLOCK FALSE
