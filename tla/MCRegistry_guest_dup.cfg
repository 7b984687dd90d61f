SPECIFICATION Spec
CONSTANTS
  c1 = c1
  c2 = c2
  b1 = b1
  h1 = h1
  h2 = h2
  t0 = t0
  Cids = {c1, c2}
  BadCids = {b1}
  Hashes = {h1, h2}
  Times = {t0}
  MaxBatchSize = 2
  MaxArgs = 2
  Capacity = 3
  HostLibrary = FALSE
  Batches <- MCGuestBatches
INVARIANT OneRecordPerCid
