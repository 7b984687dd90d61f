SPECIFICATION FfiFairSpec
CONSTANTS
  t1 = t1
  t2 = t2
  doc1 = doc1
  Truncated = Truncated
  Calls = {t1, t2}
  Docs = {doc1}
  DocOf <- SameDoc
  Backends = {"LogosCore"}
  MaxAttempts = 2
  MaxCalls = 4
  AnchorOnChain = {t1}
  Decodable = {doc1}
INVARIANT FfiTypeOK
INVARIANT SuccessMeansBroadcast
INVARIANT OnlyBroadcastAnchored
PROPERTY ImplementsService
PROPERTY FfiReturns
CHECK_DEADLOCK FALSE
