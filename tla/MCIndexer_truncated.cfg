SPECIFICATION Spec
CONSTANTS
  t1 = t1
  t2 = t2
  t3 = t3
  doc1 = doc1
  doc2 = doc2
  Truncated = Truncated
  Calls = {t1, t2}
  Docs = {doc1, doc2}
  DocOf <- SameDoc
  Backends = {"LogosCore"}
  MaxAttempts = 3
  MaxCalls = 2
INVARIANT CidOfData
CHECK_DEADLOCK FALSE
