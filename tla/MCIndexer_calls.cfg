SPECIFICATION Spec
CONSTANTS
  t1 = t1
  t2 = t2
  t3 = t3
  doc1 = doc1
  doc2 = doc2
  Truncated = Truncated
  Calls = {t1, t2, t3}
  Docs = {doc1, doc2}
  DocOf <- ThreeCalls
  Backends = {"LogosCore", "Http"}
  MaxAttempts = 3
  MaxCalls = 3
INVARIANT TypeOK
INVARIANT OneSender
INVARIANT NoPoison
INVARIANT UnsharedIsSafe
PROPERTY SettledForGood
CHECK_DEADLOCK FALSE
