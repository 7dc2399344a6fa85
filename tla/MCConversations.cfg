SPECIFICATION Spec
CONSTANTS
  t1 = t1  h1 = h1  h2 = h2  w1 = w1  w2 = w2
  Threads = {t1}
  Messages <- MCMessages
  Identity <- MCIdentity
  Webhooks = {h1, h2}
  Workers = {w1, w2}
  CONTEXT_CHARS = 3
  MaxDeliveries = 2
  MaxRequests = 2
  MaxTime = 3
  MaxFaults = 1
SYMMETRY Alike
INVARIANTS OneCustomerPerIdentity StoredIsEmbedded AskedIsCovered
CHECK_DEADLOCK FALSE
