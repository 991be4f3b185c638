CONSTANTS
  s1 = s1
  k1 = k1
  k2 = k2
  w1 = w1
  d1 = d1
  Simple = {s1}
  Continuation = {k1}
  Outgoing = {}
  Direct = {}
  WithTx = {s1, k1}
  Terminal = {}
  Price <- MCPrice
  L1Count <- MCL1Count
  OverbidPct = 10
  CrossCap = 2
  OutCap = 1
  ForwardCap = 3
  MAX_PENDING_CROSS_CHAIN_ENTRIES = 10
  MAX_BATCH_SIZE = 2
  PENDING_CAP = 2
  MaxPerTick = 2
  MaxFaults = 0
  MaxRootFaults = 1
SPECIFICATION FairSpec
PROPERTY ForwardWithItsBatch
CHECK_DEADLOCK FALSE
