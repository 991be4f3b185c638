CONSTANTS
  s1 = s1
  k1 = k1
  k2 = k2
  w1 = w1
  d1 = d1
  Simple = {}
  Continuation = {k1, k2}
  Outgoing = {w1}
  Direct = {d1}
  WithTx = {k1, k2}
  Terminal = {k2}
  Price <- MCPrice
  L1Count <- MCL1Count
  OverbidPct = 10
  CrossCap = 2
  OutCap = 1
  ForwardCap = 3
  MAX_PENDING_CROSS_CHAIN_ENTRIES = 10
  MAX_BATCH_SIZE = 2
  PENDING_CAP = 2
  MaxPerTick = 2
  MaxFaults = 2
  MaxRootFaults = 0
SPECIFICATION FairSpec
INVARIANTS TypeOK GroupsInStep NothingLost OnePlace ForwardedOnce
PROPERTIES ForwardWithItsBatch BatchOutbidsForwards EventuallyPosted
CHECK_DEADLOCK FALSE
