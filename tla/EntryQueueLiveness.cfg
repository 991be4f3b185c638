CONSTANTS
  t1 = t1
  t2 = t2
  t3 = t3
  Task <- MCTask
  DrainMax = 2
  NoReceipt = NoReceipt
SPECIFICATION FairSpec
PROPERTY ConfirmedWaiterReturns
CHECK_DEADLOCK FALSE
