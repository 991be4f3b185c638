CONSTANTS
  DistinctActions = TRUE
  MAX_ENTRY_VERIFY_DEFERRALS = 3
  REORG_SAFETY_THRESHOLD = 3
  REORG_CHECK_DEPTH = 4
  MAX_LOG_RANGE = 3
  MAX_BLOCK_GAP = 3
  BuilderMode = TRUE
  BundlePath = TRUE
  EngineUnwinds = FALSE
  TxsMayBeMissing = FALSE
  AnyReorg = TRUE
  MAX_BATCH_SIZE = 2
  MAX_PENDING_SUBMISSIONS = 4
  BUNDLE_PATH_PENDING_CAP = 2
  CHECKPOINT_INTERVAL = 2
  FINALITY_DEPTH = 4
  MaxL1 = 4
  MaxEntries = 1
  MaxGap = 0
  MaxFaults = 0
  MaxReorgs = 0
  MaxCrashes = 0
  MaxLost = 0
  MaxMishaps = 0
SPECIFICATION Spec
INVARIANTS
  SettledAgrees
CHECK_DEADLOCK FALSE
