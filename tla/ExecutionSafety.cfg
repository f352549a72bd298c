\* Live trading, hybrid policy, every fault but a lost state file and an unknown grid, one midnight.
CONSTANTS
  Cids = {c1, c2, c3}
  Signals <- MixedSignals
  Mode = "Live"
  Policy = "hybrid"
  Faults = {"crash", "place_failed", "place_lost", "query_error", "cancel_lost", "archived", "io_error"}
  MaxOpenExposure = 200
  MaxOrderNotional = 400
  MaxDailyLoss = 3
  MaxOrdersPerMinute = 2
  MinOrderQuantity = 2
  HybridIocPct = 67
  MaxRetries = 1
  PollAttempts = 1
  FeePerContract = 1
  DedupsCids = TRUE
  EchoesCids = TRUE
  Grids <- CoarseGrid
  RateWindow = 1
  DayLength = 2
  MaxTime = 2
  Overshoot = 110
  Nil = Nil
SPECIFICATION Spec
SYMMETRY Symmetric
INVARIANTS
  TypeOK
  IntentBeforePlacement
  TrackedOrdersSound
  ExposureNeverOverstated
  PlacementRateLimited
  RecordedExposureBounded
PROPERTIES
  DayOnlyAccumulates
