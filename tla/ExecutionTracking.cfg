\* Live trading, hybrid policy: every answer of the exchange may fail, the process and its files do not.
CONSTANTS
  Cids = {c1, c2, c3}
  Signals <- LargeSignals
  Mode = "Live"
  Policy = "hybrid"
  Faults = {"place_failed", "place_lost", "query_error", "market_error", "cancel_lost", "archived"}
  MaxOpenExposure = 400
  MaxOrderNotional = 250
  MaxDailyLoss = 3
  MaxOrdersPerMinute = 2
  MinOrderQuantity = 2
  HybridIocPct = 35
  MaxRetries = 1
  PollAttempts = 2
  FeePerContract = 1
  DedupsCids = TRUE
  EchoesCids = FALSE
  Grids <- CoarseGrid
  RateWindow = 1
  DayLength = 2
  MaxTime = 1
  Overshoot = 110
  Nil = Nil
SPECIFICATION Spec
SYMMETRY Symmetric
INVARIANTS
  RestingOrdersTracked
