\* Live trading, hybrid policy, every fault, an exchange that accepts an order id twice.
CONSTANTS
  Cids = {c1, c2}
  Signals <- SmallSignals
  Mode = "Live"
  Policy = "hybrid"
  Faults = {"crash", "state_lost", "place_failed", "place_lost", "query_error", "market_error", "cancel_lost", "archived", "io_error"}
  MaxOpenExposure = 200
  MaxOrderNotional = 400
  MaxDailyLoss = 3
  MaxOrdersPerMinute = 2
  MinOrderQuantity = 1
  HybridIocPct = 35
  MaxRetries = 1
  PollAttempts = 2
  FeePerContract = 1
  DedupsCids = FALSE
  EchoesCids = FALSE
  Grids <- FineGrid
  RateWindow = 0
  DayLength = 1
  MaxTime = 1
  Overshoot = 50
  Nil = Nil
SPECIFICATION FairSpec
PROPERTIES
  CallsEnd
  ImplementsOrderLedger
