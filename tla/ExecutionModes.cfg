\* Hybrid policy, paper and live over the same files: odd quantities, cancels that arrive
\* and queries that are answered; asks that the limit crosses and asks it cannot.
CONSTANTS
  Cids = {c1, c2, c3, c4}
  Signals <- ModesSignals
  Mode = "Paper"
  Policy = "hybrid"
  Faults = {"place_failed"}
  MaxOpenExposure = 400
  MaxOrderNotional = 400
  MaxDailyLoss = 3
  MaxOrdersPerMinute = 4
  MinOrderQuantity = 2
  HybridIocPct = 60
  MaxRetries = 1
  PollAttempts = 2
  FeePerContract = 1
  DedupsCids = TRUE
  EchoesCids = TRUE
  Grids <- FineGrid
  RateWindow = 1
  DayLength = 2
  MaxTime = 1
  Overshoot = 99
  Nil = Nil
SPECIFICATION EitherMode
SYMMETRY Symmetric
INVARIANTS
  IocNeverRests
  HybridNeverOverfills
  RecordedExposureBounded
