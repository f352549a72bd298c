\* Live, Claude on heuristic candidates: two batches, a cache that expires.
CONSTANTS
  Tickers = {t1, t2}
  Mids = {m1, m2}
  Asks = {a1}
  Mode = "Live"
  TriggerMode = "on_heuristic_candidates"
  ClaudeEveryNCycles = 2
  HasApiKey = TRUE
  AllowHeuristicInLive = FALSE
  BatchSize = 1
  MaxRetries = 1
  CacheTtl = 1
  MinCandidates = 1
  ForecastTickers = {}
  ForceTestCandidate = FALSE
  MaxCycles = 2
  MaxTime = 2
SPECIFICATION Spec
SYMMETRY Symmetric
INVARIANTS
  TypeOK
  OwnHeuristicsNotTraded
  TradesOnCurrentValuations
