\* Live, Claude on heuristic candidates: a fallback leaves its valuation in the cache.
CONSTANTS
  Tickers = {t1, t2}
  Mids = {m1}
  Asks = {a1}
  Mode = "Live"
  TriggerMode = "on_heuristic_candidates"
  ClaudeEveryNCycles = 2
  HasApiKey = TRUE
  AllowHeuristicInLive = FALSE
  BatchSize = 1
  MaxRetries = 1
  CacheTtl = 1
  MinCandidates = 1
  ForecastTickers = {}
  ForceTestCandidate = FALSE
  MaxCycles = 3
  MaxTime = 2
SPECIFICATION Spec
SYMMETRY Symmetric
INVARIANTS
  LiveNeverTradesHeuristic
