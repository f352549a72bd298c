\* Every policy mode, with and without the models, forced candidates and double
\* valuations.
CONSTANTS
  Nil = Nil
  a1 = a1
  a2 = a2
  b1 = b1
  eventA = eventA
  eventB = eventB
  Tickers = {a1, a2, b1}
  Events = {eventA, eventB}
  EventOf <- MCEventOf
  Valuations <- MCValuations
  Books <- MCBooks
  Estimates <- MCEstimates
  PolicyModes = {"Shadow", "Active"}
  MinEdge = 5
  Cost = 1
  MinPnl = 0
  VetoThreshold <- MCVetoThreshold
  MaxActions = 4
  MaxTrades = 3
  MaxFraction = 60
  MaxTotal = 80
  MinFraction = 5
  EnforceMutex = TRUE
  MaxBankrollFraction = 60
  MaxMarketNotional = 3
  MinSignalEdge = 9
  MinQuantity = 1
  MaxQuantity = 10
  HybridIocFraction = 700
  FillParts = {0, 600}
  ForceTestCandidate = TRUE
  PaperCapture = TRUE
  Excluded = {b1}
  Allowlisted = {}
  Aliases <- MCAliases
  TickerLike = {a1}
  BestEffort = TRUE
  MaxCandidates = 3
SPECIFICATION Spec
INVARIANTS
  TypeOK
  CycleStakeCapped
  OneOrderPerEvent
  NeverOverpays
  OrdersBelowCap
