\* Two cycles with both tiers, deltas, feeds that fail and caches that expire.
CONSTANTS
  Nil = Nil
  w1 = w1
  c1 = c1
  c2 = c2
  s1 = s1
  f1 = f1
  weather = weather
  btc = btc
  misc = misc
  cold = cold
  coin = coin
  other = other
  bitcoin = bitcoin
  gc = gc
  Tickers = {w1, c1, c2, s1, f1}
  Series = {weather, btc, misc}
  Events = {cold, coin, other}
  Listing <- MCListing
  EventOf <- MCEventOf
  Volume <- MCVolume
  CloseAt <- MCCloseAt
  Books <- MCBooks
  Messages <- MCMessages
  Mentions <- MCMentions
  SymbolOf <- MCSymbolOf
  Sidecars = {"Fed"}
  Feeds = {"Sports"}
  Allowlist <- MCAllowlist
  Blocked = {btc}
  Categories = {"Sports"}
  CategoriesOf <- MCCategoriesOf
  Recency <- MCRecency
  MaxMarkets = 3
  PerFetch = 2
  MaxTier2 = 2
  PageSize = 1
  Window = 1
  MinVolume = 5
  MaxSpread = 8
  AllowNoSpread = FALSE
  MinClose = 1
  MaxPerEvent = 2
  Balanced = TRUE
  ValuationLimit = 3
  EnrichmentLimit = 2
  Ttl = 2
  PriceTtl = 2
  Modes = {"trade", "capture"}
  MaxCycles <- MCMaxCycles
  MaxTime = 3
  MaxMessages = 2
SPECIFICATION Spec
INVARIANTS
  TypeOK
  SignalAgeBounded
  WholeBatchValued
  LookaheadBounded
  VerticalsServed
  ScanBudget
