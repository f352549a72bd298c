\* Two tickers, one retry a run, the trading loop and its backfill alone.
CONSTANTS
  Count = 2
  Procs = {"bot"}
  Periodic = "bot"
  NullRetryLimit = 1
  Traded = {2}
  MaxDeaths = 2
  Nil = Nil
SPECIFICATION FairBackfill
PROPERTIES
  EveryTradedMarketResolved
