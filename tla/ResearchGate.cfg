\* A live order of an earlier run, recorded and labelled with a gain, and both models.
CONSTANTS
  Count = 2
  Procs = {"bot", "rebuild"}
  Periodic = "bot"
  NullRetryLimit = 1
  Traded = {1, 2}
  MaxDeaths = 1
  Nil = Nil
  Cids = {c1}
  Settings <- AllSettings
  PollAttempts = 2
  MaxFaults = 1
  MaxTime = 2
  None = None
  Mids = {60}
  FillPrice = 50
  FillWindows <- Windows
  MarkoutWindow = 1
  TrainPct = 50
  ValidationPct = 75
  TrainSources = {"organic_paper", "live_real", "retroactive_synthetic"}
  Supplement <- Retroactive
  MinTrainRows = 1
  MinLiveRows = 1
  MaxModelAge = 2
  Scenarios <- GateScenario
SPECIFICATION Spec
INVARIANT GateOpensOnEvidence
CHECK_DEADLOCK FALSE
