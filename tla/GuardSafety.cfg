\* Hybrid policy; calls end without a report, reports come without an id.
CONSTANTS
  Tickers = {t1}
  Cids = {c1, c2, c3}
  Notionals = {2}
  Policy = "hybrid"
  MaxNotionalPerTicker = 2
  ReentryCooldown = 1
  InvalidParamCooldown = 1
  NoPriceFactor = 2
  Faults = {"silent", "anonymous"}
  MaxTime = 1
  Nil = Nil
SPECIFICATION Spec
SYMMETRY Symmetric
INVARIANTS
  TypeOK
  RecordedNotionalCapped
  CooldownsRespected
  ReportedOrdersBlock
